---------------------------- MODULE TokenScripts ----------------------------
(***************************************************************************)
(* The GOB token scripts of src/smart-contracts/scripts: deploy-ethers.js *)
(* and deploy.js, which deploy the contract and read its details back,    *)
(* and interact.js, a command-line client (info, supply, balance,         *)
(* transfer, mint, burn, help).  The contract's code is not in the        *)
(* repository: a call or a deployment is a transaction the node may       *)
(* reject, lose the answer to, or mine with status 1 or 0, and a view     *)
(* call answers or fails.  Other clients' token transactions are mined    *)
(* in between.  A script run is one async timeline ended by process.exit. *)
(***************************************************************************)
EXTENDS Naturals, Sequences

CONSTANTS
    Scripts,   \* scripts that may be run
    Commands,  \* interact.js commands (args[0]), "" when none is given
    MaxOther,  \* bound on token transactions of other clients
    None       \* model value: no block yet / no exit code yet / no file

ASSUME /\ Scripts \subseteq {"deploy-ethers.js", "deploy.js", "interact.js"}
       /\ Commands \subseteq {"", "info", "supply", "balance", "transfer",
                              "mint", "burn", "help", "other"}

\* interact.js commands that send a transaction, and those of them that read
\* the supply again after the receipt.
TxCommands == {"transfer", "mint", "burn"}
SupplyCommands == {"mint", "burn"}

VARIABLES
    \* ledger node
    height,     \* blocks with token transactions so far
    others,     \* token transactions of other clients mined so far
    ours,       \* the script's transaction: "none", "pending" or "mined"
    ourBlock,   \* the height of the block that holds it, or None
    ourStatus,  \* its receipt status
    \* script
    script,     \* the script run
    command,    \* interact.js: the command given
    argsGiven,  \* interact.js: args[1] (and args[2]) are present
    keySet,     \* interact.js: PRIVATE_KEY is set
    pc,         \* where the timeline is parked, or "exited"
    outcome,    \* what the script printed of its transaction: "none", "success", "error"
    reads,      \* heights at which the supply was read after the transaction
    jobs,       \* callbacks queued when main() has returned
    exitCode,   \* the process's exit code, or None
    file        \* deployment.json: None or "written"

vars == <<height, others, ours, ourBlock, ourStatus, script, command, argsGiven,
          keySet, pc, outcome, reads, jobs, exitCode, file>>
ledgerVars == <<height, others, ours, ourBlock, ourStatus>>

-----------------------------------------------------------------------------
(* Ledger node.                                                            *)

\* Another client's token transaction is mined.
OtherTokenTx ==
    /\ others < MaxOther
    /\ others' = others + 1
    /\ height' = height + 1
    /\ UNCHANGED <<ours, ourBlock, ourStatus, script, command, argsGiven,
                   keySet, pc, outcome, reads, jobs, exitCode, file>>

\* The script's transaction is mined, with status 1 or 0.
Mine ==
    /\ ours = "pending"
    /\ ours' = "mined"
    /\ height' = height + 1
    /\ ourBlock' = height + 1
    /\ ourStatus' \in {0, 1}
    /\ UNCHANGED <<others, script, command, argsGiven, keySet, pc, outcome,
                   reads, jobs, exitCode, file>>

-----------------------------------------------------------------------------
(* Script.                                                                 *)

Init ==
    /\ height = 0 /\ others = 0
    /\ ours = "none" /\ ourBlock = None /\ ourStatus = 1
    /\ script \in Scripts
    /\ command \in IF script = "interact.js" THEN Commands ELSE {""}
    /\ argsGiven \in BOOLEAN
    /\ keySet \in BOOLEAN
    /\ pc = "main"
    /\ outcome = "none"
    /\ reads = <<>>
    /\ jobs = {}
    /\ exitCode = None
    /\ file = None

\* The timeline moves on to the await p.
Goto(p) == pc' = p /\ UNCHANGED <<jobs, exitCode>>

\* main() returned: its .then(() => process.exit(0)) is queued.
Return == pc' = "returned" /\ jobs' = {"exit"} /\ UNCHANGED exitCode

\* main() rejected: .catch prints the error and calls process.exit(1).
Crash == pc' = "exited" /\ exitCode' = 1 /\ UNCHANGED jobs

\* The catch block of transfer(), mint() and burn(): print the error; the
\* command function and then main() return.
Caught == outcome' = "error" /\ Return

\* transfer(), mint() and burn() up to their first await: without
\* PRIVATE_KEY they print an error and return; otherwise new ethers.Wallet
\* is built outside the try block (a malformed key throws into main()'s
\* .catch) and, in the try block, the amount is parsed and sent.
CommandFunction == IF keySet THEN Goto("send") \/ Crash ELSE Return

\* interact.js main() up to its first await: no command prints the usage;
\* otherwise the artifact is read (readFileSync throws when it is missing)
\* and the command dispatched.  A missing argument or PRIVATE_KEY prints an
\* error and returns (in main() for the arguments, in the command function
\* for the key); "help" re-enters main() with the arguments cut, which
\* prints the usage before its first await; an unknown command is reported.
InteractMain ==
    /\ script = "interact.js"
    /\ pc = "main"
    /\ \/ command = "" /\ Return
       \/ command # "" /\ Crash
       \/ command \in {"info", "supply"} /\ Goto("views")
       \/ command = "balance" /\ argsGiven /\ Goto("balance")
       \/ command \in TxCommands /\ argsGiven /\ CommandFunction
       \/ command \in TxCommands \cup {"balance"} /\ ~argsGiven /\ Return
       \/ command \in {"help", "other"} /\ Return
    /\ UNCHANGED <<ledgerVars, script, command, argsGiven, keySet, outcome,
                   reads, file>>

\* getTokenInfo() / getSupplyInfo(): six or four view calls with no
\* try/catch, so a failing one rejects main().
Views ==
    /\ pc = "views"
    /\ Return \/ Crash
    /\ UNCHANGED <<ledgerVars, script, command, argsGiven, keySet, outcome,
                   reads, file>>

\* getBalance(): token.balanceOf inside try/catch; either way it returns.
Balance ==
    /\ pc = "balance"
    /\ Return
    /\ UNCHANGED <<ledgerVars, script, command, argsGiven, keySet, outcome,
                   reads, file>>

\* The receipt of the command's transaction was awaited and had status 1:
\* print success; mint and burn go on to read the supply.
Succeeded ==
    /\ outcome' = "success"
    /\ IF command \in SupplyCommands THEN Goto("supply") ELSE Return

\* const tx = await tokenWithSigner.transfer/mint/burn(...): ethers
\* estimates the gas (a revert throws), signs and broadcasts.  The node
\* takes the transaction and answers, takes it while the answer is lost,
\* or it never leaves (parseEther of a bad amount, revert, rejection).
Send ==
    /\ pc = "send"
    /\ \/ ours' = "pending" /\ Goto("wait") /\ UNCHANGED outcome
       \/ ours' = "pending" /\ Caught
       \/ Caught /\ UNCHANGED ours
    /\ UNCHANGED <<height, others, ourBlock, ourStatus, script, command,
                   argsGiven, keySet, reads, file>>

\* Mutant: tx.wait(2), which also waits for a later block.
WaitTwoConfirmations ==
    /\ pc = "wait"
    /\ ours = "mined" /\ height > ourBlock
    /\ IF ourStatus = 1 THEN Succeeded ELSE Caught
    /\ UNCHANGED <<ledgerVars, script, command, argsGiven, keySet, reads, file>>

\* await tx.wait(): resolves once the transaction is in a block and throws
\* CALL_EXCEPTION when its status is 0.
Wait ==
    /\ pc = "wait"
    /\ ours = "mined"
    /\ IF ourStatus = 1 THEN Succeeded ELSE Caught
    /\ UNCHANGED <<ledgerVars, script, command, argsGiven, keySet, reads, file>>

\* tx.wait() throws on an RPC error (ethers first asks for the receipt and
\* checks for a replacement) into the catch block, the transaction taken.
\* Nothing obliges this to happen: it is outside the fairness condition.
WaitFails ==
    /\ pc = "wait"
    /\ Caught
    /\ UNCHANGED <<ledgerVars, script, command, argsGiven, keySet, reads, file>>

\* Mutant: the second read's check off by one, a third read follows.
SupplyReadOffByOne ==
    /\ pc = "supply"
    /\ \/ /\ reads' = Append(reads, height)
          /\ IF Len(reads) <= 1 THEN UNCHANGED <<pc, jobs, exitCode>> ELSE Return
          /\ UNCHANGED outcome
       \/ Caught /\ UNCHANGED reads
    /\ UNCHANGED <<ledgerVars, script, command, argsGiven, keySet, file>>

\* await token.circulatingSupply(), then await token.remainingMintable():
\* each answers with the state at the current height, or throws into the
\* catch block.
SupplyRead ==
    /\ pc = "supply"
    /\ \/ /\ reads' = Append(reads, height)
          /\ IF Len(reads) = 0 THEN UNCHANGED <<pc, jobs, exitCode>> ELSE Return
          /\ UNCHANGED outcome
       \/ Caught /\ UNCHANGED reads
    /\ UNCHANGED <<ledgerVars, script, command, argsGiven, keySet, file>>

\* deploy-ethers.js / deploy.js main() up to factory.deploy: the balance of
\* the deployer (and for deploy.js the hardhat signer and factory) is
\* fetched and the artifact read; a failure rejects main().
DeployMain ==
    /\ script \in {"deploy-ethers.js", "deploy.js"}
    /\ pc = "main"
    /\ Goto("deploy") \/ Crash
    /\ UNCHANGED <<ledgerVars, script, command, argsGiven, keySet, outcome,
                   reads, file>>

\* const token = await factory.deploy(name, symbol, initialOwner): the
\* deployment transaction is taken and answered, taken with the answer
\* lost, or rejected; a throw rejects main().
Deploy ==
    /\ pc = "deploy"
    /\ \/ ours' = "pending" /\ Goto("deployed")
       \/ ours' = "pending" /\ Crash
       \/ Crash /\ UNCHANGED ours
    /\ UNCHANGED <<height, others, ourBlock, ourStatus, script, command,
                   argsGiven, keySet, outcome, reads, file>>

\* await token.waitForDeployment(): waits for the deployment transaction's
\* receipt; status 0 throws CALL_EXCEPTION.
WaitForDeployment ==
    /\ pc = "deployed"
    /\ ours = "mined"
    /\ IF ourStatus = 1 THEN Goto("details") ELSE Crash
    /\ UNCHANGED <<ledgerVars, script, command, argsGiven, keySet, outcome,
                   reads, file>>

\* waitForDeployment() throws on an RPC error, the deployment taken.
\* Outside the fairness condition, like WaitFails.
WaitForDeploymentFails ==
    /\ pc = "deployed"
    /\ Crash
    /\ UNCHANGED <<ledgerVars, script, command, argsGiven, keySet, outcome,
                   reads, file>>

\* The reads after the deployment: getAddress() and the nine view calls of
\* the token details and owner balance, any of which may throw into
\* main().catch.
DetailReads(returned) ==
    /\ pc = "details"
    /\ returned \/ Crash
    /\ UNCHANGED <<ledgerVars, script, command, argsGiven, keySet, outcome,
                   reads, file>>

\* deploy-ethers.js: after the details it starts import('fs').then(write
\* deployment.json) without awaiting it, and main() returns; the write and
\* the process.exit(0) of main().then are both queued, in an order the
\* code does not fix.
Details ==
    /\ script = "deploy-ethers.js"
    /\ DetailReads(pc' = "returned" /\ jobs' = {"write", "exit"} /\ UNCHANGED exitCode)

\* deploy.js: after the details it prints the deployment info and main()
\* returns; only the process.exit(0) of main().then is queued.
HardhatDetails ==
    /\ script = "deploy.js"
    /\ DetailReads(Return)

\* The callback writing deployment.json runs.
WriteDeploymentFile ==
    /\ pc = "returned"
    /\ "write" \in jobs
    /\ file' = "written"
    /\ jobs' = jobs \ {"write"}
    /\ UNCHANGED <<ledgerVars, script, command, argsGiven, keySet, pc, outcome,
                   reads, exitCode>>

\* The callback of main().then runs process.exit(0): queued callbacks that
\* have not run never will.
Exit ==
    /\ pc = "returned"
    /\ "exit" \in jobs
    /\ pc' = "exited"
    /\ exitCode' = 0
    /\ jobs' = {}
    /\ UNCHANGED <<ledgerVars, script, command, argsGiven, keySet, outcome,
                   reads, file>>

ScriptStep ==
    \/ InteractMain \/ Views \/ Balance \/ Send \/ Wait \/ SupplyRead
    \/ DeployMain \/ Deploy \/ WaitForDeployment \/ Details \/ HardhatDetails
    \/ WriteDeploymentFile \/ Exit

Next == ScriptStep \/ WaitFails \/ WaitForDeploymentFails \/ OtherTokenTx \/ Mine

\* Every await of a script settles (ethers times its requests out; the
\* waits for a receipt have no timeout) and the node keeps mining pending
\* transactions.  The RPC errors of the waits (WaitFails,
\* WaitForDeploymentFails) and other clients owe nothing.
Spec == Init /\ [][Next]_vars /\ WF_vars(ScriptStep) /\ WF_vars(Mine)

-----------------------------------------------------------------------------
(* Properties.                                                             *)

TypeOK ==
    /\ height \in 0..MaxOther + 1
    /\ ours \in {"none", "pending", "mined"}
    /\ ourBlock \in 1..MaxOther + 1 \cup {None}
    /\ pc \in {"main", "views", "balance", "send", "wait", "supply", "deploy",
               "deployed", "details", "returned", "exited"}
    /\ outcome \in {"none", "success", "error"}
    /\ reads \in Seq(0..MaxOther + 1) /\ Len(reads) <= 2
    /\ jobs \subseteq {"write", "exit"}
    /\ exitCode \in {None, 0, 1}
    /\ file \in {None, "written"}

(***************************************************************************)
(* Every run of a script ends in process.exit: the receipt waits of        *)
(* interact.js and waitForDeployment have no timeout, so this rests on the *)
(* node mining the script's own transaction, whatever else it mines.       *)
(***************************************************************************)
Termination == <>(pc = "exited")

(***************************************************************************)
(* A GOB contract that deploy-ethers.js deploys is recorded in             *)
(* deployment.json ("// Save deployment info", "// Save to file") by the   *)
(* time the process has exited.                                           *)
(***************************************************************************)
DeploymentRecorded ==
    script = "deploy-ethers.js" /\ pc = "exited" /\ ours = "mined" /\ ourStatus = 1
        => file = "written"

=============================================================================
