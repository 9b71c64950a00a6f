\* deploy-ethers.js alone.
CONSTANTS
    Scripts = {"deploy-ethers.js"}
    Commands = {""}
    MaxOther = 1
    None = None
SPECIFICATION Spec
INVARIANT DeploymentRecorded
\* Every script ends with process.exit.
CHECK_DEADLOCK FALSE
