SPECIFICATION Spec
CONSTANTS
    MaxContracts = 2
    Terminals = {"one", "two"}
    Scenes <- SetUpAndUse
    Deployer = deployer
    Accounts = {deployer, key}
    Nobody = Nobody
    NoTerminal = NoTerminal
    MinBalance = 1
    MaxDeposits = 2
INVARIANTS TypeOK ExecutorLast RecordTellsTruth DepositsAreReal WorkerAuthorised
