CONSTANTS
    Envs <- const_Envs
    Wallet = "wallet"
    NoAccount = NoAccount
    Idle = Idle
    MaxInFlight = 1
SPECIFICATION FairSpec
INVARIANTS
    TypeOK
    DelegateIsAdmin
PROPERTIES
    HandoverCutsOffTheDeployer
    CaughtErrorsHideNothing
    DeploymentFinishes
