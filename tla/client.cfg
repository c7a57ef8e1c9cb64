CONSTANTS
    Env = "dev"
    PayloadArgs <- const_PayloadArgs
    Amounts <- const_Amounts
    OnSolana = 100
    OnEthereum = 1000
    Shared = 10
    InitialOrder = 100
    Fees <- const_Fees
    OFTFees <- const_OFTFees
    Needed = 2
    AltCapacity = 4
    Idle = Idle
    None = None
    MaxInFlight = 1
    MaxChanges = 1
SPECIFICATION FairSpec
INVARIANTS
    StakeTellsWhatItBrings
    RequestsAreUnderstood
PROPERTIES
    GoalIsReached
