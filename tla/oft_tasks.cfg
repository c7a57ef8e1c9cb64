CONSTANTS
    Wallet = Wallet
    Others = {}
    Order = Order
    Runs <- const_Runs
    Multisigs <- const_Multisigs
    NoOne = NoOne
    Idle = Idle
    NoTx = NoTx
    NoFile = NoFile
    MaxInFlight = 1
SPECIFICATION FairSpec
INVARIANTS
    AuthorityHasAStore
    OFTFileIsTrue
PROPERTIES
    AuthoritiesMoveWithTheWallet
CHECK_DEADLOCK FALSE
