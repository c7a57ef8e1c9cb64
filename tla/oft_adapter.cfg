SPECIFICATION FairSpec
CONSTANTS
    e1 = e1
    a1 = a1
    u1 = u1
    Native = Native  Adapter = Adapter  OftType = Adapter
    None = None  Escrow = Escrow  ZeroAddress = zero
    U64 = 16  U128 = 256  ld2sd_rate = 2  ONE_IN_BASIS_POINTS = 4  DUST = 2
    Users = {u1}
    Keys = {k1}  PausingKeys = {k1}
    Eids = {e1}
    Addresses = {a1}
    InitialTokens = 6
    TransferFees <- TransferFeesSet
    FeeRates = {2}
    RateLimits <- Nothing
    SendAmounts = {3, 6}  Minimums = {0, 3}
    Withdrawals = {1}
    Packets <- MCPackets
    Composing = {FALSE}
    MaxTime = 0  MaxSends = 2  MaxMarks = 0
INVARIANTS TypeOK EscrowCovers NothingIsLost
PROPERTIES SendKeepsItsTerms ComposeSaysWhatArrived OFTPauseFreezes OFTPacketsArrive
