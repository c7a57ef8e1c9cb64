SPECIFICATION Spec
CONSTANTS
    e1 = e1
    a1 = a1
    u1 = u1
    Native = Native  Adapter = Adapter  OftType = Native
    None = None  Escrow = Escrow  ZeroAddress = zero
    U64 = 16  U128 = 256  ld2sd_rate = 2  ONE_IN_BASIS_POINTS = 4  DUST = 2
    Users = {u1}
    Keys = {k1}  PausingKeys = {}
    Eids = {e1}
    Addresses = {a1}
    InitialTokens = 4
    TransferFees <- NoTransferFee
    FeeRates = {}
    RateLimits <- MCRateLimits
    SendAmounts = {2}  Minimums = {0}
    Withdrawals = {}
    Packets <- TwoAmounts
    Composing = {FALSE}
    MaxTime = 2  MaxSends = 1  MaxMarks = 1
INVARIANTS NothingIsLost RateLimitHolds
