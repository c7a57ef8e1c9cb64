SPECIFICATION MeshSpec
CONSTANTS
    e1 = e1
    a1 = a1
    u1 = u1
    Native = Native  Adapter = Adapter  OftType = Adapter
    None = None  Escrow = Escrow  ZeroAddress = zero
    U64 = 32  U128 = 128  ld2sd_rate = 3  ONE_IN_BASIS_POINTS = 10  DUST = 4
    Users = {u1}
    Keys = {k1}  PausingKeys = {}
    Eids = {e1}
    Addresses = {a1}
    InitialTokens = 13
    TransferFees <- MCTransferFees
    FeeRates = {5}
    RateLimits <- Nothing
    SendAmounts = {4, 8}  Minimums = {0}
    Withdrawals = {2}
    Packets <- MCPackets
    Composing = {FALSE}
    MaxTime = 0  MaxSends = 2  MaxMarks = 0
    InitialAbroad = 0
INVARIANTS ReturnsAreBacked AmountsAreExact
