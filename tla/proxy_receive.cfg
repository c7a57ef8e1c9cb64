SPECIFICATION FairSpec
CONSTANTS
    u1 = u1  u2 = u2
    orderly = orderly  other = other
    ledgerOApp = ledgerOApp  imposter = imposter
    OrderlyEid = orderly
    ProxyKey = proxy_config
    ZeroAddress = zero
    UsdcMint = usdc_mint
    NoAccount = NoAccount
    Users = {u1, u2}
    Admins = {a1, a2}
    Eids = {orderly, other}
    Addresses = {ledgerOApp, imposter}
    Mints = {usdc_mint, old_mint}
    DistributionIds = {d1}  Amounts = {1}  Proofs = {proof}
    Codes = {}
    RentMinimum = 3  ClaimRent = 1  InitialLamports = 8
    LzFees = {1}
    BackwardFees = {0}
    FeeOffers = {}
    Withdrawals = {}
    Packets <- AllPackets
    U64 = 4  TopUp = 2  MaxTopUps = 2
    MaxSends = 0  MaxSubmits = 0
INVARIANTS TypeOK
PROPERTIES PauseFreezes ImplementsSettlement LedgerPacketsArePaid
