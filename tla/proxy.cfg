SPECIFICATION Spec
CONSTANTS
    u1 = u1  u2 = u2
    orderly = orderly  other = other
    ledgerOApp = ledgerOApp  imposter = imposter
    OrderlyEid = orderly
    ProxyKey = proxy_config
    ZeroAddress = zero
    UsdcMint = usdc_mint
    NoAccount = NoAccount
    Users = {u1}
    Admins = {a1}
    Eids = {orderly}
    Addresses = {ledgerOApp}
    Mints = {usdc_mint}
    DistributionIds = {d1}  Amounts = {1}  Proofs = {proof}
    Codes = {2, 7, 10, 15, 255}
    RentMinimum = 3  ClaimRent = 1  InitialLamports = 6
    LzFees = {1, 2}
    BackwardFees = {0, 2}
    FeeOffers = {1, 2, 3, 4}
    Withdrawals = {1, 2}
    Packets <- NoPackets
    U64 = 4  TopUp = 0  MaxTopUps = 0
    MaxSends = 2  MaxSubmits = 2
INVARIANTS RevenueIsKept QuotesAreTight ProofSentAtMostOnce
PROPERTIES ClaimsCarryTheLatestProof SendsPayTheirWay
