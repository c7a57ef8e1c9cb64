SPECIFICATION FairBridge
CONSTANTS
    u1 = u1  u2 = u2  chain = chain
    OrderlyEid = orderly
    ProxyKey = proxy_config
    ZeroAddress = zero
    UsdcMint = usdc_mint
    NoAccount = NoAccount
    Users = {u1}
    Admins = {a1}
    Eids = {orderly}
    Addresses = {ledgerOApp}
    Mints = {usdc_mint}
    DistributionIds = {d1}  Amounts = {1}  Proofs = {proof}
    Codes = {7, 15}
    RentMinimum = 0  ClaimRent = 0  InitialLamports = 2
    LzFees = {1}
    BackwardFees = {0}
    FeeOffers = {1}
    Withdrawals = {}
    Packets <- PaymentPackets
    U64 = 4  TopUp = 3  MaxTopUps = 1
    MaxSends = 1  MaxSubmits = 1
    SolanaEid = solana
    ProxyAddress = proxy
    LedgerAddress = ledgerOApp
    RequestPackets <- ProgramPackets
    Owners = {o1}
    Managers = {m1}
    Oapp = oapp
    ChainIds = {chain}
    Unset = unset
    Messages <- OnePayment
    Gas = {1}  Values = {0}  DefaultGas = 1
    GasPrices = {1}  MsgValues = {1}
    InitialWei = 2
    MaxPayments = 1  MaxDrops = 0
INVARIANTS CodesAgree
PROPERTIES RequestsArrive PaymentsSettleEndToEnd PaymentsArrive
