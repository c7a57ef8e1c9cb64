SPECIFICATION Spec
CONSTANTS
    solana = solana  other = other
    proxy = proxy  imposter = imposter
    chain = chain  unset = unset
    u1 = u1
    Owners = {o1}
    Managers = {m1, m2}
    Oapp = oapp
    Eids = {solana}
    ChainIds = {chain}
    Addresses = {proxy, imposter}
    Receivers = {u1}
    Unset = unset
    Packets <- TwoPackets
    Messages <- MCMessages
    Gas = {0, 1}  Values = {1}  DefaultGas = 2
    GasPrices = {1, 2}  MsgValues = {2, 4}
    InitialWei = 5
    MaxSends = 1  MaxDrops = 1
INVARIANTS TypeOK DeliveredOnce QuoteIsTight
