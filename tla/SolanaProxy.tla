---------------------------- MODULE SolanaProxy ----------------------------
(***************************************************************************)
(* The Solana Proxy program (programs/solana-proxy).  Users send staking   *)
(* requests and Merkle claims to the ledger chain through the LayerZero    *)
(* endpoint and pay, on top of the messaging fee, a backward fee that      *)
(* stays in the proxy_config account; messages that come back pay USDC out *)
(* of the proxy's token account.                                           *)
(*                                                                         *)
(* An instruction is one atomic step: an error anywhere in it rolls back   *)
(* everything, so a step's guard is the conjunction of every check the     *)
(* handler makes, of those the accounts' constraints make, and of those    *)
(* the programs it calls make.  An account that does not exist is          *)
(* NoAccount.                                                              *)
(***************************************************************************)
EXTENDS Integers, FiniteSetsExt, PayloadTypes

CONSTANTS
    Users,            \* signers of user instructions
    Admins,           \* keys that may hold the admin role
    ProxyKey,         \* the proxy_config account, also the vault's authority
    Eids,             \* LayerZero endpoint ids a peer can be configured for
    OrderlyEid,       \* proxy_config.orderly_eid, the ledger chain's
    Addresses,        \* addresses of contracts on the other chains
    ZeroAddress,      \* peer_address of a peer account nobody has set it on
    Mints,            \* token mints
    UsdcMint,         \* proxy_config.usdc_token_account
    NoAccount,
    DistributionIds, Amounts, Proofs,  \* arguments of submit_proof
    Codes,            \* payload bytes a user may ask for
    RentMinimum,      \* rent exemption of proxy_config, in lamports
    ClaimRent,        \* rent exemption of a claim_data account
    InitialLamports,  \* what each user starts with
    LzFees,           \* fees the messaging library may ask for a message
    BackwardFees,     \* fees an admin may set
    FeeOffers,        \* msg_fee.native_fee a user may pass
    Withdrawals,      \* amounts an admin may ask withdraw_fee for
    Packets,          \* packets that may be sent to the program
    U64,              \* 2^64, scaled down
    TopUp, MaxTopUps, \* USDC put in the vault at a time, and how often
    MaxSends,         \* bound on outbound messages
    MaxSubmits        \* bound on submit_proof calls of a user

Accounts == Users \cup {ProxyKey}

\* process_proof(proof, leaf) with a collision-free hash: the root names the
\* leaf it was computed from.
Leaf(user, amount)         == <<user, amount>>
process_proof(proof, leaf) == <<leaf[1], leaf[2], proof>>
Roots == Users \X Amounts \X Proofs

ProxyConfig == [admin : Admins, paused : BOOLEAN]
BackwardFee == [order : BackwardFees, usdc : BackwardFees]
ClaimData   == [distribution_id : DistributionIds, amount : Amounts,
                root : Roots, submission : 1..MaxSubmits]
Peer        == Addresses \cup {ZeroAddress}

\* What the endpoint is given: the message, its receiver and, as history, the
\* backward fee the sender was charged and the nonce the endpoint assigned.
Message == [nonce : 1..MaxSends, receiver : Peer, sender : Users,
            payload_type : PayloadTypes, token : TokenTypes,
            claim : ClaimData \cup {NoAccount}, backward_fee : Nat]

\* A packet that arrived: its path, its nonce and the fields of its message.
Packet == [src_eid : Eids, sender : Addresses, nonce : Nat,
           token : Byte, receiver : Users, payload_type : Byte, amount : Nat]

\* The accounts a caller of lz_receive passes.
ReceiveAccounts == [peer_eid : Eids, mint : Mints, receiver : Users]

ASSUME ProxyAssumption ==
    /\ ProxyKey \notin Users
    /\ OrderlyEid \in Eids
    /\ UsdcMint \in Mints
    /\ ZeroAddress \notin Addresses
    /\ NoAccount \notin ProxyConfig \cup BackwardFee \cup ClaimData \cup Peer
                        \cup Mints
    /\ Codes \subseteq Byte
    /\ RentMinimum \in Nat /\ ClaimRent \in Nat /\ InitialLamports \in Nat
    /\ BackwardFees \subseteq Nat /\ FeeOffers \subseteq Nat
    /\ Withdrawals \subseteq Nat
    /\ LzFees \subseteq Nat \ {0} /\ LzFees # {}
    /\ Packets \subseteq Packet
    /\ U64 \in Nat \ {0}
    /\ TopUp \in Nat /\ MaxTopUps \in Nat
    /\ MaxSends \in Nat /\ MaxSubmits \in Nat

VARIABLES
    proxy_config,   \* NoAccount until init_proxy
    peer_config,    \* per endpoint id, the peer_address of the account
    backward_fee,   \* NoAccount until set_backward_fee
    account_list,   \* AccountList.usdc_token_account, NoAccount until set
    claim_data,     \* per user, the submitted proof not yet sent
    lamports,       \* native balances of users and of proxy_config
    usdc,           \* balances of the USDC token accounts
    delegate,       \* endpoint: who may configure the OApp
    lz_fee,         \* endpoint: what it asks for a message now
    outbound_nonce, \* endpoint: messages accepted so far
    outbox,         \* endpoint: the messages accepted
    verified,       \* endpoint: packets verified and not yet cleared
    cleared,        \* endpoint: packets cleared
    submitted,      \* history: submit_proof calls per user
    withdrawn,      \* history: lamports withdraw_fee has paid out
    topups          \* history: transfers of USDC into the vault

adminVars    == <<proxy_config, peer_config, backward_fee, account_list,
                  delegate>>
claimVars    == <<claim_data, submitted>>
outboundVars == <<outbound_nonce, outbox>>
inboundVars  == <<verified, cleared, usdc, topups>>
nativeVars   == <<lamports, withdrawn>>

vars == <<adminVars, claimVars, outboundVars, inboundVars, nativeVars, lz_fee>>

TypeOK ==
    /\ proxy_config \in ProxyConfig \cup {NoAccount}
    /\ peer_config \in [Eids -> Peer \cup {NoAccount}]
    /\ backward_fee \in BackwardFee \cup {NoAccount}
    /\ account_list \in Mints \cup {NoAccount}
    /\ claim_data \in [Users -> ClaimData \cup {NoAccount}]
    /\ lamports \in [Accounts -> Nat]
    /\ usdc \in [Accounts -> Nat]
    /\ delegate \in Admins \cup {NoAccount}
    /\ lz_fee \in LzFees
    /\ outbound_nonce \in 0..MaxSends
    /\ outbox \subseteq Message
    /\ verified \subseteq Packets
    /\ cleared \subseteq Packets
    /\ submitted \in [Users -> 0..MaxSubmits]
    /\ withdrawn \in Nat
    /\ topups \in 0..MaxTopUps

Init ==
    /\ proxy_config = NoAccount
    /\ peer_config = [eid \in Eids |-> NoAccount]
    /\ backward_fee = NoAccount
    /\ account_list = NoAccount
    /\ claim_data = [u \in Users |-> NoAccount]
    /\ lamports = [a \in Accounts |-> IF a = ProxyKey THEN 0
                                      ELSE InitialLamports]
    /\ usdc = [a \in Accounts |-> 0]
    /\ delegate = NoAccount
    /\ lz_fee \in LzFees
    /\ outbound_nonce = 0
    /\ outbox = {}
    /\ verified = {}
    /\ cleared = {}
    /\ submitted = [u \in Users |-> 0]
    /\ withdrawn = 0
    /\ topups = 0

-----------------------------------------------------------------------------
(* Instructions of the administrator.                                      *)

\* init_proxy: creates the accounts, which `init` allows once, and registers
\* the program with the endpoint under the admin as delegate.
InitProxy(admin) ==
    /\ proxy_config = NoAccount
    /\ proxy_config' = [admin |-> admin, paused |-> FALSE]
    /\ lamports' = [lamports EXCEPT ![ProxyKey] = RentMinimum]
    /\ delegate' = admin
    /\ UNCHANGED <<peer_config, backward_fee, account_list, claimVars,
                   outboundVars, inboundVars, withdrawn, lz_fee>>

\* has_one = admin
IsAdmin(signer) ==
    /\ proxy_config # NoAccount
    /\ signer = proxy_config.admin

SetBackwardFee(signer, order, usdc_fee) ==
    /\ IsAdmin(signer)
    /\ backward_fee' = [order |-> order, usdc |-> usdc_fee]
    /\ UNCHANGED <<proxy_config, peer_config, account_list, delegate,
                   claimVars, outboundVars, inboundVars, nativeVars, lz_fee>>

SetPause(signer, paused) ==
    /\ IsAdmin(signer)
    /\ proxy_config' = [proxy_config EXCEPT !.paused = paused]
    /\ UNCHANGED <<peer_config, backward_fee, account_list, delegate,
                   claimVars, outboundVars, inboundVars, nativeVars, lz_fee>>

\* set_account_list: points lz_receive_types_accounts at the list as well.
SetAccountList(signer, mint) ==
    /\ IsAdmin(signer)
    /\ account_list' = mint
    /\ UNCHANGED <<proxy_config, peer_config, backward_fee, delegate,
                   claimVars, outboundVars, inboundVars, nativeVars, lz_fee>>

\* set_peer_config with PeerAddress.
SetPeerAddress(signer, eid, address) ==
    /\ IsAdmin(signer)
    /\ peer_config' = [peer_config EXCEPT ![eid] = address]
    /\ UNCHANGED <<proxy_config, backward_fee, account_list, delegate,
                   claimVars, outboundVars, inboundVars, nativeVars, lz_fee>>

\* set_peer_config with FeeBps, EnforcedOptions or a rate limit.  The program
\* passes the options on to the endpoint, which prices them (LzFeeChange), and
\* reads none of the others back: what is left is that the account comes into
\* being with a zero peer_address.
SetPeerOther(signer, eid) ==
    /\ IsAdmin(signer)
    /\ peer_config[eid] = NoAccount
    /\ peer_config' = [peer_config EXCEPT ![eid] = ZeroAddress]
    /\ UNCHANGED <<proxy_config, backward_fee, account_list, delegate,
                   claimVars, outboundVars, inboundVars, nativeVars, lz_fee>>

SetDelegate(signer, new_delegate) ==
    /\ IsAdmin(signer)
    /\ delegate' = new_delegate
    /\ UNCHANGED <<proxy_config, peer_config, backward_fee, account_list,
                   claimVars, outboundVars, inboundVars, nativeVars, lz_fee>>

\* transfer_admin: the endpoint's delegate stays who it was.
TransferAdmin(signer, new_admin) ==
    /\ IsAdmin(signer)
    /\ proxy_config.admin # new_admin
    /\ proxy_config' = [proxy_config EXCEPT !.admin = new_admin]
    /\ UNCHANGED <<peer_config, backward_fee, account_list, delegate,
                   claimVars, outboundVars, inboundVars, nativeVars, lz_fee>>

\* withdraw_fee: at most what proxy_config holds above its rent exemption.
\* The collector is any account, proxy_config itself included.
MutWholeBalance == lamports[ProxyKey]
surplus_lamports == lamports[ProxyKey] - RentMinimum

WithdrawFee(signer, collector, amount) ==
    LET debited == [lamports EXCEPT ![ProxyKey] = @ - amount] IN
    /\ IsAdmin(signer)
    /\ surplus_lamports >= amount
    /\ lamports' = [debited EXCEPT ![collector] = @ + amount]
    /\ withdrawn' = withdrawn + (IF collector = ProxyKey THEN 0 ELSE amount)
    /\ UNCHANGED <<adminVars, claimVars, outboundVars, inboundVars, lz_fee>>

-----------------------------------------------------------------------------
(* Instructions of the users.                                              *)

\* Every instruction of a user or the endpoint starts with this.
MutNoPauseCheck == proxy_config # NoAccount
Running == proxy_config # NoAccount /\ ~proxy_config.paused

\* An instruction that sends or quotes needs two more accounts.
Operating ==
    /\ Running
    /\ peer_config[OrderlyEid] # NoAccount
    /\ backward_fee # NoAccount

\* The fee send_request charges on top of the messaging fee.
request_backward_fee(payload_type) ==
    IF payload_type \in {WithdrawOrder, ClaimVestingRequest, UnstakeOrderNow}
    THEN backward_fee.order
    ELSE IF payload_type = ClaimUsdcRevenue THEN backward_fee.usdc ELSE 0

\* quote_request and quote_claim: the endpoint's quote plus the backward fee.
MutQuoteForgetsUnstake(code) ==
    IF code \in {WithdrawOrder, ClaimVestingRequest} THEN backward_fee.order
    ELSE IF code = ClaimUsdcRevenue THEN backward_fee.usdc ELSE 0
quote_backward_fee(code) ==
    IF code \in {WithdrawOrder, ClaimVestingRequest, UnstakeOrderNow}
    THEN backward_fee.order
    ELSE IF code = ClaimUsdcRevenue THEN backward_fee.usdc ELSE 0
quote_request(code) == lz_fee + quote_backward_fee(code)
quote_claim         == lz_fee + backward_fee.order

\* The endpoint's send refuses a native_fee below what the library asks.
EndpointAccepts(native_fee) == lz_fee <= native_fee

MutRequestFeeNotSubtracted(code, native_fee) ==
    /\ request_backward_fee(from_u8(code)) < native_fee
    /\ check_request_payload_type(from_u8(code))
    /\ EndpointAccepts(native_fee)
RequestAccepted(code, native_fee) ==
    LET payload_type == from_u8(code)
        fee          == request_backward_fee(payload_type) IN
    /\ fee < native_fee
    /\ check_request_payload_type(payload_type)
    /\ EndpointAccepts(native_fee - fee)

ClaimAccepted(native_fee) ==
    /\ check_claim_payload_type(ClaimRewardSolana)
    /\ backward_fee.order < native_fee
    /\ EndpointAccepts(native_fee - backward_fee.order)

\* The endpoint takes lz_fee from the user; the system program moves the
\* backward fee from the user to proxy_config.
MutFeeNotCollected(balances, user, fee) ==
    [balances EXCEPT ![user] = @ - lz_fee]
Charge(balances, user, fee) ==
    [balances EXCEPT ![user] = @ - lz_fee - fee, ![ProxyKey] = @ + fee]

EndpointSend(user, payload_type, claim, fee) ==
    /\ outbound_nonce < MaxSends
    /\ outbound_nonce' = outbound_nonce + 1
    /\ outbox' = outbox \cup
         {[nonce |-> outbound_nonce + 1, receiver |-> peer_config[OrderlyEid],
           sender |-> user, payload_type |-> payload_type,
           token |-> get_token_type(payload_type), claim |-> claim,
           backward_fee |-> fee]}

SendRequest(user, code, native_fee) ==
    LET payload_type == from_u8(code)
        fee          == request_backward_fee(payload_type) IN
    /\ Operating
    /\ RequestAccepted(code, native_fee)
    /\ lamports[user] >= lz_fee + fee
    /\ EndpointSend(user, payload_type, NoAccount, fee)
    /\ lamports' = Charge(lamports, user, fee)
    /\ UNCHANGED <<adminVars, claimVars, inboundVars, withdrawn, lz_fee>>

\* submit_proof: creates claim_data at the user's expense or overwrites it.
MutFirstProofStays(user, data) ==
    claim_data' = [claim_data EXCEPT ![user] = IF @ = NoAccount THEN data ELSE @]
StoreProof(user, data) == claim_data' = [claim_data EXCEPT ![user] = data]

SubmitProof(user, distribution_id, amount, proof) ==
    LET rent == IF claim_data[user] = NoAccount THEN ClaimRent ELSE 0 IN
    /\ Running
    /\ submitted[user] < MaxSubmits
    /\ lamports[user] >= rent
    /\ lamports' = [lamports EXCEPT ![user] = @ - rent]
    /\ submitted' = [submitted EXCEPT ![user] = @ + 1]
    /\ StoreProof(user,
         [distribution_id |-> distribution_id, amount |-> amount,
          root |-> process_proof(proof, Leaf(user, amount)),
          submission |-> submitted[user] + 1])
    /\ UNCHANGED <<adminVars, outboundVars, inboundVars, withdrawn, lz_fee>>

\* send_claim: the claim_data account is closed to the user on the way out.
MutClaimStaysOpen(user) == UNCHANGED claim_data
CloseClaim(user) == claim_data' = [claim_data EXCEPT ![user] = NoAccount]

SendClaim(user, native_fee) ==
    LET fee == backward_fee.order IN
    /\ Operating
    /\ claim_data[user] # NoAccount
    /\ ClaimAccepted(native_fee)
    /\ lamports[user] >= lz_fee + fee
    /\ EndpointSend(user, ClaimRewardSolana, claim_data[user], fee)
    /\ CloseClaim(user)
    /\ lamports' = [Charge(lamports, user, fee) EXCEPT ![user] = @ + ClaimRent]
    /\ UNCHANGED <<adminVars, submitted, inboundVars, withdrawn, lz_fee>>

-----------------------------------------------------------------------------
(* Receiving.                                                              *)

\* The last eight bytes of the amount word.
MutFirstBytes(amount) == amount \div U64
get_usdc_amount(amount) == amount % U64

\* The constraints lz_receive puts on the accounts it is given.
AccountsMatch(packet, accounts) ==
    /\ accounts.peer_eid = packet.src_eid
    /\ peer_config[accounts.peer_eid] = packet.sender
    /\ accounts.mint = UsdcMint
    /\ accounts.receiver = packet.receiver

\* The endpoint's clear: only a verified packet, and never again.
MutNotCleared(packet) ==
    packet \in verified /\ cleared' = cleared \cup {packet} /\ UNCHANGED verified
Clear(packet) ==
    /\ packet \in verified
    /\ verified' = verified \ {packet}
    /\ cleared' = cleared \cup {packet}

\* The token program's transfer out of the vault.
MutOverdraft(amount) == TRUE
VaultCovers(amount) == usdc[ProxyKey] >= amount
Transfer(receiver, amount) ==
    usdc' = [usdc EXCEPT ![ProxyKey] = @ - amount, ![receiver] = @ + amount]

\* lz_receive, called by anyone with any accounts for any packet.
LzReceive(packet, accounts) ==
    LET usdc_amount == get_usdc_amount(packet.amount) IN
    /\ Running
    /\ AccountsMatch(packet, accounts)
    /\ Clear(packet)
    /\ check_ledger_payload_type(from_u8(packet.payload_type))
    /\ check_ledger_token_type(token_from_u8(packet.token))
    /\ VaultCovers(usdc_amount)
    /\ Transfer(accounts.receiver, usdc_amount)
    /\ UNCHANGED <<adminVars, claimVars, outboundVars, nativeVars, lz_fee,
                   topups>>

\* lz_receive_types: the accounts the executor is told to pass.
MutMintOfList(packet) ==
    [peer_eid |-> OrderlyEid, mint |-> account_list, receiver |-> packet.receiver]
lz_receive_types(packet) ==
    [peer_eid |-> OrderlyEid, mint |-> UsdcMint, receiver |-> packet.receiver]

\* The executor asks for the accounts, which needs the account list to exist,
\* and calls lz_receive with them.
Execute(packet) ==
    /\ account_list # NoAccount
    /\ LzReceive(packet, lz_receive_types(packet))

-----------------------------------------------------------------------------
(* The endpoint and the vault's funding, outside the program.              *)

\* The endpoint verifies a packet; each path and nonce is verified once.
Verify(packet) ==
    /\ packet \notin verified \cup cleared
    /\ verified' = verified \cup {packet}
    /\ UNCHANGED <<adminVars, claimVars, outboundVars, nativeVars, lz_fee,
                   cleared, usdc, topups>>

LzFeeChange(fee) ==
    /\ lz_fee' = fee
    /\ UNCHANGED <<adminVars, claimVars, outboundVars, inboundVars, nativeVars>>

FundVault ==
    /\ topups < MaxTopUps
    /\ topups' = topups + 1
    /\ usdc' = [usdc EXCEPT ![ProxyKey] = @ + TopUp]
    /\ UNCHANGED <<adminVars, claimVars, outboundVars, nativeVars, lz_fee,
                   verified, cleared>>

AdminNext ==
    \/ \E a \in Admins : InitProxy(a)
    \/ \E s \in Admins :
         \/ \E order, usdc_fee \in BackwardFees :
              SetBackwardFee(s, order, usdc_fee)
         \/ \E paused \in BOOLEAN : SetPause(s, paused)
         \/ \E mint \in Mints : SetAccountList(s, mint)
         \/ \E eid \in Eids, address \in Peer :
              SetPeerAddress(s, eid, address)
         \/ \E eid \in Eids : SetPeerOther(s, eid)
         \/ \E a \in Admins : SetDelegate(s, a)
         \/ \E a \in Admins : TransferAdmin(s, a)
         \/ \E collector \in Accounts, amount \in Withdrawals :
              WithdrawFee(s, collector, amount)

UserNext ==
    \E u \in Users :
      \/ \E code \in Codes, native_fee \in FeeOffers :
           SendRequest(u, code, native_fee)
      \/ \E id \in DistributionIds, amount \in Amounts, proof \in Proofs :
           SubmitProof(u, id, amount, proof)
      \/ \E native_fee \in FeeOffers : SendClaim(u, native_fee)

ReceiveNext ==
    \/ \E packet \in Packets : Verify(packet)
    \/ \E packet \in Packets, accounts \in ReceiveAccounts :
         LzReceive(packet, accounts)
    \/ \E fee \in LzFees : LzFeeChange(fee)
    \/ FundVault

Next == AdminNext \/ UserNext \/ ReceiveNext

Spec == Init /\ [][Next]_vars

-----------------------------------------------------------------------------
(* Properties.                                                             *)

\* withdraw_fee never takes the proxy_config account below its rent
\* exemption, whatever fees came in and went out before: below it, the
\* account that holds the whole configuration could be reclaimed.
RentFloor == proxy_config # NoAccount => lamports[ProxyKey] >= RentMinimum

\* Every backward fee charged for a message that was sent is either still in
\* proxy_config or was withdrawn: no send goes uncollected, and
\* withdraw_fee reaches nothing but collected fees.
RevenueLedger ==
    proxy_config # NoAccount =>
      lamports[ProxyKey] + withdrawn
        = RentMinimum + SumFunction([m \in outbox |-> m.backward_fee])

\* Both: the fees are all there, and no more than they can be taken.
RevenueIsKept == RentFloor /\ RevenueLedger

\* The ledger's inductive form: messages are told apart by their nonce, so that
\* a new one always adds its fee, and nothing is charged before init_proxy.
RevenueInv ==
    /\ IsFiniteSet(outbox)
    /\ \A m \in outbox : m.nonce <= outbound_nonce
    /\ proxy_config = NoAccount => outbox = {} /\ withdrawn = 0
    /\ RevenueLedger

\* The backward message a request makes the ledger send, as the README's
\* payload table has it: an ORDER transfer or a USDC payment.
BackwardFeeDue(code) ==
    CASE code \in {WithdrawOrder, UnstakeOrderNow, ClaimVestingRequest,
                   ClaimRewardSolana}      -> backward_fee.order
      [] code = ClaimUsdcRevenue          -> backward_fee.usdc
      [] OTHER                            -> 0

RequestPaysItsWay(u, code, native_fee) ==
    SendRequest(u, code, native_fee) =>
      /\ lamports'[ProxyKey] - lamports[ProxyKey] = BackwardFeeDue(code)
      /\ lamports[u] - lamports'[u] <= native_fee
ClaimPaysItsWay(u, native_fee) ==
    SendClaim(u, native_fee) =>
      /\ lamports'[ProxyKey] - lamports[ProxyKey]
           = BackwardFeeDue(ClaimRewardSolana)
      /\ lamports[u] + ClaimRent - lamports'[u] <= native_fee

\* A send collects the fee of the backward message it will trigger, no more
\* and no less, and its sender's balance drops by no more than the
\* native_fee offered, even if the admin or the library changed its price
\* since the quote.
SendsPayTheirWay ==
    [][\A u \in Users, native_fee \in FeeOffers :
         /\ \A code \in Codes : RequestPaysItsWay(u, code, native_fee)
         /\ ClaimPaysItsWay(u, native_fee)]_vars

\* quote_request and quote_claim are exact: an offer is accepted if and only
\* if it is at least the quote of the moment, whatever the fees have become.
QuotesAreTight ==
    Operating =>
      \A native_fee \in FeeOffers :
        /\ \A code \in Codes : check_request_payload_type(from_u8(code)) =>
             (RequestAccepted(code, native_fee)
                <=> native_fee >= quote_request(code))
        /\ ClaimAccepted(native_fee) <=> native_fee >= quote_claim

\* A submitted proof is sent at most once: send_claim closes claim_data.
Claims == {m \in outbox : m.claim # NoAccount}
ProofSentAtMostOnce ==
    \A m, n \in Claims :
      m.sender = n.sender /\ m.claim.submission = n.claim.submission => m = n

\* Why it is so, the inductive form: the stored proof is the last one its
\* user submitted, computed from a leaf of the user's own; every claim sent
\* is older than the stored proof and of the same making.
OwnRoot(user, claim) ==
    \E proof \in Proofs :
      claim.root = process_proof(proof, Leaf(user, claim.amount))
ClaimInv ==
    /\ \A u \in Users : claim_data[u] # NoAccount =>
         /\ claim_data[u].submission = submitted[u]
         /\ OwnRoot(u, claim_data[u])
    /\ \A m \in Claims :
         /\ m.claim.submission <= submitted[m.sender]
         /\ claim_data[m.sender] # NoAccount =>
              m.claim.submission < claim_data[m.sender].submission
         /\ OwnRoot(m.sender, m.claim)
    /\ ProofSentAtMostOnce

\* A claim carries the proof its sender submitted last, never one that a
\* later submit_proof replaced.
ClaimsCarryTheLatestProof ==
    [][\A m \in Claims' \ Claims :
         m.claim.submission = submitted[m.sender]]_vars

\* The root of a claim was computed from a leaf of its sender and amount:
\* nobody can send another user's leaf as their own.
ClaimsBindTheirSender ==
    \A m \in Claims : OwnRoot(m.sender, m.claim)

\* While the program is paused nothing a user or the endpoint can do has an
\* effect: no message leaves, no proof is stored, no packet is paid or
\* cleared.
PauseFreezes ==
    [][proxy_config # NoAccount /\ proxy_config.paused =>
         /\ UNCHANGED <<claim_data, outbox, cleared>>
         /\ \A u \in Users : usdc'[u] = usdc[u]]_vars

\* A packet that was paid can never be paid again.
ClearedForGood == verified \cap cleared = {}

\* USDC leaves the vault only with one packet being cleared for good, and
\* in the amount that packet's receiver gains.
PaidPerPacket ==
    [][\A u \in Users : usdc'[u] # usdc[u] =>
         \E p \in verified \ cleared :
           /\ p.receiver = u
           /\ cleared' = cleared \cup {p}
           /\ p \notin verified'
           /\ usdc'[u] - usdc[u] = get_usdc_amount(p.amount)
           /\ usdc[ProxyKey] - usdc'[ProxyKey] = get_usdc_amount(p.amount)]_vars

\* The program keeps the promise of Settlement: a verified packet is a pending
\* payment, a cleared one is settled, and its receiver's balance of USDC is
\* what it was credited with, in whatever order packets arrive, however often
\* their delivery fails and whatever the admin changes in between.
packet_receiver(p) == p.receiver
packet_amount(p)   == get_usdc_amount(p.amount)

Payouts == INSTANCE Settlement WITH
    Payments <- Packets, Receivers <- Users,
    receiver <- packet_receiver, amount <- packet_amount,
    pending <- verified, settled <- cleared,
    credited <- [u \in Users |-> usdc[u]]

ImplementsSettlement == Payouts!Spec

-----------------------------------------------------------------------------
(* Liveness.  The executor, or anybody in its place, keeps retrying a      *)
(* verified packet; nothing obliges the admin or a user to act.            *)

FairSpec == Spec /\ \A packet \in Packets : WF_vars(Execute(packet))

\* The packets the ledger contract sends to the program.
LedgerPackets == {p \in Packets : /\ p.src_eid = OrderlyEid
                                  /\ p.payload_type = ClaimUsdcRevenueBackward
                                  /\ p.token = USDC}

\* The deployment is as setProxy.ts leaves it, and the vault has received
\* all it was going to.
SettledFor(packet) ==
    /\ Running
    /\ account_list # NoAccount
    /\ peer_config[OrderlyEid] = packet.sender
    /\ topups = MaxTopUps

\* Once the program stays up, configured and funded for what it owes, every
\* verified packet of the ledger is paid, in whatever order and after
\* whatever failed attempts.
LedgerPacketsArePaid ==
    \A p \in LedgerPackets :
      <>[]SettledFor(p) => [](p \in verified => <>(p \in cleared))

=============================================================================
