------------------------ MODULE OrderlyBridge_proofs ------------------------
(***************************************************************************)
(* Proofs about the Solana side of the bridge and the bridge as a whole.   *)
(*                                                                         *)
(* The first part is about SolanaProxy, for every set of users, admins and *)
(* packets and every fee, rent and bound that ProxyAssumption allows.  The *)
(* second is about OrderlyBridge, whose behaviours are SolanaProxy's, for  *)
(* every set of managers and messages that BridgeAssumption allows.        *)
(***************************************************************************)
EXTENDS OrderlyBridge, Sums

-----------------------------------------------------------------------------
(* PART ONE.  The program: its types.                                      *)

\* What the codec and the quote tables return is a payload type, a token
\* type, and a fee the admin set.
LEMMA CodecTypes ==
    /\ \A code \in Byte : from_u8(code) \in PayloadTypes
    /\ \A t \in PayloadTypes : get_token_type(t) \in TokenTypes
    /\ ClaimRewardSolana \in PayloadTypes
  BY DEF Byte, from_u8, PayloadTypes, get_token_type, TokenTypes, ClaimReward,
         ClaimRewardSolana, PLACEHOLDER, PLACEHOLDER_TOKEN

LEMMA FeeTypes ==
    ASSUME backward_fee \in BackwardFee
    PROVE  /\ backward_fee.order \in Nat
           /\ \A t : request_backward_fee(t) \in Nat
  BY ProxyAssumption DEF BackwardFee, request_backward_fee

\* A charge leaves every balance a natural number when the payer has enough.
LEMMA ChargeType ==
    ASSUME lamports \in [Accounts -> Nat], lz_fee \in Nat,
           NEW u \in Users, NEW fee \in Nat, lamports[u] >= lz_fee + fee
    PROVE  /\ Charge(lamports, u, fee) \in [Accounts -> Nat]
           /\ Charge(lamports, u, fee)[u] = lamports[u] - lz_fee - fee
           /\ Charge(lamports, u, fee)[ProxyKey] = lamports[ProxyKey] + fee
  BY ProxyAssumption DEF Charge, Accounts

\* The initial state is well typed, and every step keeps the types.
LEMMA InitTypeOK == Init => TypeOK
  BY ProxyAssumption DEF Init, TypeOK, Accounts

LEMMA AdminTypeOK == TypeOK /\ AdminNext => TypeOK'
  <1> SUFFICES ASSUME TypeOK, AdminNext PROVE TypeOK'
    OBVIOUS
  <1> USE ProxyAssumption DEF TypeOK, adminVars, claimVars, outboundVars,
                              inboundVars, nativeVars
  <1>1. ASSUME NEW a \in Admins, InitProxy(a) PROVE TypeOK'
    BY <1>1 DEF InitProxy, ProxyConfig, Accounts
  <1>2. ASSUME NEW s \in Admins, NEW order \in BackwardFees,
               NEW usdc_fee \in BackwardFees, SetBackwardFee(s, order, usdc_fee)
        PROVE TypeOK'
    BY <1>2 DEF SetBackwardFee, BackwardFee
  <1>3. ASSUME NEW s \in Admins, NEW flag \in BOOLEAN, SetPause(s, flag)
        PROVE TypeOK'
    BY <1>3 DEF SetPause, IsAdmin, ProxyConfig
  <1>4. ASSUME NEW s \in Admins, NEW mint \in Mints, SetAccountList(s, mint)
        PROVE TypeOK'
    BY <1>4 DEF SetAccountList
  <1>5. ASSUME NEW s \in Admins, NEW eid \in Eids, NEW address \in Peer,
               SetPeerAddress(s, eid, address)
        PROVE TypeOK'
    BY <1>5 DEF SetPeerAddress
  <1>6. ASSUME NEW s \in Admins, NEW eid \in Eids, SetPeerOther(s, eid)
        PROVE TypeOK'
    BY <1>6 DEF SetPeerOther, Peer
  <1>7. ASSUME NEW s \in Admins, NEW a \in Admins, SetDelegate(s, a)
        PROVE TypeOK'
    BY <1>7 DEF SetDelegate
  <1>8. ASSUME NEW s \in Admins, NEW a \in Admins, TransferAdmin(s, a)
        PROVE TypeOK'
    BY <1>8 DEF TransferAdmin, IsAdmin, ProxyConfig
  <1>9. ASSUME NEW s \in Admins, NEW collector \in Accounts,
               NEW amount \in Withdrawals, WithdrawFee(s, collector, amount)
        PROVE TypeOK'
    BY <1>9 DEF WithdrawFee, surplus_lamports, Accounts
  <1>10. QED
    BY <1>1, <1>2, <1>3, <1>4, <1>5, <1>6, <1>7, <1>8, <1>9 DEF AdminNext

LEMMA UserTypeOK == TypeOK /\ UserNext => TypeOK'
  <1> SUFFICES ASSUME TypeOK, UserNext PROVE TypeOK'
    OBVIOUS
  <1> USE ProxyAssumption DEF TypeOK, adminVars, claimVars, outboundVars,
                              inboundVars, nativeVars
  <1>1. ASSUME NEW u \in Users, NEW code \in Codes, NEW fee \in FeeOffers,
               SendRequest(u, code, fee)
        PROVE TypeOK'
    <2> DEFINE due == request_backward_fee(from_u8(code))
    <2>1. backward_fee \in BackwardFee /\ peer_config[OrderlyEid] \in Peer
      BY <1>1 DEF SendRequest, Operating
    <2>2. due \in Nat
      BY <2>1, FeeTypes
    <2>3. outbox' \subseteq Message /\ outbound_nonce' \in 0..MaxSends
      BY <1>1, <2>1, <2>2, CodecTypes DEF SendRequest, EndpointSend, Message
    <2>4. lamports' \in [Accounts -> Nat]
      BY <1>1, <2>2, ChargeType DEF SendRequest
    <2>5. QED
      BY <1>1, <2>3, <2>4 DEF SendRequest
  <1>2. ASSUME NEW u \in Users, NEW id \in DistributionIds,
               NEW amount \in Amounts, NEW proof \in Proofs,
               SubmitProof(u, id, amount, proof)
        PROVE TypeOK'
    <2>1. process_proof(proof, Leaf(u, amount)) \in Roots
      BY DEF process_proof, Leaf, Roots
    <2>2. claim_data' \in [Users -> ClaimData \cup {NoAccount}]
      BY <1>2, <2>1 DEF SubmitProof, StoreProof, ClaimData
    <2>3. lamports' \in [Accounts -> Nat]
      BY <1>2 DEF SubmitProof, Accounts
    <2>4. QED
      BY <1>2, <2>2, <2>3 DEF SubmitProof, StoreProof
  <1>3. ASSUME NEW u \in Users, NEW fee \in FeeOffers, SendClaim(u, fee)
        PROVE TypeOK'
    <2>1. backward_fee \in BackwardFee /\ peer_config[OrderlyEid] \in Peer
      BY <1>3 DEF SendClaim, Operating
    <2>2. backward_fee.order \in Nat
      BY <2>1, FeeTypes
    <2>3. claim_data[u] \in ClaimData
      BY <1>3 DEF SendClaim
    <2>4. outbox' \subseteq Message /\ outbound_nonce' \in 0..MaxSends
      BY <1>3, <2>1, <2>2, <2>3, CodecTypes DEF SendClaim, EndpointSend, Message
    <2>5. Charge(lamports, u, backward_fee.order) \in [Accounts -> Nat]
      BY <1>3, <2>2, ChargeType DEF SendClaim
    <2>6. lamports' \in [Accounts -> Nat]
      BY <1>3, <2>5 DEF SendClaim, Accounts
    <2>7. QED
      BY <1>3, <2>4, <2>6 DEF SendClaim, CloseClaim
  <1>4. QED
    BY <1>1, <1>2, <1>3 DEF UserNext

LEMMA ReceiveTypeOK == TypeOK /\ ReceiveNext => TypeOK'
  <1> SUFFICES ASSUME TypeOK, ReceiveNext PROVE TypeOK'
    OBVIOUS
  <1> USE ProxyAssumption DEF TypeOK, adminVars, claimVars, outboundVars,
                              inboundVars, nativeVars
  <1>1. ASSUME NEW p \in Packets, Verify(p) PROVE TypeOK'
    BY <1>1 DEF Verify
  <1>2. ASSUME NEW p \in Packets, NEW accounts \in ReceiveAccounts,
               LzReceive(p, accounts)
        PROVE TypeOK'
    <2>1. p.receiver \in Users /\ get_usdc_amount(p.amount) \in Nat
      BY DEF Packet, get_usdc_amount
    <2>2. usdc' \in [Accounts -> Nat]
      BY <1>2, <2>1 DEF LzReceive, AccountsMatch, VaultCovers, Transfer, Accounts
    <2>3. QED
      BY <1>2, <2>2 DEF LzReceive, Clear
  <1>3. ASSUME NEW fee \in LzFees, LzFeeChange(fee) PROVE TypeOK'
    BY <1>3 DEF LzFeeChange
  <1>4. CASE FundVault
    BY <1>4 DEF FundVault, Accounts
  <1>5. QED
    BY <1>1, <1>2, <1>3, <1>4 DEF ReceiveNext

LEMMA TypeOKStep == TypeOK /\ [Next]_vars => TypeOK'
  <1>1. TypeOK /\ UNCHANGED vars => TypeOK'
    BY DEF TypeOK, vars, adminVars, claimVars, outboundVars, inboundVars,
           nativeVars
  <1>2. QED
    BY <1>1, AdminTypeOK, UserTypeOK, ReceiveTypeOK DEF Next

\* Type correctness: in particular no balance ever goes negative.
THEOREM TypeCorrect == Spec => []TypeOK
  BY InitTypeOK, TypeOKStep, PTL DEF Spec

-----------------------------------------------------------------------------
\* A charge moves exactly the backward fee into proxy_config: what the rest
\* of the file needs of a send.
LEMMA RequestCharges ==
    ASSUME TypeOK, NEW u \in Users, NEW code \in Codes, NEW f \in FeeOffers,
           SendRequest(u, code, f)
    PROVE  LET fee == request_backward_fee(from_u8(code)) IN
           /\ fee \in Nat /\ fee + lz_fee <= f
           /\ lamports'[u] = lamports[u] - lz_fee - fee
           /\ lamports'[ProxyKey] = lamports[ProxyKey] + fee
  <1> DEFINE fee == request_backward_fee(from_u8(code))
  <1>1. backward_fee \in BackwardFee
    BY DEF TypeOK, SendRequest, Operating
  <1>2. fee \in Nat /\ lz_fee \in Nat /\ f \in Nat
    BY <1>1, FeeTypes, ProxyAssumption DEF TypeOK
  <1>3. fee + lz_fee <= f
    BY <1>2 DEF SendRequest, RequestAccepted, EndpointAccepts
  <1>4. lamports' = Charge(lamports, u, fee) /\ lamports[u] >= lz_fee + fee
    BY DEF SendRequest
  <1>5. QED
    BY <1>2, <1>3, <1>4, ChargeType DEF TypeOK

LEMMA ClaimCharges ==
    ASSUME TypeOK, NEW u \in Users, NEW f \in FeeOffers, SendClaim(u, f)
    PROVE  LET fee == backward_fee.order IN
           /\ fee \in Nat /\ fee + lz_fee <= f
           /\ lamports'[u] = lamports[u] - lz_fee - fee + ClaimRent
           /\ lamports'[ProxyKey] = lamports[ProxyKey] + fee
  <1> DEFINE fee == backward_fee.order
             charged == Charge(lamports, u, fee)
  <1>1. backward_fee \in BackwardFee
    BY DEF TypeOK, SendClaim, Operating
  <1>2. fee \in Nat /\ lz_fee \in Nat /\ f \in Nat /\ ClaimRent \in Nat
    BY <1>1, FeeTypes, ProxyAssumption DEF TypeOK
  <1>3. fee + lz_fee <= f
    BY <1>2 DEF SendClaim, ClaimAccepted, EndpointAccepts
  <1>4. /\ lamports' = [charged EXCEPT ![u] = @ + ClaimRent]
        /\ lamports[u] >= lz_fee + fee
    BY DEF SendClaim
  <1>5. /\ charged \in [Accounts -> Nat]
        /\ charged[u] = lamports[u] - lz_fee - fee
        /\ charged[ProxyKey] = lamports[ProxyKey] + fee
    BY <1>2, <1>4, ChargeType DEF TypeOK
  <1>6. u \in Accounts /\ u # ProxyKey
    BY ProxyAssumption DEF Accounts
  <1>7. QED
    BY <1>2, <1>3, <1>4, <1>5, <1>6

\* RentFloor is inductive over well-typed states: the sends only add to
\* proxy_config, and withdraw_fee takes no more than the surplus.
LEMMA RentFloorStep == TypeOK /\ RentFloor /\ [Next]_vars => RentFloor'
  <1> SUFFICES ASSUME TypeOK, RentFloor, [Next]_vars PROVE RentFloor'
    OBVIOUS
  <1> USE ProxyAssumption DEF RentFloor
  <1>1. CASE AdminNext
    <2>1. ASSUME NEW a \in Admins, InitProxy(a) PROVE RentFloor'
      BY <2>1 DEF InitProxy, TypeOK, Accounts
    <2>2. ASSUME NEW s \in Admins, NEW c \in Accounts,
                 NEW amount \in Withdrawals, WithdrawFee(s, c, amount)
          PROVE RentFloor'
      BY <2>2 DEF WithdrawFee, surplus_lamports, TypeOK, Accounts, adminVars
    <2>3. ASSUME NEW s \in Admins,
                 \/ \E order, usdc_fee \in BackwardFees :
                      SetBackwardFee(s, order, usdc_fee)
                 \/ \E flag \in BOOLEAN : SetPause(s, flag)
                 \/ \E mint \in Mints : SetAccountList(s, mint)
                 \/ \E eid \in Eids, address \in Peer :
                      SetPeerAddress(s, eid, address)
                 \/ \E eid \in Eids : SetPeerOther(s, eid)
                 \/ \E a \in Admins : SetDelegate(s, a)
                 \/ \E a \in Admins : TransferAdmin(s, a)
          PROVE RentFloor'
      BY <2>3 DEF SetBackwardFee, SetPause, SetAccountList, SetPeerAddress,
                  SetPeerOther, SetDelegate, TransferAdmin, IsAdmin, nativeVars
    <2>4. QED
      BY <1>1, <2>1, <2>2, <2>3 DEF AdminNext
  <1>2. CASE UserNext
    <2>1. ASSUME NEW u \in Users, NEW code \in Codes, NEW f \in FeeOffers,
                 SendRequest(u, code, f)
          PROVE RentFloor'
      <3>1. lamports[ProxyKey] \in Nat
        BY DEF TypeOK, Accounts
      <3>2. PICK fee \in Nat : lamports'[ProxyKey] = lamports[ProxyKey] + fee
        BY <2>1, RequestCharges
      <3>3. proxy_config' = proxy_config
        BY <2>1 DEF SendRequest, adminVars
      <3>4. QED
        BY <3>1, <3>2, <3>3
    <2>2. ASSUME NEW u \in Users, NEW id \in DistributionIds,
                 NEW amount \in Amounts, NEW proof \in Proofs,
                 SubmitProof(u, id, amount, proof)
          PROVE RentFloor'
      BY <2>2 DEF SubmitProof, TypeOK, Accounts, adminVars
    <2>3. ASSUME NEW u \in Users, NEW f \in FeeOffers, SendClaim(u, f)
          PROVE RentFloor'
      <3>1. lamports[ProxyKey] \in Nat
        BY DEF TypeOK, Accounts
      <3>2. PICK fee \in Nat : lamports'[ProxyKey] = lamports[ProxyKey] + fee
        BY <2>3, ClaimCharges
      <3>3. proxy_config' = proxy_config
        BY <2>3 DEF SendClaim, adminVars
      <3>4. QED
        BY <3>1, <3>2, <3>3
    <2>4. QED
      BY <1>2, <2>1, <2>2, <2>3 DEF UserNext
  <1>3. CASE ReceiveNext
    BY <1>3 DEF ReceiveNext, Verify, LzReceive, LzFeeChange, FundVault,
                adminVars, nativeVars
  <1>4. CASE UNCHANGED vars
    BY <1>4 DEF vars, adminVars, nativeVars
  <1>5. QED
    BY <1>1, <1>2, <1>3, <1>4 DEF Next

\* The account that holds the configuration stays rent exempt forever.
THEOREM RentFloorHolds == Spec => []RentFloor
  <1>1. Init => RentFloor
    BY DEF Init, RentFloor
  <1>2. QED
    BY <1>1, RentFloorStep, TypeCorrect, PTL DEF Spec

-----------------------------------------------------------------------------
(* Messages.                                                                *)

\* What a send leaves behind is one message of its sender with its claim.
LEMMA SendAddsOne ==
    ASSUME NEW u, NEW t, NEW claim, NEW fee, EndpointSend(u, t, claim, fee)
    PROVE  \E new : /\ outbox' = outbox \cup {new}
                    /\ new.sender = u /\ new.claim = claim
                    /\ new.nonce = outbound_nonce + 1
                    /\ new.backward_fee = fee
  <1> DEFINE m == [nonce |-> outbound_nonce + 1,
                   receiver |-> peer_config[OrderlyEid], sender |-> u,
                   payload_type |-> t, token |-> get_token_type(t),
                   claim |-> claim, backward_fee |-> fee]
  <1>1. outbox' = outbox \cup {m}
    BY DEF EndpointSend
  <1>2. /\ m.sender = u /\ m.claim = claim
        /\ m.nonce = outbound_nonce + 1 /\ m.backward_fee = fee
    OBVIOUS
  <1> HIDE DEF m
  <1>3. QED
    BY <1>1, <1>2

-----------------------------------------------------------------------------
(* Where the backward fees are.                                            *)

\* What the messages sent were charged.
Charged == SumFunction([m \in outbox |-> m.backward_fee])

LEMMA ChargedType ==
    ASSUME TypeOK, IsFiniteSet(outbox)
    PROVE  Charged \in Int
  <1> DEFINE fees == [m \in outbox |-> m.backward_fee]
  <1>1. DOMAIN fees = outbox /\ \A m \in outbox : fees[m] \in Int
    BY DEF TypeOK, Message
  <1> HIDE DEF fees
  <1>2. SumFunction(fees) \in Int
    BY <1>1, SumType DEF SumFunction
  <1>3. QED
    BY <1>2 DEF Charged, fees

\* A message the endpoint accepted was not there, and adds its fee.
LEMMA ChargedGrows ==
    ASSUME TypeOK, TypeOK', RevenueInv, NEW new,
           outbox' = outbox \cup {new}, new.nonce = outbound_nonce + 1
    PROVE  /\ IsFiniteSet(outbox')
           /\ Charged' = Charged + new.backward_fee
  <1> DEFINE fees  == [m \in outbox |-> m.backward_fee]
             later == [m \in outbox' |-> m.backward_fee]
  <1>1. outbound_nonce \in Nat /\ \A m \in outbox : m.nonce <= outbound_nonce
    BY ProxyAssumption DEF TypeOK, RevenueInv
  <1>2. new \notin outbox
    BY <1>1
  <1>3. IsFiniteSet(outbox)
    BY DEF RevenueInv
  <1>4. \A m \in outbox' : m.backward_fee \in Int
    BY DEF TypeOK, Message
  <1>5. /\ DOMAIN fees = outbox /\ DOMAIN later = outbox \cup {new}
        /\ \A m \in outbox : fees[m] = later[m]
        /\ \A m \in outbox \cup {new} : later[m] \in Int
        /\ later[new] = new.backward_fee
    BY <1>4
  <1> HIDE DEF fees, later
  <1>6. SumFunction(later) = SumFunction(fees) + new.backward_fee
    BY <1>2, <1>3, <1>5, SumGrows
  <1>7. QED
    BY <1>3, <1>6, FS_AddElement DEF Charged, fees, later

\* A send keeps the account of revenue: its message adds what it charged.
LEMMA SendKeepsRevenue ==
    ASSUME TypeOK, TypeOK', RevenueInv, NEW u, NEW t, NEW claim, NEW fee \in Nat,
           Operating, EndpointSend(u, t, claim, fee),
           lamports'[ProxyKey] = lamports[ProxyKey] + fee,
           UNCHANGED <<proxy_config, withdrawn>>
    PROVE  RevenueInv'
  <1>1. PICK new : /\ outbox' = outbox \cup {new}
                   /\ new.nonce = outbound_nonce + 1
                   /\ new.backward_fee = fee
    BY SendAddsOne
  <1>2. IsFiniteSet(outbox') /\ Charged' = Charged + fee
    BY <1>1, ChargedGrows
  <1>3. Charged \in Int
    BY ChargedType DEF RevenueInv
  <1>4. \A m \in outbox' : m.nonce <= outbound_nonce'
    <2>1. outbound_nonce \in Nat /\ \A m \in outbox : m.nonce <= outbound_nonce
      BY ProxyAssumption DEF TypeOK, RevenueInv
    <2>2. \A m \in outbox : m.nonce \in Nat
      BY ProxyAssumption DEF TypeOK, Message
    <2>3. outbound_nonce' = outbound_nonce + 1
      BY DEF EndpointSend
    <2>4. QED
      BY <1>1, <2>1, <2>2, <2>3
  <1>5. proxy_config # NoAccount /\ proxy_config' # NoAccount
    BY DEF Operating, Running
  <1>6. lamports'[ProxyKey] + withdrawn' = RentMinimum + Charged'
    <2>1. lamports[ProxyKey] + withdrawn = RentMinimum + Charged
      BY <1>5 DEF RevenueInv, RevenueLedger, Charged
    <2>2. lamports[ProxyKey] \in Nat /\ withdrawn \in Nat /\ RentMinimum \in Nat
      BY ProxyAssumption DEF TypeOK, Accounts
    <2>3. QED
      BY <1>2, <1>3, <2>1, <2>2
  <1>7. QED
    BY <1>2, <1>4, <1>5, <1>6 DEF RevenueInv, RevenueLedger, Charged

\* What neither sends nor moves lamports of proxy_config keeps it too.
LEMMA RevenueKept ==
    ASSUME RevenueInv, UNCHANGED <<outboundVars, withdrawn>>,
           proxy_config' = NoAccount => proxy_config = NoAccount,
           proxy_config' # NoAccount =>
             proxy_config # NoAccount /\ lamports'[ProxyKey] = lamports[ProxyKey]
    PROVE  RevenueInv'
  BY DEF RevenueInv, RevenueLedger, outboundVars

LEMMA RevenueStep == TypeOK /\ TypeOK' /\ RevenueInv /\ [Next]_vars => RevenueInv'
  <1> SUFFICES ASSUME TypeOK, TypeOK', RevenueInv, [Next]_vars PROVE RevenueInv'
    OBVIOUS
  <1>1. CASE AdminNext
    <2>1. ASSUME NEW a \in Admins, InitProxy(a) PROVE RevenueInv'
      <3>1. /\ outbox' = {} /\ withdrawn' = 0 /\ outbox = {}
            /\ outbound_nonce' = outbound_nonce
        BY <2>1 DEF InitProxy, RevenueInv, outboundVars
      <3>2. lamports'[ProxyKey] = RentMinimum /\ RentMinimum \in Nat
        BY <2>1, ProxyAssumption DEF InitProxy, TypeOK, Accounts
      <3>3. SumFunction([m \in {} |-> m.backward_fee]) = 0
        <4> DEFINE none == [m \in {} |-> m.backward_fee]
        <4>1. DOMAIN none = {}
          OBVIOUS
        <4> HIDE DEF none
        <4>2. SumFunction(none) = 0
          BY <4>1, SumEmpty DEF SumFunction
        <4>3. QED
          BY <4>2 DEF none
      <3>4. RevenueLedger'
        BY <3>1, <3>2, <3>3 DEF RevenueLedger
      <3>5. proxy_config' # NoAccount
        <4>1. proxy_config' \in ProxyConfig
          BY <2>1 DEF InitProxy, ProxyConfig
        <4>2. QED
          BY <4>1, ProxyAssumption
      <3>6. QED
        BY <3>1, <3>4, <3>5, FS_EmptySet DEF RevenueInv
    <2>2. ASSUME NEW s \in Admins, NEW c \in Accounts,
                 NEW amount \in Withdrawals, WithdrawFee(s, c, amount)
          PROVE RevenueInv'
      <3>1. /\ proxy_config # NoAccount /\ proxy_config' = proxy_config
            /\ outbox' = outbox /\ outbound_nonce' = outbound_nonce
        BY <2>2 DEF WithdrawFee, IsAdmin, adminVars, outboundVars
      <3>2. /\ lamports \in [Accounts -> Nat] /\ withdrawn \in Nat
            /\ amount \in Nat /\ ProxyKey \in Accounts
        BY ProxyAssumption DEF TypeOK, Accounts
      <3>3. lamports'[ProxyKey] + withdrawn' = lamports[ProxyKey] + withdrawn
        <4>1. CASE c = ProxyKey
          BY <2>2, <3>2, <4>1 DEF WithdrawFee
        <4>2. CASE c # ProxyKey
          BY <2>2, <3>2, <4>2 DEF WithdrawFee
        <4>3. QED
          BY <4>1, <4>2
      <3>4. QED
        BY <3>1, <3>3 DEF RevenueInv, RevenueLedger
    <2>3. ASSUME NEW s \in Admins,
                 \/ \E order, usdc_fee \in BackwardFees :
                      SetBackwardFee(s, order, usdc_fee)
                 \/ \E flag \in BOOLEAN : SetPause(s, flag)
                 \/ \E mint \in Mints : SetAccountList(s, mint)
                 \/ \E eid \in Eids, address \in Peer :
                      SetPeerAddress(s, eid, address)
                 \/ \E eid \in Eids : SetPeerOther(s, eid)
                 \/ \E a \in Admins : SetDelegate(s, a)
                 \/ \E a \in Admins : TransferAdmin(s, a)
          PROVE RevenueInv'
      <3>1. /\ UNCHANGED <<outboundVars, nativeVars>>
            /\ proxy_config # NoAccount
        BY <2>3 DEF SetBackwardFee, SetPause, SetAccountList, SetPeerAddress,
                    SetPeerOther, SetDelegate, TransferAdmin, IsAdmin
      <3>2. proxy_config' # NoAccount
        <4>1. proxy_config \in ProxyConfig
          BY <3>1 DEF TypeOK
        <4>2. proxy_config' \in ProxyConfig
          BY <2>3, <4>1 DEF SetBackwardFee, SetPause, SetAccountList,
                      SetPeerAddress, SetPeerOther, SetDelegate, TransferAdmin,
                      ProxyConfig
        <4>3. QED
          BY <4>2, ProxyAssumption
      <3>3. QED
        BY <3>1, <3>2, RevenueKept DEF nativeVars
    <2>4. QED
      BY <1>1, <2>1, <2>2, <2>3 DEF AdminNext
  <1>2. CASE UserNext
    <2>1. ASSUME NEW u \in Users, NEW code \in Codes, NEW f \in FeeOffers,
                 SendRequest(u, code, f)
          PROVE RevenueInv'
      <3> DEFINE t   == from_u8(code)
                 fee == request_backward_fee(t)
      <3>1. fee \in Nat /\ lamports'[ProxyKey] = lamports[ProxyKey] + fee
        BY <2>1, RequestCharges
      <3>2. /\ Operating /\ EndpointSend(u, t, NoAccount, fee)
            /\ UNCHANGED <<proxy_config, withdrawn>>
        BY <2>1 DEF SendRequest, adminVars
      <3> HIDE DEF t, fee
      <3>3. QED
        BY <3>1, <3>2, SendKeepsRevenue
    <2>2. ASSUME NEW u \in Users, NEW id \in DistributionIds,
                 NEW amount \in Amounts, NEW proof \in Proofs,
                 SubmitProof(u, id, amount, proof)
          PROVE RevenueInv'
      <3>1. UNCHANGED <<proxy_config, outboundVars, withdrawn>>
        BY <2>2 DEF SubmitProof, adminVars
      <3>2. proxy_config # NoAccount /\ u # ProxyKey
        BY <2>2, ProxyAssumption DEF SubmitProof, Running
      <3>3. lamports'[ProxyKey] = lamports[ProxyKey]
        BY <2>2, <3>2 DEF SubmitProof, TypeOK, Accounts
      <3>4. QED
        BY <3>1, <3>2, <3>3, RevenueKept
    <2>3. ASSUME NEW u \in Users, NEW f \in FeeOffers, SendClaim(u, f)
          PROVE RevenueInv'
      <3> DEFINE fee == backward_fee.order
      <3>1. fee \in Nat /\ lamports'[ProxyKey] = lamports[ProxyKey] + fee
        BY <2>3, ClaimCharges
      <3>2. /\ Operating
            /\ EndpointSend(u, ClaimRewardSolana, claim_data[u], fee)
            /\ UNCHANGED <<proxy_config, withdrawn>>
        BY <2>3 DEF SendClaim, adminVars
      <3> HIDE DEF fee
      <3>3. QED
        BY <3>1, <3>2, SendKeepsRevenue
    <2>4. QED
      BY <1>2, <2>1, <2>2, <2>3 DEF UserNext
  <1>3. CASE ReceiveNext
    <2>1. UNCHANGED <<adminVars, outboundVars, nativeVars>>
      BY <1>3 DEF ReceiveNext, Verify, LzReceive, LzFeeChange, FundVault
    <2>2. QED
      BY <2>1, RevenueKept DEF adminVars, nativeVars
  <1>4. CASE UNCHANGED vars
    BY <1>4, RevenueKept DEF vars, adminVars, nativeVars
  <1>5. QED
    BY <1>1, <1>2, <1>3, <1>4 DEF Next

\* For any number of users, fees and messages, every lamport of backward fee
\* that a sent message was charged is in proxy_config or was withdrawn, and
\* withdrawals stop at the rent.
THEOREM RevenueIsAccounted == Spec => []RevenueIsKept
  <1>1. Init => RevenueInv
    BY FS_EmptySet DEF Init, RevenueInv, RevenueLedger
  <1>2. RevenueInv /\ RentFloor => RevenueIsKept
    BY DEF RevenueInv, RevenueIsKept
  <1>3. QED
    BY <1>1, <1>2, RevenueStep, RentFloorHolds, TypeCorrect, PTL DEF Spec

-----------------------------------------------------------------------------
(* Claims.                                                                 *)

\* submit_proof replaces the stored proof by a newer one.
LEMMA SubmitProofClaimInv ==
    ASSUME TypeOK, ClaimInv, NEW u \in Users, NEW id \in DistributionIds,
           NEW amount \in Amounts, NEW proof \in Proofs,
           SubmitProof(u, id, amount, proof)
    PROVE  ClaimInv'
  <1> DEFINE data == [distribution_id |-> id, amount |-> amount,
                      root |-> process_proof(proof, Leaf(u, amount)),
                      submission |-> submitted[u] + 1]
  <1>1. /\ claim_data' = [claim_data EXCEPT ![u] = data]
        /\ submitted' = [submitted EXCEPT ![u] = submitted[u] + 1]
        /\ outbox' = outbox
    BY DEF SubmitProof, StoreProof, outboundVars
  <1>2. /\ claim_data \in [Users -> ClaimData \cup {NoAccount}]
        /\ submitted \in [Users -> Nat]
        /\ \A m \in outbox : m.sender \in Users
        /\ \A m \in Claims : m.claim.submission \in Nat
    BY ProxyAssumption DEF TypeOK, Message, Claims, ClaimData
  <1>3. Claims' = Claims
    BY <1>1 DEF Claims
  <1>4. OwnRoot(u, data)
    BY DEF OwnRoot
  <1>5. ASSUME NEW v \in Users, claim_data'[v] # NoAccount
        PROVE  /\ claim_data'[v].submission = submitted'[v]
               /\ OwnRoot(v, claim_data'[v])
    <2>1. CASE v = u
      BY <2>1, <1>1, <1>2, <1>4
    <2>2. CASE v # u
      BY <2>2, <1>1, <1>2, <1>5 DEF ClaimInv
    <2>3. QED
      BY <2>1, <2>2
  <1>6. ASSUME NEW m \in Claims
        PROVE  /\ m.claim.submission <= submitted'[m.sender]
               /\ claim_data'[m.sender] # NoAccount =>
                    m.claim.submission < claim_data'[m.sender].submission
    <2>1. m.sender \in Users /\ m.claim.submission <= submitted[m.sender]
      BY <1>2 DEF ClaimInv, Claims
    <2>2. CASE m.sender = u
      BY <2>1, <2>2, <1>1, <1>2
    <2>3. CASE m.sender # u
      BY <2>1, <2>3, <1>1, <1>2 DEF ClaimInv
    <2>4. QED
      BY <2>2, <2>3
  <1>7. ProofSentAtMostOnce'
    BY <1>3 DEF ClaimInv, ProofSentAtMostOnce
  <1>8. QED
    BY <1>3, <1>5, <1>6, <1>7 DEF ClaimInv, OwnRoot

\* send_claim moves the stored proof into the outbox, where every proof of
\* the same user is older.
LEMMA SendClaimClaimInv ==
    ASSUME TypeOK, ClaimInv, NEW u \in Users, NEW f \in FeeOffers,
           SendClaim(u, f)
    PROVE  ClaimInv'
  <1>1. /\ claim_data' = [claim_data EXCEPT ![u] = NoAccount]
        /\ submitted' = submitted
        /\ claim_data[u] # NoAccount
    BY DEF SendClaim, CloseClaim
  <1>2. PICK new : /\ outbox' = outbox \cup {new}
                   /\ new.sender = u /\ new.claim = claim_data[u]
    BY SendAddsOne DEF SendClaim
  <1>3. /\ claim_data \in [Users -> ClaimData \cup {NoAccount}]
        /\ submitted \in [Users -> Nat]
        /\ \A m \in outbox : m.sender \in Users
        /\ \A m \in Claims : m.claim.submission \in Nat
        /\ claim_data[u].submission \in Nat
    BY <1>1, ProxyAssumption DEF TypeOK, Message, Claims, ClaimData
  <1>4. Claims' = Claims \cup {new}
    BY <1>1, <1>2 DEF Claims
  <1>5. /\ claim_data[u].submission = submitted[u]
        /\ OwnRoot(u, claim_data[u])
    BY <1>1 DEF ClaimInv
  <1>6. ASSUME NEW m \in Claims, m.sender = u
        PROVE  m.claim.submission < new.claim.submission
    BY <1>1, <1>2, <1>6 DEF ClaimInv
  <1>7. ASSUME NEW m \in Claims'
        PROVE  /\ m.claim.submission <= submitted'[m.sender]
               /\ claim_data'[m.sender] # NoAccount =>
                    m.claim.submission < claim_data'[m.sender].submission
               /\ OwnRoot(m.sender, m.claim)
    <2>1. CASE m = new
      BY <2>1, <1>1, <1>2, <1>3, <1>5
    <2>2. CASE m \in Claims
      <3>1. m.sender \in Users
        BY <2>2, <1>3 DEF Claims
      <3>2. QED
        BY <2>2, <3>1, <1>1, <1>3 DEF ClaimInv
    <2>3. QED
      BY <2>1, <2>2, <1>4
  <1>8. ProofSentAtMostOnce'
    <2> SUFFICES ASSUME NEW m \in Claims', NEW n \in Claims',
                        m.sender = n.sender,
                        m.claim.submission = n.claim.submission
                 PROVE  m = n
      BY DEF ProofSentAtMostOnce
    <2>1. CASE m \in Claims /\ n \in Claims
      BY <2>1 DEF ClaimInv, ProofSentAtMostOnce
    <2>2. CASE m = new /\ n \in Claims
      BY <2>2, <1>2, <1>3, <1>6
    <2>3. CASE m \in Claims /\ n = new
      BY <2>3, <1>2, <1>3, <1>6
    <2>4. QED
      BY <2>1, <2>2, <2>3, <1>4
  <1>9. \A v \in Users : claim_data'[v] # NoAccount =>
          claim_data'[v].submission = submitted'[v] /\ OwnRoot(v, claim_data'[v])
    BY <1>1, <1>3 DEF ClaimInv
  <1>10. QED
    BY <1>7, <1>8, <1>9 DEF ClaimInv, OwnRoot

\* No other instruction touches a stored proof or sends one.
LEMMA OthersLeaveClaims ==
    ASSUME TypeOK, [Next]_vars,
           ~ \E u \in Users :
               \/ \E id \in DistributionIds, amount \in Amounts, proof \in Proofs :
                    SubmitProof(u, id, amount, proof)
               \/ \E f \in FeeOffers : SendClaim(u, f)
    PROVE  UNCHANGED <<claim_data, submitted, Claims>>
  <1>1. CASE AdminNext
    BY <1>1 DEF AdminNext, InitProxy, SetBackwardFee, SetPause, SetAccountList,
                SetPeerAddress, SetPeerOther, SetDelegate, TransferAdmin,
                WithdrawFee, Claims, claimVars, outboundVars
  <1>2. CASE UserNext
    <2>1. PICK u \in Users, code \in Codes, f \in FeeOffers :
                 SendRequest(u, code, f)
      BY <1>2 DEF UserNext
    <2>2. UNCHANGED <<claim_data, submitted>>
      BY <2>1 DEF SendRequest, claimVars
    <2>3. PICK new : outbox' = outbox \cup {new} /\ new.claim = NoAccount
      BY <2>1, SendAddsOne DEF SendRequest
    <2>4. QED
      BY <2>2, <2>3 DEF Claims
  <1>3. CASE ReceiveNext
    BY <1>3 DEF ReceiveNext, Verify, LzReceive, LzFeeChange, FundVault, Claims,
                claimVars, outboundVars
  <1>4. CASE UNCHANGED vars
    BY <1>4 DEF vars, Claims, claimVars, outboundVars
  <1>5. QED
    BY <1>1, <1>2, <1>3, <1>4 DEF Next

LEMMA ClaimInvStep == TypeOK /\ ClaimInv /\ [Next]_vars => ClaimInv'
  <1> SUFFICES ASSUME TypeOK, ClaimInv, [Next]_vars PROVE ClaimInv'
    OBVIOUS
  <1>1. CASE \E u \in Users :
               \/ \E id \in DistributionIds, amount \in Amounts, proof \in Proofs :
                    SubmitProof(u, id, amount, proof)
               \/ \E f \in FeeOffers : SendClaim(u, f)
    BY <1>1, SubmitProofClaimInv, SendClaimClaimInv
  <1>2. CASE UNCHANGED <<claim_data, submitted, Claims>>
    BY <1>2 DEF ClaimInv, ProofSentAtMostOnce, OwnRoot
  <1>3. QED
    BY <1>1, <1>2, OthersLeaveClaims

\* The stored proof is its user's last and own, and newer than every claim sent.
THEOREM ClaimInvariant == Spec => []ClaimInv
  <1>1. Init => ClaimInv
    BY DEF Init, ClaimInv, Claims, ProofSentAtMostOnce
  <1>2. QED
    BY <1>1, ClaimInvStep, TypeCorrect, PTL DEF Spec

\* Every submitted proof reaches the ledger chain at most once.
THEOREM ProofsAreSentAtMostOnce == Spec => []ProofSentAtMostOnce
  <1>1. ClaimInv => ProofSentAtMostOnce
    BY DEF ClaimInv
  <1>2. QED
    BY <1>1, ClaimInvariant, PTL

\* Every claim was made from its sender's own leaf.
THEOREM ClaimsAreTheirSenders == Spec => []ClaimsBindTheirSender
  <1>1. ClaimInv => ClaimsBindTheirSender
    BY DEF ClaimInv, ClaimsBindTheirSender
  <1>2. QED
    BY <1>1, ClaimInvariant, PTL

\* No claim carries a proof that a later submission replaced.
THEOREM ClaimsAreTheLatest == Spec => ClaimsCarryTheLatestProof
  <1>1. TypeOK /\ ClaimInv /\ [Next]_vars =>
          [\A m \in Claims' \ Claims :
             m.claim.submission = submitted[m.sender]]_vars
    <2> SUFFICES ASSUME TypeOK, ClaimInv, [Next]_vars,
                        NEW m \in Claims' \ Claims
                 PROVE  m.claim.submission = submitted[m.sender]
      OBVIOUS
    <2>1. CASE \E u \in Users, f \in FeeOffers : SendClaim(u, f)
      <3>1. PICK u \in Users, f \in FeeOffers : SendClaim(u, f)
        BY <2>1
      <3>2. PICK new : /\ outbox' = outbox \cup {new}
                       /\ new.sender = u /\ new.claim = claim_data[u]
        BY <3>1, SendAddsOne DEF SendClaim
      <3>3. m = new /\ claim_data[u] # NoAccount
        BY <3>1, <3>2 DEF Claims, SendClaim
      <3>4. QED
        BY <3>2, <3>3 DEF ClaimInv
    <2>2. CASE \E u \in Users, id \in DistributionIds, amount \in Amounts,
                  proof \in Proofs : SubmitProof(u, id, amount, proof)
      BY <2>2 DEF SubmitProof, outboundVars, Claims
    <2>3. CASE UNCHANGED <<claim_data, submitted, Claims>>
      BY <2>3
    <2>4. QED
      BY <2>1, <2>2, <2>3, OthersLeaveClaims
  <1>2. QED
    BY <1>1, TypeCorrect, ClaimInvariant, PTL DEF Spec, ClaimsCarryTheLatestProof

-----------------------------------------------------------------------------
(* Payouts.                                                                *)

LEMMA ClearedForGoodStep == ClearedForGood /\ [Next]_vars => ClearedForGood'
  <1> SUFFICES ASSUME ClearedForGood, [Next]_vars PROVE ClearedForGood'
    OBVIOUS
  <1> USE DEF ClearedForGood, inboundVars
  <1>1. CASE AdminNext
    BY <1>1 DEF AdminNext, InitProxy, SetBackwardFee, SetPause, SetAccountList,
                SetPeerAddress, SetPeerOther, SetDelegate, TransferAdmin,
                WithdrawFee
  <1>2. CASE UserNext
    BY <1>2 DEF UserNext, SendRequest, SubmitProof, SendClaim
  <1>3. CASE ReceiveNext
    BY <1>3 DEF ReceiveNext, Verify, LzReceive, Clear, LzFeeChange, FundVault
  <1>4. CASE UNCHANGED vars
    BY <1>4 DEF vars
  <1>5. QED
    BY <1>1, <1>2, <1>3, <1>4 DEF Next

\* A packet that was paid is never verified again, so never paid again.
THEOREM PaidAtMostOnce == Spec => []ClearedForGood
  <1>1. Init => ClearedForGood
    BY DEF Init, ClearedForGood
  <1>2. QED
    BY <1>1, ClearedForGoodStep, PTL DEF Spec

\* Only three kinds of step touch what users are credited with or the
\* endpoint's queues.
LEMMA WhatTouchesPayouts ==
    [Next]_vars =>
      \/ \E p \in Packets : Verify(p)
      \/ \E p \in Packets, accounts \in ReceiveAccounts : LzReceive(p, accounts)
      \/ FundVault
      \/ UNCHANGED <<verified, cleared, usdc>>
  <1> SUFFICES ASSUME [Next]_vars
               PROVE  \/ \E p \in Packets : Verify(p)
                      \/ \E p \in Packets, accounts \in ReceiveAccounts :
                           LzReceive(p, accounts)
                      \/ FundVault
                      \/ UNCHANGED <<verified, cleared, usdc>>
    OBVIOUS
  <1> USE DEF inboundVars
  <1>1. CASE AdminNext
    BY <1>1 DEF AdminNext, InitProxy, SetBackwardFee, SetPause,
                SetAccountList, SetPeerAddress, SetPeerOther, SetDelegate,
                TransferAdmin, WithdrawFee
  <1>2. CASE UserNext
    BY <1>2 DEF UserNext, SendRequest, SubmitProof, SendClaim
  <1>3. CASE ReceiveNext
    BY <1>3 DEF ReceiveNext, LzFeeChange
  <1>4. CASE UNCHANGED vars
    BY <1>4 DEF vars
  <1>5. QED
    BY <1>1, <1>2, <1>3, <1>4 DEF Next

\* Each payout goes with exactly one packet, cleared in the same step, and
\* takes out of the vault what its receiver gains.
THEOREM PayoutsArePerPacket == Spec => PaidPerPacket
  <1> DEFINE Paid(u, p) ==
        /\ p.receiver = u
        /\ cleared' = cleared \cup {p}
        /\ p \notin verified'
        /\ usdc'[u] - usdc[u] = get_usdc_amount(p.amount)
        /\ usdc[ProxyKey] - usdc'[ProxyKey] = get_usdc_amount(p.amount)
  <1>1. TypeOK /\ ClearedForGood /\ [Next]_vars =>
          [\A u \in Users : usdc'[u] # usdc[u] =>
             \E p \in verified \ cleared : Paid(u, p)]_vars
    <2> SUFFICES ASSUME TypeOK, ClearedForGood, [Next]_vars,
                        NEW u \in Users, usdc'[u] # usdc[u]
                 PROVE  \E p \in verified \ cleared : Paid(u, p)
      OBVIOUS
    <2>1. CASE \E p \in Packets, accounts \in ReceiveAccounts :
                 LzReceive(p, accounts)
      <3>1. PICK p \in Packets, accounts \in ReceiveAccounts :
                   LzReceive(p, accounts)
        BY <2>1
      <3>2. p.receiver \in Users /\ get_usdc_amount(p.amount) \in Nat
        BY ProxyAssumption DEF Packet, get_usdc_amount
      <3>3. /\ p \in verified \ cleared
            /\ cleared' = cleared \cup {p} /\ p \notin verified'
        BY <3>1 DEF LzReceive, Clear, ClearedForGood
      <3>4. usdc' = [usdc EXCEPT
                       ![ProxyKey] = @ - get_usdc_amount(p.amount),
                       ![p.receiver] = @ + get_usdc_amount(p.amount)]
        BY <3>1 DEF LzReceive, AccountsMatch, Transfer
      <3>5. usdc \in [Accounts -> Nat] /\ p.receiver # ProxyKey
        BY <3>2, ProxyAssumption DEF TypeOK
      <3>6. p.receiver = u
        BY <3>2, <3>4, <3>5, ProxyAssumption DEF Accounts
      <3>7. /\ usdc'[u] - usdc[u] = get_usdc_amount(p.amount)
            /\ usdc[ProxyKey] - usdc'[ProxyKey] = get_usdc_amount(p.amount)
        BY <3>2, <3>4, <3>5, <3>6, ProxyAssumption DEF Accounts
      <3>8. QED
        BY <3>3, <3>6, <3>7
    <2>2. CASE FundVault
      BY <2>2, ProxyAssumption DEF FundVault, TypeOK, Accounts
    <2>3. CASE UNCHANGED usdc
      BY <2>3
    <2>4. ASSUME NEW p \in Packets, Verify(p) PROVE UNCHANGED usdc
      BY <2>4 DEF Verify
    <2>5. QED
      BY <2>1, <2>2, <2>3, <2>4, WhatTouchesPayouts
  <1>2. QED
    BY <1>1, TypeCorrect, PaidAtMostOnce, PTL DEF Spec, PaidPerPacket

-----------------------------------------------------------------------------
(* The abstract specification.                                             *)

\* A delivery credits the packet's receiver with its amount, and only them.
LEMMA ReceiverIsCredited ==
    ASSUME TypeOK, NEW p \in Packets, NEW accounts \in ReceiveAccounts,
           LzReceive(p, accounts)
    PROVE  [u \in Users |-> usdc'[u]]
             = [[u \in Users |-> usdc[u]] EXCEPT
                  ![p.receiver] = @ + get_usdc_amount(p.amount)]
  <1> DEFINE value == get_usdc_amount(p.amount)
  <1>1. /\ accounts.receiver = p.receiver /\ p.receiver \in Users
        /\ usdc' = [usdc EXCEPT ![ProxyKey] = @ - value,
                                ![p.receiver] = @ + value]
    BY ProxyAssumption DEF LzReceive, Transfer, AccountsMatch, Packet
  <1> HIDE DEF value
  <1>2. ASSUME NEW u \in Users
        PROVE  usdc'[u] = IF u = p.receiver THEN usdc[u] + value ELSE usdc[u]
    BY <1>1, ProxyAssumption DEF TypeOK, Accounts
  <1>3. QED
    BY <1>1, <1>2 DEF value

\* Whatever the handlers, retries and reconfigurations do, seen through its
\* packets and its users' balances the program is a settlement: verifying a
\* packet announces its payment, lz_receive settles it, all else stutters.
THEOREM SettlesPayments == Spec => ImplementsSettlement
  <1>1. Init => Payouts!Init
    BY ProxyAssumption DEF Init, Payouts!Init, Accounts
  <1>2. TypeOK /\ ClearedForGood /\ [Next]_vars => [Payouts!Next]_(Payouts!vars)
    <2> SUFFICES ASSUME TypeOK, ClearedForGood, [Next]_vars
                 PROVE  Payouts!Next \/ UNCHANGED Payouts!vars
      OBVIOUS
    <2> USE DEF Payouts!Next, Payouts!vars
    <2>1. ASSUME NEW p \in Packets, Verify(p) PROVE Payouts!Next
      <3>1. Payouts!Announce(p)
        BY <2>1 DEF Verify, Payouts!Announce
      <3>2. QED
        BY <3>1
    <2>2. ASSUME NEW p \in Packets, NEW accounts \in ReceiveAccounts,
                 LzReceive(p, accounts)
          PROVE  Payouts!Next
      <3>1. /\ p \in verified /\ verified' = verified \ {p}
            /\ cleared' = cleared \cup {p}
        BY <2>2 DEF LzReceive, Clear
      <3>2. [u \in Users |-> usdc'[u]]
              = [[u \in Users |-> usdc[u]] EXCEPT
                   ![p.receiver] = @ + get_usdc_amount(p.amount)]
        BY <2>2, ReceiverIsCredited
      <3>3. Payouts!Settle(p)
        BY <3>1, <3>2 DEF Payouts!Settle, packet_receiver, packet_amount
      <3>4. QED
        BY <3>3
    <2>3. CASE FundVault
      <3>1. \A u \in Users : usdc'[u] = usdc[u]
        BY <2>3, ProxyAssumption DEF FundVault, TypeOK, Accounts
      <3>2. QED
        BY <2>3, <3>1 DEF FundVault
    <2>4. CASE UNCHANGED <<verified, cleared, usdc>>
      BY <2>4
    <2>5. QED
      BY <2>1, <2>2, <2>3, <2>4, WhatTouchesPayouts
  <1>3. QED
    BY <1>1, <1>2, TypeCorrect, PaidAtMostOnce, PTL
    DEF Spec, ImplementsSettlement, Payouts!Spec

-----------------------------------------------------------------------------
(* Fees.                                                                   *)

\* For the bytes a request may carry, the quote and the send read the same
\* fee, and it is the fee of the backward message.
LEMMA OneFeeTable ==
    ASSUME NEW code \in Byte, check_request_payload_type(from_u8(code))
    PROVE  /\ quote_backward_fee(code) = request_backward_fee(from_u8(code))
           /\ BackwardFeeDue(code) = request_backward_fee(from_u8(code))
  <1> USE DEF WithdrawOrder, ClaimVestingRequest, UnstakeOrderNow,
              ClaimUsdcRevenue, ClaimReward, ClaimRewardSolana, PLACEHOLDER,
              CreateOrderUnstakeRequest, CancelOrderUnstakeRequest,
              EsOrderUnstakeAndVest, CancelVestingRequest, RedeemValor
  <1>1. from_u8(code) = code /\ code # ClaimRewardSolana
    BY DEF check_request_payload_type, from_u8, Byte
  <1>2. quote_backward_fee(code) = request_backward_fee(code)
    BY DEF quote_backward_fee, request_backward_fee
  <1>3. BackwardFeeDue(code) = request_backward_fee(code)
    BY <1>1 DEF BackwardFeeDue, request_backward_fee
  <1>4. QED
    BY <1>1, <1>2, <1>3

\* The quote is exact whatever the fees are: a smaller offer is refused, an
\* offer as large is accepted.
THEOREM QuotesAreExact == Spec => []QuotesAreTight
  <1>1. TypeOK => QuotesAreTight
    <2> SUFFICES ASSUME TypeOK, Operating, NEW f \in FeeOffers
                 PROVE  /\ \A code \in Codes :
                             check_request_payload_type(from_u8(code)) =>
                               (RequestAccepted(code, f)
                                  <=> f >= quote_request(code))
                        /\ ClaimAccepted(f) <=> f >= quote_claim
      BY DEF QuotesAreTight
    <2>1. backward_fee \in BackwardFee
      BY DEF TypeOK, Operating
    <2>2. lz_fee \in Nat /\ lz_fee # 0 /\ f \in Nat
      BY ProxyAssumption DEF TypeOK
    <2>3. ASSUME NEW code \in Codes, check_request_payload_type(from_u8(code))
          PROVE  RequestAccepted(code, f) <=> f >= quote_request(code)
      <3> DEFINE fee == request_backward_fee(from_u8(code))
      <3>1. fee \in Nat
        BY <2>1, FeeTypes
      <3>2. quote_request(code) = lz_fee + fee
        BY <2>3, OneFeeTable, ProxyAssumption DEF quote_request
      <3>3. RequestAccepted(code, f) <=> fee < f /\ lz_fee <= f - fee
        BY <2>3 DEF RequestAccepted, EndpointAccepts
      <3> HIDE DEF fee
      <3>4. QED
        BY <2>2, <3>1, <3>2, <3>3
    <2>4. ClaimAccepted(f) <=> f >= quote_claim
      BY <2>1, <2>2, FeeTypes DEF ClaimAccepted, EndpointAccepts, quote_claim,
                                  check_claim_payload_type
    <2>5. QED
      BY <2>3, <2>4
  <1>2. QED
    BY <1>1, TypeCorrect, PTL

\* A send collects exactly the fee of its backward message and costs its
\* sender at most what was offered.
THEOREM SendsAreFairlyPriced == Spec => SendsPayTheirWay
  <1>1. TypeOK /\ [Next]_vars =>
          [\A u \in Users, native_fee \in FeeOffers :
             /\ \A code \in Codes : RequestPaysItsWay(u, code, native_fee)
             /\ ClaimPaysItsWay(u, native_fee)]_vars
    <2> SUFFICES ASSUME TypeOK, NEW u \in Users, NEW f \in FeeOffers
                 PROVE  /\ \A code \in Codes : RequestPaysItsWay(u, code, f)
                        /\ ClaimPaysItsWay(u, f)
      OBVIOUS
    <2>1. /\ lamports[u] \in Nat /\ lamports[ProxyKey] \in Nat
          /\ lz_fee \in Nat /\ f \in Nat /\ ClaimRent \in Nat
      BY ProxyAssumption DEF TypeOK, Accounts
    <2>2. ASSUME NEW code \in Codes, SendRequest(u, code, f)
          PROVE  RequestPaysItsWay(u, code, f)
      <3> DEFINE fee == request_backward_fee(from_u8(code))
      <3>1. /\ fee \in Nat /\ fee + lz_fee <= f
            /\ lamports'[u] = lamports[u] - lz_fee - fee
            /\ lamports'[ProxyKey] = lamports[ProxyKey] + fee
        BY <2>2, RequestCharges
      <3>2. BackwardFeeDue(code) = fee
        BY <2>2, OneFeeTable, ProxyAssumption DEF SendRequest, RequestAccepted
      <3> HIDE DEF fee
      <3>3. QED
        BY <2>1, <3>1, <3>2 DEF RequestPaysItsWay
    <2>3. ASSUME SendClaim(u, f) PROVE ClaimPaysItsWay(u, f)
      <3> DEFINE fee == backward_fee.order
      <3>1. /\ fee \in Nat /\ fee + lz_fee <= f
            /\ lamports'[u] = lamports[u] - lz_fee - fee + ClaimRent
            /\ lamports'[ProxyKey] = lamports[ProxyKey] + fee
        BY <2>3, ClaimCharges
      <3>2. BackwardFeeDue(ClaimRewardSolana) = fee
        BY DEF BackwardFeeDue, ClaimRewardSolana, ClaimUsdcRevenue
      <3> HIDE DEF fee
      <3>3. QED
        BY <2>1, <3>1, <3>2 DEF ClaimPaysItsWay
    <2>4. QED
      BY <2>2, <2>3 DEF RequestPaysItsWay, ClaimPaysItsWay
  <1>2. QED
    BY <1>1, TypeCorrect, PTL DEF Spec, SendsPayTheirWay

-----------------------------------------------------------------------------
(* The pause flag.                                                         *)

\* Nothing a user or the endpoint does has an effect while paused.
THEOREM PauseIsTotal == Spec => PauseFreezes
  <1>1. TypeOK /\ [Next]_vars =>
          [proxy_config # NoAccount /\ proxy_config.paused =>
             /\ UNCHANGED <<claim_data, outbox, cleared>>
             /\ \A u \in Users : usdc'[u] = usdc[u]]_vars
    <2> SUFFICES ASSUME TypeOK, [Next]_vars,
                        proxy_config # NoAccount, proxy_config.paused
                 PROVE  /\ UNCHANGED <<claim_data, outbox, cleared>>
                        /\ \A u \in Users : usdc'[u] = usdc[u]
      OBVIOUS
    <2> USE DEF claimVars, outboundVars, inboundVars
    <2>1. CASE AdminNext
      BY <2>1 DEF AdminNext, InitProxy, SetBackwardFee, SetPause,
                  SetAccountList, SetPeerAddress, SetPeerOther, SetDelegate,
                  TransferAdmin, WithdrawFee
    <2>2. CASE UserNext
      BY <2>2 DEF UserNext, SendRequest, SubmitProof, SendClaim, Operating,
                  Running
    <2>3. CASE ReceiveNext
      <3>1. CASE FundVault
        BY <3>1, ProxyAssumption DEF FundVault, TypeOK, Accounts
      <3>2. CASE ~FundVault
        BY <2>3, <3>2 DEF ReceiveNext, Verify, LzReceive, LzFeeChange, Running
      <3>3. QED
        BY <3>1, <3>2
    <2>4. CASE UNCHANGED vars
      BY <2>4 DEF vars
    <2>5. QED
      BY <2>1, <2>2, <2>3, <2>4 DEF Next
  <1>2. QED
    BY <1>1, TypeCorrect, PTL DEF Spec, PauseFreezes

-----------------------------------------------------------------------------
(* PART TWO.  The bridge: program, LayerZero and contract.                 *)

\* What is sent at either end is what its sender is allowed to send, and what
\* arrives at the program was sent by the contract.
SentByRule ==
    /\ sendNonce \in 0..MaxPayments
    /\ \A s \in sent :
         /\ s.nonce \in 1..sendNonce
         /\ s.message \in Messages
         /\ s.message.payloadType = ClaimUsdcRevenueBackward
         /\ s.message.token = USDC
    /\ \A m \in outbox :
         /\ m.token = PLACEHOLDER_TOKEN
         /\ \/ check_request_payload_type(m.payload_type)
            \/ m.payload_type = ClaimRewardSolana
    /\ verified \cup cleared \subseteq PaymentsSent

LEMMA PaymentPacketType ==
    ASSUME SentByRule, NEW s \in sent
    PROVE  /\ PaymentPacket(s) \in Packets
           /\ s.message.tokenAmount < U64
  BY BridgeAssumption DEF SentByRule, PaymentPacket

\* An amount below 2^64 survives the program's reading of its last bytes.
LEMMA AmountFits ==
    ASSUME SentByRule, NEW s \in sent
    PROVE  get_usdc_amount(s.message.tokenAmount) = s.message.tokenAmount
  <1>1. s.message.tokenAmount \in Nat
    BY PaymentPacketType, ProxyAssumption DEF PaymentPacket, Packet
  <1>2. QED
    BY <1>1, PaymentPacketType, ProxyAssumption DEF get_usdc_amount

\* ledgerOappSend, as far as the bridge is concerned.
LEMMA LedgerSends ==
    ASSUME NEW m \in Managers, NEW message \in Messages,
           NEW value \in MsgValues, Ledger!LedgerOappSend(m, message, value)
    PROVE  \E t : /\ sent' = sent \cup {t}
                  /\ sendNonce' = sendNonce + 1 /\ sendNonce < MaxPayments
                  /\ t.nonce = sendNonce + 1 /\ t.message = message
                  /\ message.payloadType = ClaimUsdcRevenueBackward
                  /\ message.token = USDC
  <1> DEFINE t == [nonce |-> sendNonce + 1, dstEid |-> settings[m].solanaEid,
                   peer |-> peers[settings[m].solanaEid], message |-> message,
                   gas |-> Ledger!sendGas, manager |-> m, fee |-> Ledger!sendFee]
  <1>1. /\ sent' = sent \cup {t}
        /\ sendNonce' = sendNonce + 1 /\ sendNonce < MaxPayments
    BY DEF Ledger!LedgerOappSend
  <1>2. /\ message.payloadType = ClaimUsdcRevenueBackward
        /\ message.token = USDC
    BY DEF Ledger!LedgerOappSend, Ledger!Sendable,
           Ledger!checkLedgerPayloadType, Ledger!ClaimUsdcRevenueBackward,
           Ledger!USDC, ClaimUsdcRevenueBackward, USDC
  <1>3. t.nonce = sendNonce + 1 /\ t.message = message
    OBVIOUS
  <1> HIDE DEF t
  <1>4. QED
    BY <1>1, <1>2, <1>3

\* Which steps send, arrive and pay.
LEMMA WhatTouchesTheBridge ==
    ASSUME TypeOK, SentByRule, [BridgeNext]_bridgeVars
    PROVE  \/ \E m \in Managers, message \in Messages, value \in MsgValues :
                /\ Ledger!LedgerOappSend(m, message, value)
                /\ UNCHANGED vars
           \/ UNCHANGED <<sent, sendNonce>> /\ [Next]_vars
  <1> USE DEF ledgerVars, bridgeVars
  <1>1. CASE ProxySide
    <2>1. verified \subseteq Packets
      BY DEF TypeOK
    <2>2. QED
      BY <1>1, <2>1 DEF ProxySide, Next, ReceiveNext
  <1>2. CASE LedgerSide
    <2> USE DEF Ledger!inboundVars, Ledger!outboundVars
    <2>1. CASE Ledger!OwnerNext
      BY <1>2, <2>1 DEF LedgerSide, Ledger!OwnerNext, Ledger!SetOCCManagerAddr,
         Ledger!SetOptions, Ledger!WithdrawTo, Ledger!SetPeers,
         Ledger!SetDelegate, Ledger!Pause, Ledger!Unpause,
         Ledger!TransferOwnership
    <2>2. CASE Ledger!ManagerNext
      BY <1>2, <2>2 DEF LedgerSide, Ledger!ManagerNext, Ledger!ManagerSets
    <2>3. ASSUME NEW p \in inbound, NEW value \in Values \cup {0},
                 Ledger!LzReceive(p, value)
          PROVE  UNCHANGED <<sent, sendNonce>>
      BY <2>3 DEF Ledger!LzReceive
    <2>4. ASSUME NEW price \in GasPrices, Ledger!GasPriceChange(price)
          PROVE  UNCHANGED <<sent, sendNonce>>
      BY <2>4 DEF Ledger!GasPriceChange
    <2>5. QED
      BY <1>2, <2>1, <2>2, <2>3, <2>4 DEF LedgerSide
  <1>3. ASSUME NEW m \in Requests, CarryRequest(m)
        PROVE  UNCHANGED <<sent, sendNonce>> /\ UNCHANGED vars
    BY <1>3 DEF CarryRequest, Ledger!Verify, Ledger!outboundVars
  <1>4. ASSUME NEW s \in Payments, CarryPayment(s)
        PROVE  UNCHANGED <<sent, sendNonce>> /\ [Next]_vars
    BY <1>4, PaymentPacketType DEF CarryPayment, Payments, Next, ReceiveNext
  <1>5. CASE UNCHANGED bridgeVars
    BY <1>5
  <1>6. QED
    BY <1>1, <1>2, <1>3, <1>4, <1>5 DEF BridgeNext, Carry

-----------------------------------------------------------------------------
(* What is sent and what arrives.                                          *)

\* In the program: a message is added to the outbox by a send, with a type
\* the program checked and the placeholder token.
LEMMA OutboxByRule ==
    ASSUME [Next]_vars, NEW m \in outbox', m \notin outbox
    PROVE  /\ m.token = PLACEHOLDER_TOKEN
           /\ \/ check_request_payload_type(m.payload_type)
              \/ m.payload_type = ClaimRewardSolana
  <1> USE DEF outboundVars
  <1>1. CASE AdminNext
    BY <1>1 DEF AdminNext, InitProxy, SetBackwardFee, SetPause,
                SetAccountList, SetPeerAddress, SetPeerOther, SetDelegate,
                TransferAdmin, WithdrawFee
  <1>2. ASSUME NEW u \in Users, NEW code \in Codes, NEW fee \in FeeOffers,
               SendRequest(u, code, fee)
        PROVE  /\ m.token = PLACEHOLDER_TOKEN
               /\ check_request_payload_type(m.payload_type)
    BY <1>2 DEF SendRequest, EndpointSend, RequestAccepted, get_token_type
  <1>3. ASSUME NEW u \in Users, NEW fee \in FeeOffers, SendClaim(u, fee)
        PROVE  m.token = PLACEHOLDER_TOKEN /\ m.payload_type = ClaimRewardSolana
    BY <1>3 DEF SendClaim, EndpointSend, get_token_type
  <1>4. ASSUME NEW u \in Users, NEW id \in DistributionIds,
               NEW amount \in Amounts, NEW proof \in Proofs,
               SubmitProof(u, id, amount, proof)
        PROVE  FALSE
    BY <1>4 DEF SubmitProof
  <1>5. CASE ReceiveNext
    BY <1>5 DEF ReceiveNext, Verify, LzReceive, LzFeeChange, FundVault
  <1>6. CASE UNCHANGED vars
    BY <1>6 DEF vars
  <1>7. QED
    BY <1>1, <1>2, <1>3, <1>4, <1>5, <1>6 DEF Next, UserNext

\* In the program: a packet is verified or cleared only if LayerZero carried
\* it from the contract, or it was verified before.
LEMMA ArrivesByRule ==
    ASSUME SentByRule, [BridgeNext]_bridgeVars
    PROVE  verified' \cup cleared' \subseteq PaymentsSent
  <1> USE DEF SentByRule, inboundVars
  <1>1. CASE ProxySide
    <2>1. CASE AdminNext
      BY <2>1 DEF AdminNext, InitProxy, SetBackwardFee, SetPause,
                  SetAccountList, SetPeerAddress, SetPeerOther, SetDelegate,
                  TransferAdmin, WithdrawFee
    <2>2. CASE UserNext
      BY <2>2 DEF UserNext, SendRequest, SubmitProof, SendClaim
    <2>3. ASSUME NEW p \in verified, NEW accounts \in ReceiveAccounts,
                 LzReceive(p, accounts)
          PROVE  verified' \cup cleared' \subseteq PaymentsSent
      BY <2>3 DEF LzReceive, Clear
    <2>4. ASSUME NEW fee \in LzFees, LzFeeChange(fee)
          PROVE  verified' \cup cleared' \subseteq PaymentsSent
      BY <2>4 DEF LzFeeChange
    <2>5. CASE FundVault
      BY <2>5 DEF FundVault
    <2>6. QED
      BY <1>1, <2>1, <2>2, <2>3, <2>4, <2>5 DEF ProxySide
  <1>2. ASSUME NEW s \in Payments, CarryPayment(s)
        PROVE  verified' \cup cleared' \subseteq PaymentsSent
    BY <1>2 DEF CarryPayment, Verify, PaymentsSent
  <1>3. CASE UNCHANGED <<verified, cleared>>
    BY <1>3
  <1>4. QED
    BY <1>1, <1>2, <1>3
    DEF BridgeNext, Carry, LedgerSide, CarryRequest, bridgeVars, vars

\* What arrived stays sent.
LEMMA SentGrows ==
    ASSUME sent \subseteq sent'
    PROVE  PaymentsSent \subseteq PaymentsSent'
  BY DEF PaymentsSent, Payments, PaymentPacket

LEMMA SentByRuleStep ==
    TypeOK /\ SentByRule /\ [BridgeNext]_bridgeVars => SentByRule'
  <1> SUFFICES ASSUME TypeOK, SentByRule, [BridgeNext]_bridgeVars
               PROVE  SentByRule'
    OBVIOUS
  <1>1. ASSUME NEW m \in Managers, NEW message \in Messages,
               NEW value \in MsgValues,
               Ledger!LedgerOappSend(m, message, value), UNCHANGED vars
        PROVE  SentByRule'
    <2>1. PICK t : /\ sent' = sent \cup {t}
                   /\ sendNonce' = sendNonce + 1 /\ sendNonce < MaxPayments
                   /\ t.nonce = sendNonce + 1 /\ t.message = message
                   /\ message.payloadType = ClaimUsdcRevenueBackward
                   /\ message.token = USDC
      BY <1>1, LedgerSends
    <2>2. sendNonce' \in 0..MaxPayments /\ sendNonce \in Nat
      BY <2>1, BridgeAssumption DEF SentByRule
    <2>3. \A s \in sent' : /\ s.nonce \in 1..sendNonce'
                           /\ s.message \in Messages
                           /\ s.message.payloadType = ClaimUsdcRevenueBackward
                           /\ s.message.token = USDC
      BY <2>1, <2>2 DEF SentByRule
    <2>4. verified' \cup cleared' \subseteq PaymentsSent'
      BY <2>1, SentGrows, ArrivesByRule
    <2>5. UNCHANGED outbox
      BY <1>1 DEF vars, outboundVars
    <2>6. QED
      BY <2>2, <2>3, <2>4, <2>5 DEF SentByRule
  <1>2. ASSUME UNCHANGED <<sent, sendNonce>>, [Next]_vars
        PROVE  SentByRule'
    <2>1. verified' \cup cleared' \subseteq PaymentsSent'
      BY <1>2, SentGrows, ArrivesByRule
    <2>2. \A m \in outbox' :
            /\ m.token = PLACEHOLDER_TOKEN
            /\ \/ check_request_payload_type(m.payload_type)
               \/ m.payload_type = ClaimRewardSolana
      BY <1>2, OutboxByRule DEF SentByRule
    <2>3. QED
      BY <1>2, <2>1, <2>2 DEF SentByRule
  <1>3. QED
    BY <1>1, <1>2, WhatTouchesTheBridge

\* The composition leaves the program its behaviours, so that all that is
\* proved of SolanaProxy holds of it on the bridge.
LEMMA BridgeRespectsProxy == BridgeSpec => Spec /\ []SentByRule
  <1>1. BridgeInit => Init /\ TypeOK /\ SentByRule
    <2>1. BridgeInit => Init /\ TypeOK
      BY InitTypeOK DEF BridgeInit
    <2>2. BridgeInit => SentByRule
      BY BridgeAssumption DEF BridgeInit, Init, Ledger!Init, SentByRule
    <2>3. QED
      BY <2>1, <2>2
  <1>2. TypeOK /\ SentByRule /\ [BridgeNext]_bridgeVars
          => [Next]_vars /\ TypeOK' /\ SentByRule'
    <2>1. TypeOK /\ SentByRule /\ [BridgeNext]_bridgeVars => [Next]_vars
      BY WhatTouchesTheBridge
    <2>2. TypeOK /\ [Next]_vars => TypeOK'
      BY TypeOKStep
    <2>3. QED
      BY <2>1, <2>2, SentByRuleStep
  <1>3. QED
    BY <1>1, <1>2, PTL DEF BridgeSpec, Spec

-----------------------------------------------------------------------------
(* The codes.                                                              *)

\* Deployed ends refuse nothing the other may send.
THEOREM BridgeCodesAgree == BridgeSpec => []CodesAgree
  <1>1. SentByRule => CodesAgree
    <2> SUFFICES ASSUME SentByRule, Deployed
                 PROVE  /\ \A m \in Requests : Ledger!Acceptable(RequestPacket(m))
                        /\ \A s \in Payments :
                             LET p == PaymentPacket(s) IN
                             /\ AccountsMatch(p, lz_receive_types(p))
                             /\ check_ledger_payload_type(from_u8(p.payload_type))
                             /\ check_ledger_token_type(token_from_u8(p.token))
                             /\ get_usdc_amount(p.amount) = s.message.tokenAmount
      BY DEF CodesAgree
    <2>1. ASSUME NEW m \in Requests PROVE Ledger!Acceptable(RequestPacket(m))
      <3> DEFINE p == RequestPacket(m)
      <3>1. /\ p.srcEid = SolanaEid /\ p.peer = ProxyAddress
            /\ p.token = m.token /\ p.payloadType = m.payload_type
        BY DEF RequestPacket
      <3>2. m.token \in Ledger!LedgerToken
        BY DEF SentByRule, Requests, PLACEHOLDER_TOKEN, Ledger!LedgerToken,
               Ledger!ORDER, Ledger!PLACEHOLDER
      <3>3. Ledger!checkVaultPayloadType(m.payload_type)
        BY DEF SentByRule, Requests, check_request_payload_type,
               ClaimRewardSolana, CreateOrderUnstakeRequest,
               CancelOrderUnstakeRequest, WithdrawOrder, EsOrderUnstakeAndVest,
               CancelVestingRequest, ClaimVestingRequest, RedeemValor,
               ClaimUsdcRevenue, UnstakeOrderNow, Ledger!checkVaultPayloadType,
               Ledger!CreateOrderUnstakeRequest, Ledger!ClaimUsdcRevenue,
               Ledger!UnstakeOrderNow, Ledger!ClaimRewardSolana
      <3> HIDE DEF p
      <3>4. QED
        BY <3>1, <3>2, <3>3
        DEF p, Ledger!Acceptable, Deployed, Ledger!whenNotPaused
    <2>2. ASSUME NEW s \in Payments
          PROVE  /\ AccountsMatch(PaymentPacket(s), lz_receive_types(PaymentPacket(s)))
                 /\ check_ledger_payload_type(from_u8(PaymentPacket(s).payload_type))
                 /\ check_ledger_token_type(token_from_u8(PaymentPacket(s).token))
      BY DEF Payments, SentByRule, PaymentPacket, AccountsMatch,
             lz_receive_types, Deployed, check_ledger_payload_type, from_u8,
             check_ledger_token_type, token_from_u8, ClaimUsdcRevenueBackward,
             USDC, ORDER, ESORDER, ClaimReward, ClaimRewardSolana
    <2>3. ASSUME NEW s \in Payments
          PROVE  get_usdc_amount(PaymentPacket(s).amount) = s.message.tokenAmount
      BY AmountFits DEF Payments, PaymentPacket
    <2>4. QED
      BY <2>1, <2>2, <2>3
  <1>2. QED
    BY <1>1, BridgeRespectsProxy, PTL

-----------------------------------------------------------------------------
(* Payments end to end.                                                    *)

\* From the manager's send to the user's balance, the bridge settles each
\* payment once and for what the manager asked.
THEOREM BridgeSettlesPayments == BridgeSpec => PaymentsSettleEndToEnd
  <1>1. BridgeInit => EndToEnd!Init
    BY ProxyAssumption DEF BridgeInit, Init, Ledger!Init, EndToEnd!Init,
                           PaymentsSent, Payments, Accounts
  <1>2. TypeOK /\ ClearedForGood /\ SentByRule /\ [BridgeNext]_bridgeVars
          => [EndToEnd!Next]_(EndToEnd!vars)
    <2> SUFFICES ASSUME TypeOK, ClearedForGood, SentByRule,
                        [BridgeNext]_bridgeVars
                 PROVE  EndToEnd!Next \/ UNCHANGED EndToEnd!vars
      OBVIOUS
    <2> USE DEF EndToEnd!Next, EndToEnd!vars
    <2>1. ASSUME NEW m \in Managers, NEW message \in Messages,
                 NEW value \in MsgValues,
                 Ledger!LedgerOappSend(m, message, value), UNCHANGED vars
          PROVE  EndToEnd!Next \/ UNCHANGED EndToEnd!vars
      <3>1. PICK t : sent' = sent \cup {t} /\ t.nonce = sendNonce + 1
        BY <2>1, LedgerSends
      <3>2. UNCHANGED <<cleared, usdc>>
        BY <2>1 DEF vars, inboundVars
      <3>3. CASE t \notin Payments'
        <4>1. PaymentsSent' = PaymentsSent
          BY <3>1, <3>3 DEF PaymentsSent, Payments, PaymentPacket
        <4>2. QED
          BY <3>2, <4>1
      <3>4. CASE t \in Payments'
        <4> DEFINE p == PaymentPacket(t)
        <4>1. PaymentsSent' = PaymentsSent \cup {p}
          BY <3>1, <3>4 DEF PaymentsSent, Payments, PaymentPacket
        <4>2. p \notin PaymentsSent
          <5>1. \A s \in sent : s.nonce # t.nonce
            BY <3>1 DEF SentByRule
          <5>2. \A s \in Payments : PaymentPacket(s).nonce = s.nonce /\ s \in sent
            BY DEF PaymentPacket, Payments
          <5>3. p.nonce = t.nonce
            BY DEF PaymentPacket
          <5> HIDE DEF p
          <5>4. QED
            BY <5>1, <5>2, <5>3 DEF PaymentsSent
        <4>3. p \in Packets
          <5>1. t \in sent' /\ SentByRule'
            BY <3>1, SentByRuleStep
          <5>2. t.message \in Messages /\ t.nonce \in 1..MaxPayments
            BY <5>1, BridgeAssumption DEF SentByRule
          <5>3. QED
            BY <5>2, BridgeAssumption DEF PaymentPacket
        <4>4. p \notin cleared
          BY <4>2 DEF SentByRule
        <4> HIDE DEF p
        <4>5. EndToEnd!Announce(p)
          BY <3>2, <4>1, <4>2, <4>4 DEF EndToEnd!Announce
        <4>6. QED
          BY <4>3, <4>5
      <3>5. QED
        BY <3>3, <3>4
    <2>2. ASSUME UNCHANGED sent, NEW p \in Packets,
                 NEW accounts \in ReceiveAccounts, LzReceive(p, accounts)
          PROVE  EndToEnd!Next
      <3>1. p \in verified /\ cleared' = cleared \cup {p}
        BY <2>2 DEF LzReceive, Clear
      <3>2. p \in PaymentsSent /\ p \notin cleared
        BY <3>1 DEF SentByRule, ClearedForGood
      <3>3. PaymentsSent' = PaymentsSent
        BY <2>2 DEF PaymentsSent, Payments, PaymentPacket
      <3>4. get_usdc_amount(p.amount) = p.amount
        BY <3>2, AmountFits DEF PaymentsSent, Payments, PaymentPacket
      <3>5. [u \in Users |-> usdc'[u]]
              = [[u \in Users |-> usdc[u]] EXCEPT ![p.receiver] = @ + p.amount]
        BY <2>2, <3>4, ReceiverIsCredited
      <3>6. EndToEnd!Settle(p)
        BY <3>1, <3>2, <3>3, <3>5
        DEF EndToEnd!Settle, packet_receiver, sent_amount
      <3>7. QED
        BY <3>6
    <2>3. ASSUME UNCHANGED <<sent, cleared>>,
                 \A u \in Users : usdc'[u] = usdc[u]
          PROVE  UNCHANGED EndToEnd!vars
      <3>1. PaymentsSent' = PaymentsSent
        BY <2>3 DEF PaymentsSent, Payments, PaymentPacket
      <3>2. QED
        BY <2>3, <3>1
    <2>4. ASSUME UNCHANGED sent, [Next]_vars
          PROVE  EndToEnd!Next \/ UNCHANGED EndToEnd!vars
      <3>1. ASSUME NEW p \in Packets, Verify(p)
            PROVE  cleared' = cleared /\ \A u \in Users : usdc'[u] = usdc[u]
        BY <3>1 DEF Verify
      <3>2. CASE FundVault
        <4>1. \A u \in Users : usdc'[u] = usdc[u]
          BY <3>2, ProxyAssumption DEF FundVault, TypeOK, Accounts
        <4>2. QED
          BY <3>2, <4>1, <2>3, <2>4 DEF FundVault
      <3>3. QED
        BY <3>1, <3>2, <2>2, <2>3, <2>4, WhatTouchesPayouts
    <2>5. QED
      BY <2>1, <2>4, WhatTouchesTheBridge
  <1>3. QED
    BY <1>1, <1>2, BridgeRespectsProxy, TypeCorrect, PaidAtMostOnce, PTL
    DEF BridgeSpec, PaymentsSettleEndToEnd, EndToEnd!Spec

=============================================================================
