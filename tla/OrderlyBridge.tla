--------------------------- MODULE OrderlyBridge ---------------------------
(***************************************************************************)
(* The bridge as a whole: the Solana Proxy program and the LedgerOApp      *)
(* contract, each with its own administrator, and the messages LayerZero   *)
(* carries between them, in any order and after any delay.  The state of   *)
(* the contract is in the variables declared here.                         *)
(***************************************************************************)
EXTENDS SolanaProxy

CONSTANTS
    SolanaEid,         \* endpoint id of Solana
    ProxyAddress,      \* the program's address as other chains write it
    LedgerAddress,     \* the contract's address as Solana writes it
    RequestPackets,    \* packets the contract may be sent
    Owners, Managers, Oapp, ChainIds, Unset, Messages,
    Gas, Values, DefaultGas, GasPrices, MsgValues, InitialWei,
    MaxPayments, MaxDrops

\* The types of the messages the program may send.
RequestTypes == {t \in {from_u8(code) : code \in Codes} : check_request_payload_type(t)}
                  \cup {ClaimRewardSolana}

ASSUME BridgeAssumption ==
    /\ LedgerAddress \in Addresses
    /\ MaxPayments \in Nat
    \* The ledger pays amounts that fit the program's u64.
    /\ \A message \in Messages : message.tokenAmount < U64
    \* The packets stand for every message either side may send.
    /\ \A nonce \in 1..MaxPayments, message \in Messages :
         [src_eid |-> OrderlyEid, sender |-> LedgerAddress, nonce |-> nonce,
          token |-> message.token, receiver |-> message.receiver,
          payload_type |-> message.payloadType, amount |-> message.tokenAmount]
           \in Packets
    /\ \A nonce \in 1..MaxSends, user \in Users, payload_type \in RequestTypes :
         [srcEid |-> SolanaEid, peer |-> ProxyAddress, nonce |-> nonce,
          token |-> get_token_type(payload_type), sender |-> user,
          payloadType |-> payload_type]
           \in RequestPackets

VARIABLES
    owner, paused, occManagerAddr, options, peers, oapp_delegate, settings,
    gasPrice, wei, inbound, executed, received, sent, sendNonce, dropped, swept

Ledger == INSTANCE LedgerOApp WITH
    Eids <- {SolanaEid}, Addresses <- {ProxyAddress}, Receivers <- Users,
    Packets <- RequestPackets, MaxSends <- MaxPayments,
    delegate <- oapp_delegate

ledgerVars == <<owner, paused, occManagerAddr, options, peers, oapp_delegate,
                settings, gasPrice, wei, inbound, executed, received, sent,
                sendNonce, dropped, swept>>
bridgeVars == <<vars, ledgerVars>>

BridgeInit == Init /\ Ledger!Init

-----------------------------------------------------------------------------
(* What LayerZero makes of a message at the other end.                     *)

RequestPacket(m) ==
    [srcEid |-> SolanaEid, peer |-> ProxyAddress, nonce |-> m.nonce,
     token |-> m.token, sender |-> m.sender, payloadType |-> m.payload_type]

PaymentPacket(s) ==
    [src_eid |-> OrderlyEid, sender |-> LedgerAddress, nonce |-> s.nonce,
     token |-> s.message.token, receiver |-> s.message.receiver,
     payload_type |-> s.message.payloadType, amount |-> s.message.tokenAmount]

Requests == {m \in outbox : m.receiver = LedgerAddress}
Payments == {s \in sent : s.dstEid = SolanaEid /\ s.peer = ProxyAddress}

CarryRequest(m) ==
    /\ Ledger!Verify(RequestPacket(m))
    /\ UNCHANGED vars

CarryPayment(s) ==
    /\ Verify(PaymentPacket(s))
    /\ UNCHANGED ledgerVars

-----------------------------------------------------------------------------
(* Every step is one of the program's side, one of the contract's side, or *)
(* one of LayerZero's.                                                     *)

ProxySide ==
    /\ \/ AdminNext
       \/ UserNext
       \/ \E packet \in verified, accounts \in ReceiveAccounts :
            LzReceive(packet, accounts)
       \/ \E fee \in LzFees : LzFeeChange(fee)
       \/ FundVault
    /\ UNCHANGED ledgerVars

LedgerSide ==
    /\ \/ Ledger!OwnerNext
       \/ Ledger!ManagerNext
       \/ \E p \in inbound, value \in Values \cup {0} : Ledger!LzReceive(p, value)
       \/ \E price \in GasPrices : Ledger!GasPriceChange(price)
    /\ UNCHANGED vars

Carry == \/ \E m \in Requests : CarryRequest(m)
         \/ \E s \in Payments : CarryPayment(s)

BridgeNext == ProxySide \/ LedgerSide \/ Carry

BridgeSpec == BridgeInit /\ [][BridgeNext]_bridgeVars

-----------------------------------------------------------------------------
(* Properties.                                                             *)

\* End to end, a payment is announced when the OCC manager sends it and
\* settled when its receiver holds the amount the manager asked for; it is
\* settled at most once, and nothing else credits anybody.
PaymentsSent == {PaymentPacket(s) : s \in Payments}

sent_amount(p) == p.amount

EndToEnd == INSTANCE Settlement WITH
    Payments <- Packets, Receivers <- Users,
    receiver <- packet_receiver, amount <- sent_amount,
    pending <- PaymentsSent \ cleared, settled <- PaymentsSent \cap cleared,
    credited <- [u \in Users |-> usdc[u]]

PaymentsSettleEndToEnd == EndToEnd!Spec

\* Both ends are configured for each other.
Deployed ==
    /\ Running
    /\ account_list # NoAccount
    /\ peer_config[OrderlyEid] = LedgerAddress
    /\ topups = MaxTopUps
    /\ ~paused
    /\ occManagerAddr # Unset
    /\ settings[occManagerAddr].solanaEid = SolanaEid
    /\ settings[occManagerAddr].solanaChainId # Unset
    /\ peers[SolanaEid] = ProxyAddress

\* The two ends agree on the codes: whatever kind of request the program lets
\* a user send, and whatever payment the contract lets a manager send, a
\* deployed other end refuses nothing of it and reads the amount that was meant.
CodesAgree ==
    Deployed =>
      /\ \A m \in Requests : Ledger!Acceptable(RequestPacket(m))
      /\ \A s \in Payments :
           LET p == PaymentPacket(s) IN
           /\ AccountsMatch(p, lz_receive_types(p))
           /\ check_ledger_payload_type(from_u8(p.payload_type))
           /\ check_ledger_token_type(token_from_u8(p.token))
           /\ get_usdc_amount(p.amount) = s.message.tokenAmount

-----------------------------------------------------------------------------
(* Liveness.  LayerZero verifies every message, and executors retry.       *)

FairBridge ==
    /\ BridgeSpec
    /\ \A packet \in Packets : WF_bridgeVars(
         \/ \E s \in Payments : PaymentPacket(s) = packet /\ CarryPayment(s)
         \/ Execute(packet) /\ UNCHANGED ledgerVars)
    /\ \A packet \in RequestPackets : WF_bridgeVars(
         \/ \E m \in Requests : RequestPacket(m) = packet /\ CarryRequest(m)
         \/ Ledger!LzReceive(packet, 0) /\ UNCHANGED vars)

\* Every request the program sends is handed to the OCC manager once both
\* ends stay deployed, whatever happened to them while it was on its way.
RequestsArrive ==
    \A packet \in RequestPackets :
      <>[]Deployed =>
        []((\E m \in Requests : RequestPacket(m) = packet)
             => <>(packet \in executed))

\* Every payment the contract sends is one the program takes and pays.
PaymentsArrive ==
    \A packet \in Packets :
      <>[]Deployed => [](packet \in PaymentsSent => <>(packet \in cleared))

=============================================================================
