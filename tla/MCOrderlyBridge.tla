-------------------------- MODULE MCOrderlyBridge --------------------------
(***************************************************************************)
(* Small instances of OrderlyBridge for TLC.                               *)
(***************************************************************************)
EXTENDS OrderlyBridge

CONSTANTS u1, u2, chain

Payment(user, amount) ==
    [dstChainId |-> chain, token |-> USDC, tokenAmount |-> amount,
     receiver |-> user, payloadType |-> ClaimUsdcRevenueBackward]

OnePayment == {Payment(u1, 3)}

PaymentPackets ==
    {[src_eid |-> OrderlyEid, sender |-> LedgerAddress, nonce |-> n,
      token |-> m.token, receiver |-> m.receiver,
      payload_type |-> m.payloadType, amount |-> m.tokenAmount] :
       n \in 1..MaxPayments, m \in Messages}

ProgramPackets ==
    {[srcEid |-> SolanaEid, peer |-> ProxyAddress, nonce |-> n,
      token |-> get_token_type(t), sender |-> u, payloadType |-> t] :
       n \in 1..MaxSends, u \in Users, t \in RequestTypes}

=============================================================================
