---------------------------- MODULE MCLedgerOApp ----------------------------
(***************************************************************************)
(* Small instances of LedgerOApp for TLC: two OCC managers, Solana and one *)
(* other chain.                                                            *)
(***************************************************************************)
EXTENDS LedgerOApp

CONSTANTS solana, other, proxy, imposter, chain, unset, u1

Pkt(eid, from, nonce, token, type) ==
    [srcEid |-> eid, peer |-> from, nonce |-> nonce, token |-> token,
     sender |-> u1, payloadType |-> type]

\* A request of the newest kind and one from a chain the manager need not
\* call Solana; a byte that is no LedgerToken and a type only the ledger sends.
MCPackets ==
    {Pkt(solana, proxy, 1, PLACEHOLDER, ClaimRewardSolana),
     Pkt(other, imposter, 1, PLACEHOLDER, ClaimUsdcRevenue),
     Pkt(solana, proxy, 2, PLACEHOLDER + 1, UnstakeOrderNow),
     Pkt(solana, proxy, 3, PLACEHOLDER, ClaimUsdcRevenueBackward)}

OnePacket == {Pkt(solana, proxy, 1, PLACEHOLDER, ClaimRewardSolana)}

Msg(dst, token, type) ==
    [dstChainId |-> dst, token |-> token, tokenAmount |-> 1,
     receiver |-> u1, payloadType |-> type]

\* A payment, and messages that differ from it in one field each.
MCMessages ==
    {Msg(chain, USDC, ClaimUsdcRevenueBackward),
     Msg(unset, USDC, ClaimUsdcRevenueBackward),
     Msg(chain, ORDER, ClaimUsdcRevenueBackward),
     Msg(chain, USDC, ClaimUsdcRevenue)}

TwoPackets ==
    {Pkt(solana, proxy, 1, PLACEHOLDER, ClaimRewardSolana),
     Pkt(solana, imposter, 1, PLACEHOLDER, ClaimUsdcRevenue)}

Nothing == {}

=============================================================================
