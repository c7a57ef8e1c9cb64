--------------------------- MODULE MCSolanaProxy ---------------------------
(***************************************************************************)
(* Small instances of SolanaProxy for TLC: two users, two holders of the   *)
(* admin role, the ledger chain and one other chain.                       *)
(***************************************************************************)
EXTENDS SolanaProxy

CONSTANTS u1, u2, orderly, other, ledgerOApp, imposter

Pkt(eid, from, nonce, token, to, type, amount) ==
    [src_eid |-> eid, sender |-> from, nonce |-> nonce, token |-> token,
     receiver |-> to, payload_type |-> type, amount |-> amount]

\* A payment of the ledger to each user; the second is larger than a u64.
LedgerPayments ==
    {Pkt(orderly, ledgerOApp, 1, USDC, u1, ClaimUsdcRevenueBackward, 1),
     Pkt(orderly, ledgerOApp, 2, USDC, u2, ClaimUsdcRevenueBackward, U64 + 2)}

\* Packets the program has to refuse, another token and a request type, and a
\* payment from another chain by a sender the admin may or may not make its peer.
Others ==
    {Pkt(orderly, ledgerOApp, 3, ORDER, u1, ClaimUsdcRevenueBackward, 1),
     Pkt(orderly, ledgerOApp, 4, USDC, u1, ClaimUsdcRevenue, 1),
     Pkt(other, imposter, 1, USDC, u2, ClaimUsdcRevenueBackward, 1)}

AllPackets == LedgerPayments \cup Others

NoPackets == {}
=============================================================================
