------------------------------- MODULE MCOFT -------------------------------
(***************************************************************************)
(* Small instances of OFT for TLC: a shared decimal is 2 of the local ones *)
(* and half a decimal of the wire, and fees are counted in quarters.       *)
(***************************************************************************)
EXTENDS OFT

CONSTANTS e1, a1, u1

Fee(bps, maximum_fee) == [bps |-> bps, maximum_fee |-> maximum_fee]

NoTransferFee   == {Fee(0, 0)}
\* A quarter, capped or not.
TransferFeesSet == {Fee(0, 0), Fee(1, 1), Fee(1, 7)}

Pkt(n, wire, compose) ==
    [src_eid |-> e1, sender |-> a1, nonce |-> n, to |-> u1, wire |-> wire,
     compose |-> compose]

\* Two local units, and four with dust on the wire; one is composed.
MCPackets == {Pkt(1, 2, FALSE), Pkt(2, 5, TRUE)}

Limit(rate, capacity) == [refill_per_second |-> rate, capacity |-> capacity]

\* A bucket is made or filled, or its rate is changed.
MCRateLimits == {Limit(0, 2), Limit(2, None)}

\* Two local units, and an amount that wraps.
TwoAmounts == {Pkt(1, 2, FALSE), Pkt(2, U64 * DUST + 2, TRUE)}

Nothing == {}

=============================================================================
