----------------------------- MODULE MCOFTMesh -----------------------------
(***************************************************************************)
(* A small instance of OFTMesh for TLC: an Adapter, with packets that      *)
(* carry dust on the wire.  A shared decimal is 3 of the local ones and 4  *)
(* of the wire's, and fees are counted in tenths.                          *)
(***************************************************************************)
EXTENDS OFTMesh

CONSTANTS e1, a1, u1

Pkt(n, wire, compose) ==
    [src_eid |-> e1, sender |-> a1, nonce |-> n, to |-> u1, wire |-> wire,
     compose |-> compose]

\* One shared decimal and a quarter or a half of one.
MCPackets == {Pkt(1, 6, FALSE), Pkt(2, 6, TRUE), Pkt(3, 5, FALSE)}

\* None, a tenth in effect uncapped, and two tenths capped above five.
MCTransferFees == {[bps |-> 0, maximum_fee |-> 0], [bps |-> 1, maximum_fee |-> 31],
                   [bps |-> 2, maximum_fee |-> 1]}

Nothing == {}

=============================================================================
