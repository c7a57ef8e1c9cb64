---------------------------- MODULE MCProxyClient ----------------------------
(* ProxyClient for TLC. *)
EXTENDS ProxyClient
const_PayloadArgs == {1, 4, 7, 15}
const_Amounts == {1}
const_Fees == {1, 2}
const_OFTFees == {0, 10}
==============================================================================
