---------------------------- MODULE MCProxyTasks ----------------------------
(* ProxyTasks for TLC, in the one environment deployed for use.            *)
EXTENDS ProxyTasks

const_Envs == {"mainnet"}
=============================================================================
