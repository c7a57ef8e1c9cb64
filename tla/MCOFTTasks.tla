----------------------------- MODULE MCOFTTasks -----------------------------
(* OFTTasks for TLC. *)
EXTENDS OFTTasks
const_Runs == {1}
const_Multisigs == 11..17
=============================================================================
