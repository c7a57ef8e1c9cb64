---------------------------- MODULE MCLedgerTasks ----------------------------
(* LedgerTasks for TLC. *)
EXTENDS LedgerTasks
const_Networks  == {"orderlysepolia", "orderly"}
const_Envs      == {"qa", "staging"}
const_Libraries == {"lib1", "lib2"}
const_DVNSets   == {{"0x175d"}, {"LayerZero Labs"}}
==============================================================================
