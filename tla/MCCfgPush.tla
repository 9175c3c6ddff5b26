----------------------------- MODULE MCCfgPush -----------------------------
(***************************************************************************)
(* CfgPush with settings of each kind: two that work, one on which the     *)
(* target hears but is not heard, one on which it is deaf.                 *)
(***************************************************************************)
EXTENDS CfgPush

MCSetting == {"good", "better", "quiet", "deaf"}
MCHears   == {"good", "better", "quiet"}
MCReaches == {"good", "better"}
MCPushed  == {"better", "quiet"}
=============================================================================
