------------------------------ MODULE MCCfgOta ------------------------------
(***************************************************************************)
(* CfgOta with settings of each kind: two that work, one on which the node *)
(* hears but is not heard, one on which it is deaf.                        *)
(***************************************************************************)
EXTENDS CfgOta

MCSetting == {"good", "better", "quiet", "deaf"}
MCHears   == {"good", "better", "quiet"}
MCReaches == {"good", "better"}
=============================================================================
