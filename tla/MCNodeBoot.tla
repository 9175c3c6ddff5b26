----------------------------- MODULE MCNodeBoot -----------------------------
(* NodeBoot with a log of two slots.  No action reads both the log and the    *)
(* configuration, so they are explored side by side, not in all combinations. *)
EXTENDS NodeBoot

\* The log is empty, or the page is and nothing is configured.
SideBySide == log = ErasedLog \/ (page = ErasedPage /\ node.flash_data = NoData)
=============================================================================
