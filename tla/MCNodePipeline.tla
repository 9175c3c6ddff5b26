--------------------------- MODULE MCNodePipeline ---------------------------
(***************************************************************************)
(* NodePipeline with buffers of three slots, the fewest that rx never      *)
(* overflows; a full tx holds a relay, a beacon and an answer at once.     *)
(***************************************************************************)
EXTENDS NodePipeline

\* Every kind of frame the layers treat differently.
AllFrames == {"BEACON", "PAYLOAD", "PING", "REQUEST", "CMD_BEACON"}
=============================================================================
