--------------------------- MODULE FirmwareUpdate ---------------------------
(***************************************************************************)
(* What an update over the air promises of a node: it runs one whole image *)
(* at a time, an image is staged beside it, and the node comes to run the  *)
(* image that was staged and no other.  A staged image is protected by     *)
(* nothing: another push may ruin it, and then no more is promised.        *)
(***************************************************************************)
CONSTANTS Image, None

VARIABLES
    version,   \* the image the node runs
    staged,    \* the image that is to replace it
    ruined     \* what was staged has been overwritten

Init ==
    /\ version \in Image
    /\ staged = None
    /\ ruined = FALSE

\* A complete image is staged.
Stage(i) ==
    /\ ~ ruined
    /\ staged = None
    /\ staged' = i
    /\ UNCHANGED <<version, ruined>>

\* The node restarts on the staged image.
Switch ==
    /\ ~ ruined
    /\ staged # None
    /\ version' = staged
    /\ staged' = None
    /\ UNCHANGED ruined

\* Another push overwrites it before that.
Ruin ==
    /\ staged # None
    /\ staged' = None
    /\ ruined' = TRUE
    /\ UNCHANGED version

\* From then on the node may come to run anything.
Adrift == ruined /\ version' \in Image /\ UNCHANGED <<staged, ruined>>

Next == (\E i \in Image : Stage(i)) \/ Switch \/ Ruin \/ Adrift

Spec == Init /\ [][Next]_<<version, staged, ruined>>
=============================================================================
