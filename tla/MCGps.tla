------------------------------- MODULE MCGps -------------------------------
(* The GPS receiver with two sentences, a ring that holds two bytes, a line *)
(* that just holds a sentence, one fault of the line and one command.       *)
EXTENDS Gps

\* A position with a fix, and the loss of it.
McSentence == {<<GGA, 2, 1>>, <<RMC, 0, 0>>}
McNoise == {3, Newline}

\* At the first byte of a sentence, or amid its fields.
McResumed == {1, 4}
=============================================================================
