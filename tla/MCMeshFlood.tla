---------------------------- MODULE MCMeshFlood ----------------------------
(* MeshFlood on a line of three nodes, a - b - c.  Node a sends two messages, *)
(* or one, and one more after a restart.  Its neighbours relay to each other; *)
(* with room for one message in rxHist they may do so again and again.        *)
EXTENDS MeshFlood

CONSTANTS a, b, c

MCNode == {a, b, c}
MCLink == {<<a, b>>, <<b, a>>, <<b, c>>, <<c, b>>}

MCNext ==
    \/ seq[a] + life[a] < 2 /\ Send(a)
    \/ Restart(a) \/ Restart(c)
    \/ Channel

MCSpec == Init /\ [][MCNext]_vars /\ Fairness
============================================================================
