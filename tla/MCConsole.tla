----------------------------- MODULE MCConsole -----------------------------
(***************************************************************************)
(* Console on a small instance: a line that fits, and one that is longer   *)
(* than the buffer, whose tail the handler runs; a command that prints two *)
(* packets, and one that waits, as "get gps reinit", before it prints.     *)
(***************************************************************************)
EXTENDS Console

MCTyped   == {<<"x", "y">>, <<"y", "x", "x", "y">>}
MCCommand == {<<2>>, <<0, 1>>}
MCBeacon  == {<<2>>}
MCLoop    == {<<0>>, <<1>>}
=============================================================================
