------------------------------ MODULE MCRouting ------------------------------
(***************************************************************************)
(* Routing on four nodes: b and c hear each other, c alone hears d, and a, *)
(* which hears b and c, has no room for d in a table of two entries unless *)
(* it has missed one of them.                                              *)
(***************************************************************************)
EXTENDS Routing

FourNodes == {"a", "b", "c", "d"}
Mesh == {<<"b", "a">>, <<"c", "a">>, <<"b", "c">>, <<"c", "b">>, <<"d", "c">>}
=============================================================================
