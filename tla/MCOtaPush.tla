------------------------------ MODULE MCOtaPush ------------------------------
(***************************************************************************)
(* OtaPush with an image of one chunk and one that fills the bank; with a  *)
(* single driver, with one that does not fit as well.                      *)
(***************************************************************************)
EXTENDS OtaPush

MCFitting  == {"old", "new"}
MCImage    == MCFitting \cup {"huge"}
MCSize     == [i \in MCImage |-> CASE i = "old" -> 1 [] i = "new" -> MaxSize [] OTHER -> MaxSize + 1]
MCFitSize  == [i \in MCFitting |-> MCSize[i]]
=============================================================================
