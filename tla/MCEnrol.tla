------------------------------ MODULE MCEnrol ------------------------------
(* Two PCs, the second one set up without a shop name. *)
EXTENDS Enrol

CONSTANTS d1, d2

MCFirstShop == [d \in Devices |-> IF d = d1 THEN "a" ELSE "none"]
============================================================================
