---------------------------- MODULE MCVanWatch ----------------------------
(* Instances of VanWatch for TLC. *)
EXTENDS VanWatch
=============================================================================
