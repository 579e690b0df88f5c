---------------------------- MODULE MCSchedWindow ----------------------------
(* Instances of SchedWindow for TLC. *)
EXTENDS SchedWindow

\* The operator's clock runs behind, or is right.
OneSkew == {-1, 0}
NoSkew  == {0}
=============================================================================
