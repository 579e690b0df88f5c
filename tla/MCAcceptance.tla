---------------------------- MODULE MCAcceptance ----------------------------
(* Instances of Acceptance for TLC. *)
EXTENDS Acceptance
CONSTANTS c1, c2

\* A connection for the screen and one for files.
BothKinds == [c \in {c1, c2} |-> IF c = c1 THEN "remote" ELSE "file"]
OneRemote == [c \in {c1} |-> "remote"]
=============================================================================
