----------------------------- MODULE MCUpnpDoor ----------------------------
(* Instances of UpnpDoor for TLC. *)
EXTENDS UpnpDoor, TLC
=============================================================================
