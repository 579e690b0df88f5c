------------------------------ MODULE MCSeats ------------------------------
(* Instances of Seats for TLC. *)
EXTENDS Seats, TLC

CONSTANTS u1, u2, d1, d2

\* PCs (and accounts) are interchangeable; used in runs without liveness.
Symmetry == Permutations(Devices) \cup Permutations(Users)
=============================================================================
