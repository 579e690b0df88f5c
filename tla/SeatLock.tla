----------------------------- MODULE SeatLock ------------------------------
(***************************************************************************)
(* What seat enforcement promises, without tokens, requests or time: an    *)
(* account is a lock that one PC owns at a time, and only its owner uses   *)
(* it.  A lock that changes hands is used by nobody at that moment, so the *)
(* previous PC is shut out before the next one is let in.                  *)
(***************************************************************************)
CONSTANTS
    Users,    \* accounts
    Devices,  \* PCs
    NoDevice  \* nowhere

VARIABLES
    owner,    \* the PC whose login is the account's valid one
    holder    \* the PC that the server accepts for the account right now

vars == <<owner, holder>>

Places == Devices \cup {NoDevice}

Init ==
    /\ owner = [u \in Users |-> NoDevice]
    /\ holder = [u \in Users |-> NoDevice]

\* A login at p, or (p = NoDevice) a logout or a revocation.
Move(u, p) ==
    /\ owner' = [owner EXCEPT ![u] = p]
    /\ holder' = [holder EXCEPT ![u] = NoDevice]

\* Owners come and go (an answer arrives, a token expires, the dealer is
\* suspended); a PC acts for one account at a time.
Use(h) ==
    /\ \A u \in Users : h[u] \in {owner[u], NoDevice}
    /\ \A u, v \in Users : h[u] = h[v] /\ h[u] # NoDevice => u = v
    /\ holder' = h
    /\ UNCHANGED owner

Next ==
    \/ \E u \in Users, p \in Places : Move(u, p)
    \/ \E h \in [Users -> Places] : Use(h)

Spec == Init /\ [][Next]_vars
=============================================================================
