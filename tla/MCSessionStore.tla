--------------------------- MODULE MCSessionStore ---------------------------
(***************************************************************************)
(* A small instance of SessionStore.                                       *)
(***************************************************************************)
EXTENDS SessionStore, TLC

CONSTANTS c1, c2, k1, k2, k3, d1, d2

MCClients == {c1, c2}
MCKeys == {k1, k2, k3}
MCData == {d1, d2}

AllFaults == StoreFaultKinds

Symmetric ==
    Permutations(MCClients) \cup Permutations(MCKeys) \cup Permutations(MCData)
=============================================================================
