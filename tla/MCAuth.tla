------------------------------- MODULE MCAuth -------------------------------
(***************************************************************************)
(* A small instance of Auth.                                               *)
(***************************************************************************)
EXTENDS Auth, TLC

CONSTANTS r1, r2, k1, k2, k3, admin, author, p1, p2

MCRequests == {r1, r2}
MCKeys == {k1, k2, k3}
MCUsers == {admin, author}
MCPasswords == {p1, p2}

MCStoreFaults == {"db_error", "lost_response", "stale_read", "key_collision"}
AllFaults == AuthFaultKinds

Symmetric == Permutations(MCRequests) \cup Permutations(MCKeys)
=============================================================================
