---------------------------- MODULE MCPublishing ----------------------------
(***************************************************************************)
(* Small instances of Publishing.                                          *)
(***************************************************************************)
EXTENDS Publishing, TLC

CONSTANTS a1, a2, b1, b2, e1, t1, n1

MCAuthors == {a1, a2}
OneAuthor == {a1}
MCBodies == {b1, b2}
MCEmails == {e1}
MCTokens == {t1}

\* A title of its own; and titles that equal an address and a token.
OwnTitle == {n1}
MCTitles == {e1, t1}

AllFaults == PublishFaultKinds
NoFaults == {}

Symmetric == Permutations(MCAuthors) \cup Permutations(MCBodies)
=============================================================================
