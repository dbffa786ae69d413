------------------------- MODULE MCNewsletterSystem -------------------------
(***************************************************************************)
(* Small instances of NewsletterSystem.  Addresses are 1 and 2.            *)
(***************************************************************************)
EXTENDS NewsletterSystem

CONSTANTS a1, b1, n1, s1, w1

MCEmails == {1, 2}
MCTokens == {s1}
MCAuthors == {a1}
MCBodies == {b1}
MCWorkers == {w1}

\* A title of its own, and one that equals an address.
MCTitles == {n1, 1}

AllPublishFaults == {"s3_error", "db_error", "crash"}
RedeliveryFaults == {"crash", "duplicate"}
=============================================================================
