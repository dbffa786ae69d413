--------------------------- MODULE MCSubscription ---------------------------
(***************************************************************************)
(* Small instances of Subscription.  A title equal to an address and one   *)
(* equal to a token make the three kinds of key meet.                      *)
(***************************************************************************)
EXTENDS Subscription

CONSTANTS e1, e2, t1, t2, r1, r2

MCEmails == {e1, e2}
MCTokens == {t1, t2}
MCTitles == {e2, t2}
MCRequests == {r1, r2}

OneEmail == {e1}
NoTitles == {}

AllFaults == FaultKinds
WriteFaults == {"db_error"}
=============================================================================
