------------------------ MODULE MCSubscriptionSystem ------------------------
(***************************************************************************)
(* A small instance of SubscriptionSystem.  A title equal to an address    *)
(* makes an issue and a subscriber meet.                                   *)
(***************************************************************************)
EXTENDS SubscriptionSystem

CONSTANTS e1, e2, t1, t2, r1, w1

MCEmails == {e1, e2}
MCTokens == {t1, t2}
MCTitles == {e2}
MCRequests == {r1}
MCWorkers == {w1}

AllFaults ==
    {"db_error", "lost_response", "stale_read", "token_collision", "crash"}
RedeliveryFaults == {"crash"}
=============================================================================
