----------------------- MODULE MCConfirmationDelivery -----------------------
(***************************************************************************)
(* Small instances of ConfirmationDelivery: three tokens, two              *)
(* invocations at once, batches of up to two records.                      *)
(***************************************************************************)
EXTENDS ConfirmationDelivery

CONSTANTS e1, e2, e3, t1, t2, t3, w1, w2

MCEmails == {e1, e2, e3}
MCTokens == {t1, t2, t3}

MCWorkers == {w1, w2}

AllFaults == DeliveryFaultKinds

DeliverySymmetry ==
    Permutations(MCEmails) \cup Permutations(MCTokens) \cup Permutations(MCWorkers)
=============================================================================
