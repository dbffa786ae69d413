------------------------ MODULE MCNewsletterDelivery ------------------------
(***************************************************************************)
(* Small instances of NewsletterDelivery.  Addresses are 1, 2 and 3.       *)
(***************************************************************************)
EXTENDS NewsletterDelivery

CONSTANTS t1, b1, b2, w1, w2

MCEmails == {1, 2, 3}
TwoEmails == {1, 2}
OneTitle == {t1}
MCBodies == {b1, b2}
OneBody == {b1}
MCWorkers == {w1, w2}
OneWorker == {w1}

AllFaults == DeliveryFaultKinds
SendFaults == {"send_error"}
=============================================================================
