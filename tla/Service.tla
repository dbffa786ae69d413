------------------------------ MODULE Service ------------------------------
(***************************************************************************)
(* What the two ways through the service, SubscriptionSystem and           *)
(* NewsletterSystem, have in common: the table and the handlers of the     *)
(* API on one side, a pipe, a queue and the invocations of a mail sender   *)
(* on the other.                                                           *)
(***************************************************************************)
EXTENDS NewsletterTable, Naturals, Bags

CONSTANTS Workers, BatchSize, DeliveryFaults, MaxRedeliveries

VARIABLES
    table, pc, status,
    forwarded, queue, batch, pos, mailbox, outcome, redeliveries
=============================================================================
