-------------------------- MODULE NewsletterSystem --------------------------
(***************************************************************************)
(* The whole way of a newsletter: authors publish, subscribers confirm,    *)
(* and the issue items in the table's stream make the send_newsletter      *)
(* function mail the subscribers in the index.                             *)
(*                                                                         *)
(* Publishing and NewsletterDelivery share the table and the bucket: the   *)
(* stream of the second is the set of issues in the table of the first.    *)
(***************************************************************************)
EXTENDS Service

CONSTANTS Authors, Bodies, PublishFaults, PageSize

VARIABLES
    object, title, content, announced,
    index, step, body, recipients, due, refused

publisherVars == <<pc, title, content, status, announced>>
sendingVars ==
    <<index, forwarded, queue, batch, pos, redeliveries,
      step, body, recipients, mailbox, outcome, due, refused>>
newsletterVars == <<table, object, publisherVars, sendingVars>>

\* Mutant: the filter on Type is left out.
IssueImagesUnfiltered(tab) == {t \in Titles : tab[t].type # "absent"}

\* The NEW_IMAGE records that pass the pipe's filter on Type.
IssueImages(tab) == {t \in Titles : tab[t].type = "NewsletterIssue"}

\* Mutant: every subscriber's item has the key of the index.
InIndexUnconfirmed(tab) == {e \in Emails : IsSubscriber(tab, e)}

\* The items with GSI1PK = "confirmed", which the index shows in time.
InIndex(tab) == {e \in Emails : IsConfirmed(tab, e)}

Issued == IssueImages(table)
Confirmed == InIndex(table)

\* skip_s3 is a setting of local runs.
Publisher == INSTANCE Publishing WITH body <- content, SkipS3 <- FALSE
Sending == INSTANCE NewsletterDelivery WITH
               stream <- Issued, confirmed <- Confirmed

\* What the two parts assume of the constants they are given.
ASSUME NewsletterSystemAssumption ==
    /\ PublishFaults \subseteq Publisher!PublishFaultKinds
    /\ None \notin Bodies
    /\ Emails \subseteq Nat
    /\ PageSize \in Nat \ {0}
    /\ BatchSize \in Nat \ {0}
    /\ DeliveryFaults \subseteq Sending!DeliveryFaultKinds
    /\ MaxRedeliveries \in Nat

NewsletterInit ==
    /\ Publisher!Init
    /\ Sending!Init

PublisherStep == Publisher!Next /\ UNCHANGED sendingVars

SendingStep ==
    /\ UNCHANGED <<table, object, publisherVars>>
    /\ Sending!Delivery

NewsletterNext == PublisherStep \/ SendingStep

NewsletterSpec == NewsletterInit /\ [][NewsletterNext]_newsletterVars

Undisturbed == UNCHANGED <<table, object, publisherVars>>

\* Pipe and event source keep polling, and an invocation runs to its end
\* unless it crashes.  Nothing is asked of the API or of the index.
SendingFairness ==
    /\ \A t \in Titles : WF_newsletterVars(Undisturbed /\ Sending!Forward(t))
    /\ WF_newsletterVars(Undisturbed /\ \E w \in Workers : Sending!ReceiveAny(w))
    /\ \A w \in Workers : WF_newsletterVars(Undisturbed /\ Sending!invoke(w))

FairNewsletterSpec == NewsletterSpec /\ SendingFairness

-----------------------------------------------------------------------------
(* Properties.                                                             *)

\* What NewsletterDelivery assumes of its surroundings is what the API does:
\* it puts an issue only after a body, takes no issue back, and nobody who
\* has confirmed ceases to be confirmed, whichever of the two puts fail.
ImplementsSending == Sending!Spec

\* No mail without consent and without an issue: it goes to an address that
\* is confirmed in the table, and its title is an issue there, although one
\* key space holds both and titles may equal addresses.
OnlyConfirmedGetIssues ==
    \A m \in BagToSet(mailbox) :
        IsConfirmed(table, m.to) /\ table[m.title].type = "NewsletterIssue"

\* A message leads its handler to a body, whatever fails between the two
\* puts: while no read fails, no record ends without one.
BodyIsFound ==
    "read_error" \notin DeliveryFaults =>
        \A t \in Titles : "no_body" \notin outcome[t]

\* From the table to the mails: an issue stored before the pipe has read it
\* reaches every subscriber the index shows by then, although invocations
\* crash, deliveries are repeated and the put of another issue fails.  (No
\* read and no mail fails, and one page holds all subscribers.)
IssueReachesIndex ==
    \A t \in Titles, e \in Emails :
        (t \in Issued \ forwarded /\ e \in index)
            ~> (\E m \in BagToSet(mailbox) : m.title = t /\ m.to = e)
=============================================================================
