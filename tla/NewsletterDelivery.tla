------------------------- MODULE NewsletterDelivery -------------------------
(***************************************************************************)
(* From a stored issue to the mails: the newsletter pipe and queue, and    *)
(* the send_newsletter Lambda function, which reads the issue's body from  *)
(* the bucket, queries the index of confirmed subscribers once, and mails  *)
(* them one after the other.                                               *)
(*                                                                         *)
(* Addresses are numbers, in the order of the index's sort key.            *)
(***************************************************************************)
EXTENDS StreamQueue

CONSTANTS
    Emails,
    Titles,
    Bodies,     \* contents of an issue
    None,
    PageSize    \* how many subscribers one query returns at most (1 MB)

ASSUME NewsletterAssumption ==
    /\ Emails \subseteq Nat
    /\ None \notin Bodies
    /\ PageSize \in Nat \ {0}

VARIABLES
    confirmed,  \* the addresses the table has as confirmed
    index,      \* those GSI1 shows
    object,     \* object[t]: the body in the bucket under "t.json"
    step,       \* step[w]: the call invocation w makes next
    body,       \* body[w]: the body it has read
    recipients, \* recipients[w]: the subscribers it has still to mail
    mailbox,    \* the bag of mails the provider has delivered
    outcome,    \* outcome[t]: what handlers have made of t's records
    due,        \* the deliveries some query has asked for
    refused     \* those the provider or the client reported as failed

worldVars == <<confirmed, index, object>>
handlerVars == <<step, body, recipients>>
historyVars == <<mailbox, outcome, due, refused>>
vars == <<queueVars, worldVars, handlerVars, historyVars>>

Mails == [title: Titles, body: Bodies, to: Emails]
Deliveries == [title: Titles, to: Emails]
Calls == {"retrieve_newsletter", "get_confirmed_subscribers", "send_email"}
Outcomes == {"skipped", "no_body", "no_subscribers", "aborted", "sent"}

Init ==
    /\ QueueInit
    /\ confirmed = {}
    /\ index = {}
    /\ object = [t \in Titles |-> None]
    /\ step = [w \in Workers |-> "retrieve_newsletter"]
    /\ body = [w \in Workers |-> None]
    /\ recipients = [w \in Workers |-> {}]
    /\ mailbox = EmptyBag
    /\ outcome = [t \in Titles |-> {}]
    /\ due = {}
    /\ refused = {}

-----------------------------------------------------------------------------
(* What the API does to table and bucket, and the index that follows.      *)

SubscriberConfirmed(e) ==
    /\ confirmed' = confirmed \cup {e}
    /\ UNCHANGED <<queueVars, index, object, handlerVars, historyVars>>

IndexCatchesUp(e) ==
    /\ e \in confirmed \ index
    /\ index' = index \cup {e}
    /\ UNCHANGED <<queueVars, confirmed, object, handlerVars, historyVars>>

BodyStored(t, b) ==
    /\ object' = [object EXCEPT ![t] = b]
    /\ UNCHANGED <<queueVars, confirmed, index, handlerVars, historyVars>>

\* An issue is put after its body.
IssueStored(t) ==
    /\ object[t] # None
    /\ stream' = stream \cup {t}
    /\ UNCHANGED <<forwarded, queue, batch, pos, redeliveries>>
    /\ UNCHANGED <<worldVars, handlerVars, historyVars>>

\* The locals of handle_record when it starts with a record.
StartRecord(w) ==
    /\ step' = [step EXCEPT ![w] = "retrieve_newsletter"]
    /\ body' = [body EXCEPT ![w] = None]
    /\ recipients' = [recipients EXCEPT ![w] = {}]

-----------------------------------------------------------------------------
(* Pipe and queue.  A message carries the title, and the S3 pointer, which *)
(* is a function of it.                                                    *)

Forward(t) ==
    /\ Pipe(t, t)
    /\ UNCHANGED <<worldVars, handlerVars, historyVars>>

ReceiveAny(w) ==
    /\ Poll(w)
    /\ StartRecord(w)
    /\ UNCHANGED <<worldVars, historyVars>>

-----------------------------------------------------------------------------
(* SendNewsletterEventHandler.invoke, one call of one record at a time.    *)

\* The record is done with, and the invocation goes on to the next.
Finished(w, result) ==
    /\ outcome' = [outcome EXCEPT ![Record(w)] = @ \cup {result}]
    /\ NextRecord(w)
    /\ StartRecord(w)

Continue(w, call) ==
    /\ step' = [step EXCEPT ![w] = call]
    /\ UNCHANGED <<queueVars, outcome>>

\* parse_context_from fails: continue, without a word.
Skip(w) ==
    /\ HasRecord(w, "unparsable")
    /\ Finished(w, "skipped")
    /\ UNCHANGED <<worldVars, mailbox, due, refused>>

At(w, call) == HasRecord(w, "traced") /\ step[w] = call

\* Mutant: the error does not end the record.
retrieve_newsletter_or_none(w) ==
    /\ At(w, "retrieve_newsletter")
    /\ \/ body' = [body EXCEPT ![w] = object[Record(w)]]
       \/ "read_error" \in DeliveryFaults /\ UNCHANGED body
    /\ Continue(w, "get_confirmed_subscribers")
    /\ UNCHANGED <<recipients, worldVars, mailbox, due, refused>>

\* An error ends the record; it is logged.
retrieve_newsletter(w) ==
    /\ At(w, "retrieve_newsletter")
    /\ \/ /\ object[Record(w)] # None
          /\ body' = [body EXCEPT ![w] = object[Record(w)]]
          /\ Continue(w, "get_confirmed_subscribers")
          /\ UNCHANGED recipients
       \/ /\ object[Record(w)] = None \/ "read_error" \in DeliveryFaults
          /\ Finished(w, "no_body")
    /\ UNCHANGED <<worldVars, mailbox, due, refused>>

\* Mutant: a query without the condition on GSI1PK.
EveryAddress(S) == Emails

\* The page a query returns: of the index, in the order of its sort key, what
\* comes first.
FirstPage(S) == {e \in S : Cardinality({d \in S : d < e}) < PageSize}

\* One query, one page; an error ends the record without a trace, because
\* handle_record drops the result of send_emails_to_subscribers.
get_confirmed_subscribers(w) ==
    /\ At(w, "get_confirmed_subscribers")
    /\ \/ /\ recipients' = [recipients EXCEPT ![w] = FirstPage(index)]
          /\ due' = due \cup {[title |-> Record(w), to |-> e] :
                                e \in FirstPage(index)}
          /\ Continue(w, "send_email")
          /\ UNCHANGED body
       \/ /\ "read_error" \in DeliveryFaults
          /\ Finished(w, "no_subscribers")
          /\ UNCHANGED due
    /\ UNCHANGED <<worldVars, mailbox, refused>>

\* The loop mails the subscribers in the order in which the page has them.
IsNext(w, e) == e \in recipients[w] /\ \A d \in recipients[w] : e <= d

Deliver(w, e) ==
    mailbox' = mailbox (+) SetToBag(
        {[title |-> Record(w), body |-> body[w], to |-> e]})

\* Mutant: the loop goes on with the same subscriber.
send_email_again(w) ==
    /\ At(w, "send_email")
    /\ \/ /\ recipients[w] = {}
          /\ Finished(w, "sent")
          /\ UNCHANGED <<mailbox, refused>>
       \/ \E e \in Emails :
             /\ IsNext(w, e)
             /\ Deliver(w, e)
             /\ Continue(w, "send_email")
             /\ \/ recipients' = [recipients EXCEPT ![w] = @ \ {e}]
                \/ BagCardinality(mailbox) < 2 /\ UNCHANGED recipients
             /\ UNCHANGED <<body, refused>>
    /\ UNCHANGED <<worldVars, due>>

\* A failing mail ends the loop: the `?` leaves it, and handle_record drops the
\* error.
send_email(w) ==
    /\ At(w, "send_email")
    /\ \/ /\ recipients[w] = {}
          /\ Finished(w, "sent")
          /\ UNCHANGED <<mailbox, refused>>
       \/ \E e \in Emails :
             /\ IsNext(w, e)
             /\ Deliver(w, e)
             /\ Continue(w, "send_email")
             /\ recipients' = [recipients EXCEPT ![w] = @ \ {e}]
             /\ UNCHANGED <<body, refused>>
       \/ \E e \in Emails :
             /\ IsNext(w, e)
             /\ \/ "send_timeout" \in DeliveryFaults /\ Deliver(w, e)
                \/ "send_error" \in DeliveryFaults /\ UNCHANGED mailbox
             /\ refused' = refused \cup {[title |-> Record(w), to |-> e]}
             /\ Finished(w, "aborted")
    /\ UNCHANGED <<worldVars, due>>

Stop(w) ==
    /\ Panic(w) \/ Acknowledge(w)
    /\ UNCHANGED <<worldVars, handlerVars, historyVars>>

invoke(w) ==
    \/ Skip(w)
    \/ retrieve_newsletter(w)
    \/ get_confirmed_subscribers(w)
    \/ send_email(w)
    \/ Stop(w)

Delivery ==
    \/ \E e \in confirmed : IndexCatchesUp(e)
    \/ \E t \in stream : Forward(t)
    \/ \E w \in Workers : ReceiveAny(w) \/ invoke(w)
    \/ \E w \in Workers :
          Crash(w) /\ UNCHANGED <<worldVars, handlerVars, historyVars>>

World ==
    \/ \E e \in Emails : SubscriberConfirmed(e)
    \/ \E t \in Titles, b \in Bodies : BodyStored(t, b)
    \/ \E t \in Titles : IssueStored(t)

Next == World \/ Delivery

Spec == Init /\ [][Next]_vars

-----------------------------------------------------------------------------
(* Properties.                                                             *)

\* Invocations hold a body and subscribers when, and only when, their next
\* call needs them; the mailbox holds complete mails.
TypeOK ==
    /\ QueueTypeOK(Titles)
    /\ index \subseteq confirmed /\ confirmed \subseteq Emails
    /\ object \in [Titles -> Bodies \cup {None}]
    /\ step \in [Workers -> Calls]
    /\ body \in [Workers -> Bodies \cup {None}]
    /\ recipients \in [Workers -> SUBSET Emails]
    /\ \A w \in Workers : step[w] # "retrieve_newsletter" => body[w] # None
    /\ IsABag(mailbox) /\ BagToSet(mailbox) \subseteq Mails
    /\ outcome \in [Titles -> SUBSET Outcomes]
    /\ due \subseteq Deliveries /\ refused \subseteq due

Mailed(t, e) == \E m \in BagToSet(mailbox) : m.title = t /\ m.to = e

\* An issue is not lost before a handler has dealt with it, whatever crashes
\* and however often its message is delivered.
EveryIssueAccountedFor ==
    \A t \in stream : Waiting(t) \/ outcome[t] # {}

\* Only subscribers whose confirmation is in the table get an issue, and only
\* issues that were published are mailed, each with a body.
OnlyDueIsMailed ==
    \A m \in BagToSet(mailbox) :
        /\ m.title \in stream
        /\ m.to \in confirmed
        /\ [title |-> m.title, to |-> m.to] \in due

\* Without a crash, a panic or a duplicated message no subscriber gets an
\* issue twice, though its body be overwritten while it is mailed.
OneIssueUnlessRedelivered ==
    redeliveries = 0 =>
        \A m, n \in BagToSet(mailbox) :
            m.title = n.title /\ m.to = n.to => m = n /\ mailbox[m] = 1

\* A subscriber a query returned, and whom the issue did not reach when its
\* message is gone, was behind a mail that failed or had it fail, unless the
\* message was handled once more: then the second reading of body or table
\* may have failed, or the first page have been filled by newcomers.
LossFollowsFailure ==
    \A d \in due :
        Acknowledged(d.title) /\ ~ Mailed(d.title, d.to) =>
            \/ \E r \in refused : r.title = d.title /\ r.to <= d.to
            \/ /\ redeliveries > 0
               /\ \/ outcome[d.title] \cap {"no_body", "no_subscribers"} # {}
                  \/ Cardinality({e \in index : e < d.to}) >= PageSize

\* README.md:11: "A second Lambda function is listening to the queue send out
\* newsletter emails."  So a subscriber the function has read, and whose own
\* mail did not fail, has the issue when its message is gone.
FailureCostsOneMail ==
    \A d \in due :
        Acknowledged(d.title) => Mailed(d.title, d.to) \/ d \in refused
=============================================================================
