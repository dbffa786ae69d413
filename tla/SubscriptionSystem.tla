------------------------- MODULE SubscriptionSystem -------------------------
(***************************************************************************)
(* The whole way of a subscription: the API's handlers, the table they     *)
(* write, the delivery of confirmation links from the table's stream, and  *)
(* the requests to confirm, made with the link in a mail or otherwise.     *)
(*                                                                         *)
(* Subscription and ConfirmationDelivery share nothing but the table: the  *)
(* stream of the second is the set of token items in the table of the      *)
(* first.                                                                  *)
(***************************************************************************)
EXTENDS Service

CONSTANTS Requests, Faults

VARIABLES
    handler, subscriber, token,
    unmailed    \* history: the keys that requests to confirm came with and
                \* that no mail had carried as its token by then

apiVars == <<table, pc, handler, subscriber, token, status, unmailed>>
deliveryVars == <<forwarded, queue, batch, pos, mailbox, outcome, redeliveries>>
vars == <<apiVars, deliveryVars>>

\* Mutant: the filter lets the subscriber's own item through as well.
TokenImagesUnfiltered(tab) ==
    {[token |-> k, email |-> tab[k].email] :
        k \in {u \in Keys : tab[u].type \in {"Subscriber", "SubscriberToken"}}}

\* The stream's NEW_IMAGE records that pass the pipe's filter on Type.
TokenImages(tab) ==
    {[token |-> t, email |-> tab[t].email] :
        t \in {u \in Tokens : tab[u].type = "SubscriberToken"}}

Images == TokenImages(table)

Api == INSTANCE Subscription
Mailing == INSTANCE ConfirmationDelivery WITH stream <- Images

\* What the two parts assume of the constants they are given.
ASSUME SystemAssumption ==
    /\ Faults \subseteq Api!FaultKinds
    /\ BatchSize \in Nat \ {0}
    /\ DeliveryFaults \subseteq Mailing!DeliveryFaultKinds
    /\ MaxRedeliveries \in Nat

Init ==
    /\ Api!Init
    /\ Mailing!Init
    /\ unmailed = {}

\* The route is open: a request to confirm comes with a link's token or with
\* any other key, and the handler cannot tell the one from the other.
ConfirmRequest(r) ==
    \E k \in Keys :
        /\ Api!Confirm(r, k)
        /\ unmailed' = unmailed \cup ({k} \ {m.token : m \in BagToSet(mailbox)})

OtherApiStep ==
    \/ \E r \in Requests :
          \/ Api!SubscribeInvalid(r)
          \/ \E e \in Emails : Api!Subscribe(r, e)
          \/ Api!Step(r)
          \/ Api!Crash(r)
    \/ \E k \in Titles : Api!store_issue_in_dynamo(k)

ApiStep ==
    /\ \/ \E r \in Requests : ConfirmRequest(r)
       \/ OtherApiStep /\ UNCHANGED unmailed
    /\ UNCHANGED deliveryVars

DeliveryStep ==
    /\ UNCHANGED apiVars
    /\ Mailing!Delivery

Next == ApiStep \/ DeliveryStep

Spec == Init /\ [][Next]_vars

\* Pipe and event source keep polling, and an invocation runs to its end
\* unless it crashes.  Nothing is asked of the API.
Fairness ==
    /\ \A i \in [token: Tokens, email: Emails] :
          WF_vars(UNCHANGED apiVars /\ Mailing!Forward(i))
    /\ WF_vars(UNCHANGED apiVars /\ \E w \in Workers : Mailing!ReceiveAny(w))
    /\ \A w \in Workers : WF_vars(UNCHANGED apiVars /\ Mailing!invoke(w))

FairSpec == Spec /\ Fairness

-----------------------------------------------------------------------------
(* Properties.                                                             *)

\* What ConfirmationDelivery assumes of its surroundings is what the API
\* does: the table gives the stream each token once, and no address two.
ImplementsDelivery == Mailing!Spec

\* e was confirmed without a mail, if it was, by whoever sent the address, or
\* its token before a mail carried it.
SentOwnKey(e) == \E k \in unmailed : k = e \/ IsTokenOf(table, k, e)

\* What confirms an address: a link with its own token was mailed to it, or
\* somebody sent its own token or the address itself without having it from a
\* mail.  (The lookup takes an address for a token, so that the second is no
\* less a way than the first.)  Nothing else does, whatever is asked for: no
\* other address's link or key, no title, no misdirected mail.
ConfirmedByMailOrOwnKey ==
    \A e \in Emails :
        IsConfirmed(table, e) =>
            \/ \E m \in BagToSet(mailbox) : m.to = e /\ IsTokenOf(table, m.token, e)
            \/ SentOwnKey(e)

\* Every mailed link works: its token is in the table, under the address the
\* mail went to, and that address is a subscriber, so that following it
\* confirms the person who was asked.
MailedLinkWorks ==
    \A m \in BagToSet(mailbox) :
        /\ IsTokenOf(table, m.token, m.to)
        /\ IsSubscriber(table, m.to)

\* A subscription answered 200 is not lost unseen, whatever fails on either
\* side of the stream: its link was mailed to its address, or its token is on
\* its way, or a handler gave its record up, failed or skipped.
OkIsNotLost ==
    \A r \in Requests :
        pc[r] = "answered" /\ status[r] = 200 /\ handler[r] = "subscribe" =>
            LET i == [token |-> token[r], email |-> subscriber[r]]
            IN  \/ Mailing!Mailed(i)
                \/ Mailing!Waiting(i)
                \/ outcome[i.token] \cap {"failed", "skipped"} # {}

\* From the form to the mail: the address of a subscription answered 200 is
\* mailed a link in the end, whatever failed in other requests, and although
\* invocations crash and deliveries are repeated.  (No mail is refused.)
OkIsMailed ==
    \A e \in Emails :
        (\E r \in Requests :
            /\ pc[r] = "answered" /\ status[r] = 200
            /\ handler[r] = "subscribe" /\ subscriber[r] = e)
                ~> (\E m \in BagToSet(mailbox) : m.to = e)
=============================================================================
