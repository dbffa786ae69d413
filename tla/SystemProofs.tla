---------------------------- MODULE SystemProofs ----------------------------
(***************************************************************************)
(* The two ways through the service proved: SubscriptionSystem, then       *)
(* NewsletterSystem, for any number of requests, authors, addresses,       *)
(* tokens, titles and invocations, any page size, and any failures on both *)
(* sides of the stream.                                                    *)
(*                                                                         *)
(* The inductive invariants of the components are taken as they were       *)
(* proved.  What is left to show is that a step of a system is a step of   *)
(* each of its components, and the facts that belong to neither: what      *)
(* confirms an address, and that a message leads to a body.                *)
(***************************************************************************)
EXTENDS SubscriptionSystem, NewsletterSystem, Sequences, TLAPS

ApiProofs == INSTANCE SubscriptionProofs
MailingProofs == INSTANCE ConfirmationDeliveryProofs WITH stream <- Images

-----------------------------------------------------------------------------
(* SubscriptionSystem.  The components' proofs are about instances of      *)
(* their own, which have the same definitions as those it is made of.      *)

LEMMA SameApi ==
    /\ Api!Init <=> ApiProofs!Init
    /\ Api!Next <=> ApiProofs!Next
BY DEF Api!Init, ApiProofs!Init, Api!EmptyTable, ApiProofs!EmptyTable,
        Api!NoItem, ApiProofs!NoItem, Api!Keys, ApiProofs!Keys, Api!Next,
        ApiProofs!Next, Api!locals, ApiProofs!locals, Api!Arrive,
        ApiProofs!Arrive, Api!Step, ApiProofs!Step, Api!Crash,
        ApiProofs!Crash, Api!SubscribeInvalid, ApiProofs!SubscribeInvalid,
        Api!Subscribe, ApiProofs!Subscribe, Api!Confirm, ApiProofs!Confirm,
        Api!insert_subscriber, ApiProofs!insert_subscriber,
        Api!store_token, ApiProofs!store_token,
        Api!get_subscriber_id_from_token,
        ApiProofs!get_subscriber_id_from_token, Api!confirm_subscriber,
        ApiProofs!confirm_subscriber, Api!store_issue_in_dynamo,
        ApiProofs!store_issue_in_dynamo, Api!Free, ApiProofs!Free,
        Api!Calls, ApiProofs!Calls, Api!Call, ApiProofs!Call, Api!Answer,
        ApiProofs!Answer, Api!Drop, ApiProofs!Drop, Api!Put, ApiProofs!Put,
        Api!PutIfAbsent, ApiProofs!PutIfAbsent, Api!KeyIsFree,
        ApiProofs!KeyIsFree, Api!NewSubscriberItem,
        ApiProofs!NewSubscriberItem, Api!ConfirmedSubscriberItem,
        ApiProofs!ConfirmedSubscriberItem, Api!TokenItem,
        ApiProofs!TokenItem, Api!IssueItem, ApiProofs!IssueItem

LEMMA SamePipe ==
    ASSUME NEW i, NEW m
    PROVE  Mailing!Pipe(i, m) <=> MailingProofs!Pipe(i, m)
BY DEF Mailing!Pipe, MailingProofs!Pipe, Mailing!MessageForms,
        MailingProofs!MessageForms, Mailing!Forms, MailingProofs!Forms,
        Mailing!Redelivers, MailingProofs!Redelivers, Mailing!SetToBag,
        MailingProofs!SetToBag, Mailing!(+), MailingProofs!(+)

LEMMA SamePoll ==
    ASSUME NEW w
    PROVE  Mailing!Poll(w) <=> MailingProofs!Poll(w)
BY DEF Mailing!Poll, MailingProofs!Poll, Mailing!Receive,
        MailingProofs!Receive, Mailing!Running, MailingProofs!Running,
        Mailing!Redelivers, MailingProofs!Redelivers, Mailing!SeqOf,
        MailingProofs!SeqOf, Mailing!BagToSet, MailingProofs!BagToSet,
        Mailing!ToBag, MailingProofs!ToBag, Mailing!Range,
        MailingProofs!Range, Mailing!Cardinality,
        MailingProofs!Cardinality, Mailing!(-), MailingProofs!(-),
        Mailing!\sqsubseteq, MailingProofs!\sqsubseteq

LEMMA SameFail ==
    ASSUME NEW w
    PROVE  Mailing!Fail(w) <=> MailingProofs!Fail(w)
BY DEF Mailing!Fail, MailingProofs!Fail, Mailing!ToBag,
        MailingProofs!ToBag, Mailing!Range, MailingProofs!Range,
        Mailing!Cardinality, MailingProofs!Cardinality, Mailing!(+),
        MailingProofs!(+)

LEMMA SameInvocation ==
    ASSUME NEW w
    PROVE  /\ Mailing!invoke(w) <=> MailingProofs!invoke(w)
           /\ Mailing!Crash(w) <=> MailingProofs!Crash(w)
BY SameFail
    DEF Mailing!invoke, MailingProofs!invoke, Mailing!Crash,
        MailingProofs!Crash, Mailing!Skip, MailingProofs!Skip,
        Mailing!handle, MailingProofs!handle, Mailing!Stop,
        MailingProofs!Stop, Mailing!Panic, MailingProofs!Panic,
        Mailing!Acknowledge, MailingProofs!Acknowledge, Mailing!Running,
        MailingProofs!Running, Mailing!HasRecord, MailingProofs!HasRecord,
        Mailing!Record, MailingProofs!Record, Mailing!Finished,
        MailingProofs!Finished, Mailing!NextRecord,
        MailingProofs!NextRecord, Mailing!Redelivers,
        MailingProofs!Redelivers, Mailing!Deliver, MailingProofs!Deliver,
        Mailing!Link, MailingProofs!Link, Mailing!SetToBag,
        MailingProofs!SetToBag, Mailing!(+), MailingProofs!(+)

LEMMA SameMailing ==
    /\ Mailing!Init <=> MailingProofs!Init
    /\ Mailing!Next <=> MailingProofs!Next
<1>1. Mailing!Init <=> MailingProofs!Init
    BY DEF Mailing!Init, MailingProofs!Init, Mailing!QueueInit,
            MailingProofs!QueueInit, Mailing!EmptyBag, MailingProofs!EmptyBag,
            Mailing!SetToBag, MailingProofs!SetToBag
<1>2. Mailing!Next <=> MailingProofs!Next
    BY SamePipe, SamePoll, SameInvocation
        DEF Mailing!Next, MailingProofs!Next, Mailing!Delivery,
            MailingProofs!Delivery, Mailing!TokenStored,
            MailingProofs!TokenStored, Mailing!Forward, MailingProofs!Forward,
            Mailing!Message, MailingProofs!Message, Mailing!Images,
            MailingProofs!Images, Mailing!ReceiveAny, MailingProofs!ReceiveAny
<1>3. QED
    BY <1>1, <1>2

-----------------------------------------------------------------------------
(* The inductive invariant.                                                *)

\* e was mailed a link.
WasMailed(e) == \E m \in BagToSet(mailbox) : m.to = e

\* A request to confirm has its token from a mail, or has sent it unmailed;
\* the address it is about to confirm is the one that mail went to, or one of
\* which the key it sent is a token or the address itself; and what is
\* confirmed in the table came by one of these ways.
LinkInv ==
    /\ unmailed \subseteq Keys
    /\ \A r \in Requests :
          /\ pc[r] = "get_subscriber_id_from_token" =>
                \/ token[r] \in unmailed
                \/ \E m \in BagToSet(mailbox) : m.token = token[r]
          /\ pc[r] = "confirm_subscriber" =>
                WasMailed(subscriber[r]) \/ SentOwnKey(subscriber[r])
    /\ \A e \in Emails :
          IsConfirmed(table, e) => WasMailed(e) \/ SentOwnKey(e)

IInv == ApiProofs!IInv /\ MailingProofs!IInv /\ LinkInv

\* Some of what the components' invariants say, in the system's own terms.
LEMMA WhatHolds ==
    ASSUME IInv
    PROVE  /\ table \in [Keys -> Items]
           /\ DOMAIN pc = Requests
           /\ subscriber \in [Requests -> Emails \cup {None}]
           /\ token \in [Requests -> Keys \cup {None}]
           /\ IsABag(mailbox)
           /\ \A k \in Keys :
                 IsSubscriber(table, k) => k \in Emails /\ table[k].email = k
           /\ \A k \in Keys :
                 table[k].type = "SubscriberToken" => table[k].email \in Emails
           /\ \A r \in Requests :
                 pc[r] = "confirm_subscriber" => subscriber[r] \in Emails
           /\ \A m \in BagToSet(mailbox) :
                 /\ m.token \in Tokens /\ m.to \in Emails
                 /\ IsTokenOf(table, m.token, m.to)
                 /\ IsSubscriber(table, m.to)
<1>1. ApiProofs!TypeOK /\ ApiProofs!TokenOwnerIsSubscriber
    BY DEF IInv, ApiProofs!IInv, ApiProofs!TypeInv, ApiProofs!TokenInv
<1>2. /\ table \in [Keys -> Items]
      /\ DOMAIN pc = Requests
      /\ subscriber \in [Requests -> Emails \cup {None}]
      /\ token \in [Requests -> Keys \cup {None}]
    BY <1>1
    DEF ApiProofs!TypeOK, ApiProofs!Keys, ApiProofs!Items, ApiProofs!ItemTypes,
        ApiProofs!Calls, Keys, Items, ItemTypes
<1>3. /\ \A k \in Keys :
            IsSubscriber(table, k) => k \in Emails /\ table[k].email = k
      /\ \A k \in Keys :
            table[k].type = "SubscriberToken" => table[k].email \in Emails
      /\ \A r \in Requests :
            pc[r] = "confirm_subscriber" => subscriber[r] \in Emails
    BY DEF IInv, ApiProofs!IInv, ApiProofs!TypeInv, ApiProofs!ItemsOK,
           ApiProofs!LocalsOK, ApiProofs!Keys, Keys, IsSubscriber
<1>4. IsABag(mailbox) /\ MailingProofs!MailMatchesToken
    BY DEF IInv, MailingProofs!IInv, MailingProofs!TypeOK,
           MailingProofs!HistoryInv, MailingProofs!IsABag, IsABag
<1>5. ASSUME NEW m \in BagToSet(mailbox)
      PROVE  /\ m.token \in Tokens /\ m.to \in Emails
             /\ IsTokenOf(table, m.token, m.to)
             /\ IsSubscriber(table, m.to)
    <2>1. [token |-> m.token, email |-> m.to] \in Images
        BY <1>4 DEF MailingProofs!MailMatchesToken, MailingProofs!BagToSet, BagToSet
    <2>2. m.token \in Tokens /\ IsTokenOf(table, m.token, m.to)
        BY <2>1 DEF Images, TokenImages, IsTokenOf
    <2>3. QED
        BY <1>1, <2>2
        DEF ApiProofs!TokenOwnerIsSubscriber, ApiProofs!IsSubscriber,
            IsSubscriber, IsTokenOf
<1>6. QED
    BY <1>2, <1>3, <1>4, <1>5

LEMMA InitInv == Init => IInv
<1> SUFFICES ASSUME Init
             PROVE  IInv
    OBVIOUS
<1>1. ApiProofs!Init /\ MailingProofs!Init
    BY SameApi, SameMailing DEF Init
<1>2. ApiProofs!IInv
    BY <1>1, ApiProofs!InitTypeInv, ApiProofs!InitTokenInv, ApiProofs!InitOkIsDurable,
       KeyAssumption, SystemAssumption
    DEF ApiProofs!IInv, Api!FaultKinds, ApiProofs!FaultKinds, Keys,
        ApiProofs!Keys
<1>3. MailingProofs!IInv
    BY <1>1, MailingProofs!InitInv, SystemAssumption
    DEF Mailing!DeliveryFaultKinds, MailingProofs!DeliveryFaultKinds
<1>4. LinkInv
    BY <1>1
    DEF Init, ApiProofs!Init, ApiProofs!EmptyTable, ApiProofs!NoItem, ApiProofs!Keys,
        LinkInv, IsConfirmed, IsSubscriber
<1>5. QED
    BY <1>2, <1>3, <1>4 DEF IInv

-----------------------------------------------------------------------------
(* A step of the system is a step of each component.                       *)

LEMMA StepOfApi == IInv /\ [Next]_vars => [ApiProofs!Next]_(ApiProofs!vars)
<1> SUFFICES ASSUME IInv, [Next]_vars
             PROVE  Api!Next \/ UNCHANGED Api!vars
    BY SameApi DEF Api!vars, ApiProofs!vars
<1>1. CASE UNCHANGED vars
    BY <1>1 DEF vars, apiVars, Api!vars
<1>2. CASE DeliveryStep
    BY <1>2 DEF DeliveryStep, apiVars, Api!vars
<1>3. CASE ApiStep
    BY <1>3
    DEF ApiStep, ConfirmRequest, OtherApiStep, Api!Next, Api!Arrive, Keys,
        Api!Keys
<1>4. QED
    BY <1>1, <1>2, <1>3 DEF Next

\* The table is all the mail sender sees of the API.  A step of the API
\* leaves the stream as it is or adds an image, with a token and for an
\* address that have none yet.
LEMMA StreamStep ==
    ASSUME ApiProofs!IInv, [ApiProofs!Next]_(ApiProofs!vars)
    PROVE  \/ UNCHANGED Images
           \/ \E i \in MailingProofs!Images :
                 /\ \A j \in Images : j.token # i.token /\ j.email # i.email
                 /\ Images' = Images \cup {i}
<1> USE KeyAssumption
    DEF Images, TokenImages, Keys, ApiProofs!Keys, ApiProofs!Put,
        ApiProofs!KeyIsFree, ApiProofs!IsSubscriber, ApiProofs!IsTokenOf
<1>1. ApiProofs!TableStep
    BY ApiProofs!StepTableStep, SystemAssumption
    DEF ApiProofs!IInv, Api!FaultKinds, ApiProofs!FaultKinds
<1>2. table \in [Keys -> ApiProofs!Items]
    BY DEF ApiProofs!IInv, ApiProofs!TypeInv, ApiProofs!TypeOK
<1>3. CASE UNCHANGED table
    BY <1>3
<1>4. ASSUME NEW e \in Emails, ApiProofs!Registers(e) \/ ApiProofs!Confirms(e)
      PROVE  UNCHANGED Images
    <2>1. \A t \in Tokens : table'[t] = table[t]
        BY <1>2, <1>4 DEF ApiProofs!Registers, ApiProofs!Confirms
    <2>2. QED
        BY <2>1
<1>5. ASSUME NEW k \in Titles, ApiProofs!Publishes(k)
      PROVE  UNCHANGED Images
    <2>1. \A t \in Tokens :
             \/ table'[t] = table[t]
             \/ table[t].type = "absent" /\ table'[t].type = "NewsletterIssue"
        BY <1>2, <1>5 DEF ApiProofs!Publishes, ApiProofs!IssueItem
    <2>2. QED
        BY <2>1
<1>6. ASSUME NEW e \in Emails, NEW t \in Tokens, ApiProofs!Links(e, t)
      PROVE  \E i \in MailingProofs!Images :
                /\ \A j \in Images : j.token # i.token /\ j.email # i.email
                /\ Images' = Images \cup {i}
    <2> DEFINE i == [token |-> t, email |-> e]
    <2>1. /\ table[t].type = "absent"
          /\ table'[t].type = "SubscriberToken" /\ table'[t].email = e
          /\ \A u \in Tokens \ {t} : table'[u] = table[u]
          /\ \A u \in Tokens : ~ (table[u].type = "SubscriberToken" /\ table[u].email = e)
        BY <1>2, <1>6 DEF ApiProofs!Links, ApiProofs!TokenItem
    <2>2. Images' = Images \cup {i}
        BY <2>1
    <2>3. \A j \in Images : j.token # i.token /\ j.email # i.email
        BY <2>1
    <2>4. i \in MailingProofs!Images
        BY DEF MailingProofs!Images
    <2>5. QED
        BY <2>2, <2>3, <2>4
<1>7. QED
    BY <1>1, <1>3, <1>4, <1>5, <1>6 DEF ApiProofs!TableStep

LEMMA StepOfMailing ==
    IInv /\ [Next]_vars => [MailingProofs!Next]_(MailingProofs!vars)
<1> SUFFICES ASSUME IInv, [Next]_vars
             PROVE  Mailing!Next \/ UNCHANGED Mailing!vars
    BY SameMailing DEF Mailing!vars, Mailing!queueVars, MailingProofs!vars,
                       MailingProofs!queueVars
<1>1. CASE DeliveryStep
    BY <1>1 DEF DeliveryStep, Mailing!Next
<1>2. CASE UNCHANGED deliveryVars
    <2>1. \/ UNCHANGED Images
          \/ \E i \in MailingProofs!Images :
                /\ \A j \in Images : j.token # i.token /\ j.email # i.email
                /\ Images' = Images \cup {i}
        BY StepOfApi, StreamStep DEF IInv
    <2>2. QED
        BY <1>2, <2>1
        DEF deliveryVars, Mailing!vars, Mailing!queueVars, Mailing!Next,
            Mailing!TokenStored, Mailing!Images, MailingProofs!Images
<1>3. QED
    BY <1>1, <1>2 DEF Next, ApiStep, vars

-----------------------------------------------------------------------------
(* What leads to a confirmation.                                           *)

\* No mail is ever taken back.
LEMMA MailboxGrows ==
    ASSUME IInv, [Next]_vars
    PROVE  BagToSet(mailbox) \subseteq BagToSet(mailbox')
<1>1. IsABag(mailbox)
    BY WhatHolds
<1>2. CASE UNCHANGED mailbox
    BY <1>2
<1>3. ASSUME NEW w \in Workers, Mailing!Deliver(w)
      PROVE  BagToSet(mailbox) \subseteq BagToSet(mailbox')
    BY <1>1, <1>3
    DEF Mailing!Deliver, Mailing!(+), Mailing!SetToBag, BagToSet, IsABag
<1>4. UNCHANGED mailbox \/ \E w \in Workers : Mailing!Deliver(w)
    BY DEF Next, ApiStep, DeliveryStep, vars, deliveryVars, Mailing!Delivery,
           Mailing!Forward, Mailing!ReceiveAny, Mailing!invoke, Mailing!Skip,
           Mailing!handle, Mailing!Stop
<1>5. QED
    BY <1>2, <1>3, <1>4

\* A token stays its subscriber's, so what excused a confirmation once does so
\* for ever.
LEMMA ExcusesLast ==
    ASSUME IInv, [Next]_vars, NEW e \in Emails, SentOwnKey(e)
    PROVE  SentOwnKey(e)'
<1>1. unmailed \subseteq unmailed'
    BY DEF Next, ApiStep, ConfirmRequest, DeliveryStep, vars, apiVars
<1>2. ASSUME NEW k \in Keys, IsTokenOf(table, k, e)
      PROVE  IsTokenOf(table', k, e)
    <2>1. ApiProofs!TableStep
        BY StepOfApi, ApiProofs!StepTableStep, KeyAssumption, SystemAssumption
        DEF IInv, ApiProofs!IInv, Api!FaultKinds, ApiProofs!FaultKinds, Keys,
            ApiProofs!Keys
    <2>2. table'[k].type = table[k].type /\ table'[k].email = table[k].email
        BY <1>2, <2>1, WhatHolds, KeyAssumption
        DEF IsTokenOf, IsSubscriber, Keys, ApiProofs!Keys,
            ApiProofs!TableStep, ApiProofs!Registers, ApiProofs!Confirms,
            ApiProofs!Links, ApiProofs!Publishes, ApiProofs!Put,
            ApiProofs!KeyIsFree, ApiProofs!IsSubscriber
    <2>3. QED
        BY <1>2, <2>2 DEF IsTokenOf
<1>3. PICK k \in unmailed : k = e \/ IsTokenOf(table, k, e)
    BY DEF SentOwnKey
<1>4. k \in Keys
    BY <1>3 DEF IInv, LinkInv
<1>5. QED
    BY <1>1, <1>2, <1>3, <1>4 DEF SentOwnKey

LEMMA StepLinkInv == IInv /\ [Next]_vars => LinkInv'
<1> SUFFICES ASSUME IInv, [Next]_vars
             PROVE  LinkInv'
    OBVIOUS
<1>1. \A e \in Emails :
         WasMailed(e) \/ SentOwnKey(e) => WasMailed(e)' \/ SentOwnKey(e)'
    BY MailboxGrows, ExcusesLast DEF WasMailed
<1> USE WhatHolds, <1>1 DEF IInv, LinkInv
<1>2. CASE UNCHANGED apiVars
    BY <1>2, MailboxGrows DEF apiVars
<1> SUFFICES ASSUME ApiStep
             PROVE  LinkInv'
    BY <1>2 DEF Next, DeliveryStep, vars
<1>3. UNCHANGED mailbox
    BY DEF ApiStep, deliveryVars
<1> USE <1>3, KeyAssumption
    DEF Api!Free, Api!Call, Api!Answer, Api!Drop, Api!Put, Api!PutIfAbsent,
        Api!locals, Api!KeyIsFree, Keys, IsConfirmed, IsSubscriber, IsTokenOf
<1>4. ASSUME NEW r \in Requests, Api!SubscribeInvalid(r), UNCHANGED unmailed
      PROVE  LinkInv'
    BY <1>4 DEF Api!SubscribeInvalid
<1>5. ASSUME NEW r \in Requests, NEW e \in Emails, Api!Subscribe(r, e),
             UNCHANGED unmailed
      PROVE  LinkInv'
    BY <1>5 DEF Api!Subscribe
<1>6. ASSUME NEW r \in Requests, ConfirmRequest(r)
      PROVE  LinkInv'
    BY <1>6 DEF ConfirmRequest, Api!Confirm
<1>7. ASSUME NEW r \in Requests, Api!insert_subscriber(r), UNCHANGED unmailed
      PROVE  LinkInv'
    BY <1>7 DEF Api!insert_subscriber, Api!NewSubscriberItem
<1>8. ASSUME NEW r \in Requests, Api!store_token(r), UNCHANGED unmailed
      PROVE  LinkInv'
    BY <1>8 DEF Api!store_token, Api!TokenItem
<1>9. ASSUME NEW r \in Requests, Api!get_subscriber_id_from_token(r),
             UNCHANGED unmailed
      PROVE  LinkInv'
    <2>1. ASSUME pc'[r] = "confirm_subscriber"
          PROVE  /\ subscriber'[r] \in Emails
                 /\ WasMailed(subscriber'[r]) \/ SentOwnKey(subscriber'[r])
        <3>1. /\ pc[r] = "get_subscriber_id_from_token"
              /\ table[token[r]].type \in {"Subscriber", "SubscriberToken"}
              /\ subscriber'[r] = table[token[r]].email
            BY <1>9, <2>1 DEF Api!get_subscriber_id_from_token
        <3>2. CASE token[r] \in unmailed
            <4>1. subscriber'[r] \in Emails
                BY <3>1, <3>2
            <4>2. \/ token[r] = subscriber'[r]
                  \/ IsTokenOf(table, token[r], subscriber'[r])
                BY <3>1, <3>2
            <4>3. QED
                BY <3>2, <4>1, <4>2 DEF SentOwnKey
        <3>3. ASSUME NEW m \in BagToSet(mailbox), m.token = token[r]
              PROVE  subscriber'[r] = m.to /\ m.to \in Emails
            BY <3>1, <3>3
        <3>4. QED
            BY <3>1, <3>2, <3>3 DEF WasMailed
    <2>2. QED
        BY <1>9, <2>1 DEF Api!get_subscriber_id_from_token
<1>10. ASSUME NEW r \in Requests, Api!confirm_subscriber(r), UNCHANGED unmailed
       PROVE  LinkInv'
    BY <1>10 DEF Api!confirm_subscriber, Api!ConfirmedSubscriberItem
<1>11. ASSUME NEW r \in Requests, Api!Crash(r), UNCHANGED unmailed
       PROVE  LinkInv'
    BY <1>11 DEF Api!Crash
<1>12. ASSUME NEW k \in Titles, Api!store_issue_in_dynamo(k), UNCHANGED unmailed
       PROVE  LinkInv'
    BY <1>12 DEF Api!store_issue_in_dynamo, Api!IssueItem
<1>13. QED
    BY <1>4, <1>5, <1>6, <1>7, <1>8, <1>9, <1>10, <1>11, <1>12
    DEF ApiStep, OtherApiStep, Api!Step

-----------------------------------------------------------------------------
(* Theorems.                                                               *)

LEMMA StepInv == IInv /\ [Next]_vars => IInv'
<1> SUFFICES ASSUME IInv, [Next]_vars
             PROVE  IInv'
    OBVIOUS
<1>1. ApiProofs!IInv'
    BY StepOfApi, ApiProofs!StepTypeInv, ApiProofs!StepTokenInv,
       ApiProofs!StepOkIsDurable, KeyAssumption, SystemAssumption
    DEF IInv, ApiProofs!IInv, Api!FaultKinds, ApiProofs!FaultKinds, Keys,
        ApiProofs!Keys
<1>2. MailingProofs!IInv'
    BY StepOfMailing, MailingProofs!StepInv, SystemAssumption
    DEF IInv, Mailing!DeliveryFaultKinds, MailingProofs!DeliveryFaultKinds
<1>3. QED
    BY <1>1, <1>2, StepLinkInv DEF IInv

LEMMA Invariance == Spec => []IInv
BY InitInv, StepInv, PTL DEF Spec

\* What the API makes of its table is a stream as ConfirmationDelivery takes
\* it: each token once, and no address twice.
THEOREM RefinesDelivery == Spec => ImplementsDelivery
<1>1. Init => Mailing!Init
    BY DEF Init
<1>2. IInv /\ [Next]_vars => [Mailing!Next]_(Mailing!vars)
    BY StepOfMailing, SameMailing
    DEF Mailing!vars, Mailing!queueVars, MailingProofs!vars,
        MailingProofs!queueVars
<1>3. QED
    BY <1>1, <1>2, Invariance, PTL DEF Spec, ImplementsDelivery, Mailing!Spec

\* What confirms an address is a link with its token mailed to it, or that
\* token or the address itself sent by whoever did not have it from a mail:
\* for any number of requests with any keys.
THEOREM ConfirmedByMailOrKey == Spec => []ConfirmedByMailOrOwnKey
<1>1. ASSUME IInv, NEW e \in Emails, IsConfirmed(table, e), ~ SentOwnKey(e)
      PROVE  \E m \in BagToSet(mailbox) : m.to = e /\ IsTokenOf(table, m.token, e)
    BY <1>1, WhatHolds DEF IInv, LinkInv, WasMailed
<1>2. IInv => ConfirmedByMailOrOwnKey
    BY <1>1 DEF ConfirmedByMailOrOwnKey
<1>3. QED
    BY <1>2, Invariance, PTL

\* Every link that was mailed confirms the subscriber it was mailed to.
THEOREM LinksWork == Spec => []MailedLinkWorks
<1>1. IInv => MailedLinkWorks
    BY WhatHolds DEF MailedLinkWorks
<1>2. QED
    BY <1>1, Invariance, PTL

-----------------------------------------------------------------------------
PublishProofs == INSTANCE PublishingProofs WITH
                     body <- content, SkipS3 <- FALSE
SendingProofs == INSTANCE NewsletterDeliveryProofs WITH
                     stream <- Issued, confirmed <- Confirmed

\* A subscription answered 200 has stored its token (AnswersLast), the token
\* is in the stream, and a handler that says it was mailed speaks the truth.
THEOREM OkNotLost == Spec => []OkIsNotLost
<1>1. ASSUME IInv, NEW r \in Requests, pc[r] = "answered", status[r] = 200,
             handler[r] = "subscribe"
      PROVE  LET i == [token |-> token[r], email |-> subscriber[r]]
             IN  \/ Mailing!Mailed(i)
                 \/ Mailing!Waiting(i)
                 \/ outcome[i.token] \cap {"failed", "skipped"} # {}
    <2> DEFINE i == [token |-> token[r], email |-> subscriber[r]]
    <2>1. i.token \in Tokens /\ i \in Images
        <3>1. token[r] \in Tokens
            BY <1>1 DEF IInv, ApiProofs!IInv, ApiProofs!TypeInv, ApiProofs!LocalsOK
        <3>2. ApiProofs!IsTokenOf(table, token[r], subscriber[r])
            BY <1>1 DEF IInv, ApiProofs!IInv, ApiProofs!OkIsDurable
        <3>3. QED
            BY <3>1, <3>2 DEF ApiProofs!IsTokenOf, Images, TokenImages
    <2>2. MailingProofs!Waiting(i) \/ outcome[i.token] # {}
        BY <1>1, <2>1
        DEF IInv, MailingProofs!IInv, MailingProofs!HistoryInv,
            MailingProofs!EveryTokenAccountedFor
    <2>3. "sent" \in outcome[i.token] => MailingProofs!Mailed(i)
        BY <1>1, <2>1
        DEF IInv, MailingProofs!IInv, MailingProofs!HistoryInv,
            MailingProofs!OutcomesAreTrue
    <2>4. outcome[i.token] \subseteq {"sent", "failed", "skipped"}
        BY <1>1, <2>1
        DEF IInv, MailingProofs!IInv, MailingProofs!TypeOK, MailingProofs!Outcomes
    <2>5. QED
        BY <2>2, <2>3, <2>4
        DEF Mailing!Mailed, MailingProofs!Mailed, Mailing!BagToSet,
            MailingProofs!BagToSet, Mailing!Waiting, MailingProofs!Waiting,
            Mailing!Queued, MailingProofs!Queued, Mailing!InBatch,
            MailingProofs!InBatch, Mailing!Running, MailingProofs!Running
<1>2. IInv => OkIsNotLost
    BY <1>1 DEF OkIsNotLost
<1>3. QED
    BY <1>2, Invariance, PTL

-----------------------------------------------------------------------------
(* NewsletterSystem.  Again the instances are the same.                    *)

LEMMA SamePublisher ==
    /\ Publisher!Init <=> PublishProofs!Init
    /\ Publisher!Next <=> PublishProofs!Next
BY DEF Publisher!Init, PublishProofs!Init, Publisher!EmptyTable,
       PublishProofs!EmptyTable, Publisher!NoItem, PublishProofs!NoItem,
       Publisher!Keys, PublishProofs!Keys, Publisher!Next, PublishProofs!Next,
       Publisher!Free, PublishProofs!Free, Publisher!FirstCall,
       PublishProofs!FirstCall, Publisher!publish_newsletter,
       PublishProofs!publish_newsletter, Publisher!forms, PublishProofs!forms,
       Publisher!Step, PublishProofs!Step, Publisher!put_object,
       PublishProofs!put_object, Publisher!StoreBody, PublishProofs!StoreBody,
       Publisher!Continue, PublishProofs!Continue, Publisher!Fail,
       PublishProofs!Fail, Publisher!Announce, PublishProofs!Announce,
       Publisher!Form, PublishProofs!Form, Publisher!store_issue_in_dynamo,
       PublishProofs!store_issue_in_dynamo, Publisher!KeyIsFree,
       PublishProofs!KeyIsFree, Publisher!IssueItem, PublishProofs!IssueItem,
       Publisher!Crash, PublishProofs!Crash, Publisher!Subscriptions,
       PublishProofs!Subscriptions, Publisher!insert_subscriber,
       PublishProofs!insert_subscriber, Publisher!store_token,
       PublishProofs!store_token, Publisher!confirm_subscriber,
       PublishProofs!confirm_subscriber, Publisher!Write, PublishProofs!Write,
       Publisher!NewSubscriberItem, PublishProofs!NewSubscriberItem,
       Publisher!TokenItem, PublishProofs!TokenItem,
       Publisher!ConfirmedSubscriberItem,
       PublishProofs!ConfirmedSubscriberItem, Publisher!IsSubscriber,
       PublishProofs!IsSubscriber, Publisher!TokensOf, PublishProofs!TokensOf,
       Publisher!IsTokenOf, PublishProofs!IsTokenOf

LEMMA SameSendingPipe ==
    ASSUME NEW i, NEW m
    PROVE  Sending!Pipe(i, m) <=> SendingProofs!Pipe(i, m)
BY DEF Sending!Pipe, SendingProofs!Pipe, Sending!MessageForms,
       SendingProofs!MessageForms, Sending!Forms, SendingProofs!Forms,
       Sending!Redelivers, SendingProofs!Redelivers, Sending!SetToBag,
       SendingProofs!SetToBag, Sending!(+), SendingProofs!(+)

LEMMA SameSendingPoll ==
    ASSUME NEW w
    PROVE  Sending!Poll(w) <=> SendingProofs!Poll(w)
BY DEF Sending!Poll, SendingProofs!Poll, Sending!Receive,
       SendingProofs!Receive, Sending!Running, SendingProofs!Running,
       Sending!Redelivers, SendingProofs!Redelivers, Sending!SeqOf,
       SendingProofs!SeqOf, Sending!BagToSet, SendingProofs!BagToSet,
       Sending!ToBag, SendingProofs!ToBag, Sending!Range, SendingProofs!Range,
       Sending!Cardinality, SendingProofs!Cardinality, Sending!(-),
       SendingProofs!(-), Sending!\sqsubseteq, SendingProofs!\sqsubseteq

LEMMA SameSendingFail ==
    ASSUME NEW w
    PROVE  Sending!Fail(w) <=> SendingProofs!Fail(w)
BY DEF Sending!Fail, SendingProofs!Fail, Sending!ToBag, SendingProofs!ToBag,
       Sending!Range, SendingProofs!Range, Sending!Cardinality,
       SendingProofs!Cardinality, Sending!(+), SendingProofs!(+)

LEMMA SameSendingFinish ==
    ASSUME NEW w, NEW result
    PROVE  Sending!Finished(w, result) <=> SendingProofs!Finished(w, result)
BY DEF Sending!Finished, SendingProofs!Finished, Sending!Record,
       SendingProofs!Record, Sending!NextRecord, SendingProofs!NextRecord,
       Sending!StartRecord, SendingProofs!StartRecord

LEMMA SameSendingInvocation ==
    ASSUME NEW w
    PROVE  /\ Sending!invoke(w) <=> SendingProofs!invoke(w)
           /\ Sending!Crash(w) <=> SendingProofs!Crash(w)
BY SameSendingFail, SameSendingFinish
    DEF Sending!invoke, SendingProofs!invoke, Sending!Crash,
        SendingProofs!Crash, Sending!Skip, SendingProofs!Skip,
        Sending!retrieve_newsletter, SendingProofs!retrieve_newsletter,
        Sending!get_confirmed_subscribers,
        SendingProofs!get_confirmed_subscribers, Sending!send_email,
        SendingProofs!send_email, Sending!Stop, SendingProofs!Stop,
        Sending!Panic, SendingProofs!Panic, Sending!Acknowledge,
        SendingProofs!Acknowledge, Sending!Running, SendingProofs!Running,
        Sending!HasRecord, SendingProofs!HasRecord, Sending!Record,
        SendingProofs!Record, Sending!At, SendingProofs!At, Sending!Continue,
        SendingProofs!Continue, Sending!FirstPage, SendingProofs!FirstPage,
        Sending!Cardinality, SendingProofs!Cardinality, Sending!IsNext,
        SendingProofs!IsNext, Sending!Deliver, SendingProofs!Deliver,
        Sending!Redelivers, SendingProofs!Redelivers, Sending!worldVars,
        SendingProofs!worldVars, Sending!handlerVars,
        SendingProofs!handlerVars, Sending!historyVars,
        SendingProofs!historyVars, Sending!queueVars, SendingProofs!queueVars,
        Sending!SetToBag, SendingProofs!SetToBag, Sending!(+),
        SendingProofs!(+)

LEMMA SameSending ==
    /\ Sending!Init <=> SendingProofs!Init
    /\ Sending!Next <=> SendingProofs!Next
<1>1. Sending!Init <=> SendingProofs!Init
    BY DEF Sending!Init, SendingProofs!Init, Sending!QueueInit,
           SendingProofs!QueueInit, Sending!EmptyBag, SendingProofs!EmptyBag,
           Sending!SetToBag, SendingProofs!SetToBag
<1>2. Sending!Next <=> SendingProofs!Next
    BY SameSendingPipe, SameSendingPoll, SameSendingInvocation
        DEF Sending!Next, SendingProofs!Next, Sending!World,
            SendingProofs!World, Sending!Delivery, SendingProofs!Delivery,
            Sending!SubscriberConfirmed, SendingProofs!SubscriberConfirmed,
            Sending!BodyStored, SendingProofs!BodyStored, Sending!IssueStored,
            SendingProofs!IssueStored, Sending!IndexCatchesUp,
            SendingProofs!IndexCatchesUp, Sending!Forward,
            SendingProofs!Forward, Sending!ReceiveAny,
            SendingProofs!ReceiveAny, Sending!StartRecord,
            SendingProofs!StartRecord, Sending!worldVars,
            SendingProofs!worldVars, Sending!handlerVars,
            SendingProofs!handlerVars, Sending!historyVars,
            SendingProofs!historyVars, Sending!queueVars,
            SendingProofs!queueVars
<1>3. QED
    BY <1>1, <1>2

-----------------------------------------------------------------------------
(* Its inductive invariant.                                                *)

NewsletterInv == PublishProofs!IInv /\ SendingProofs!IInv /\ BodyIsFound

\* Some of what the components' invariants say, in the system's own terms.
LEMMA WhatHoldsOfIssues ==
    ASSUME NewsletterInv
    PROVE  /\ table \in [Keys -> Items]
           /\ \A a \in Authors :
                 pc[a] \in {"put_object", "store_issue_in_dynamo"} =>
                     title[a] \in Titles /\ content[a] \in Bodies
           /\ \A a \in Authors :
                 pc[a] = "store_issue_in_dynamo" => object[title[a]] # None
           /\ \A t \in Issued : object[t] # None
<1> USE DEF NewsletterInv, PublishProofs!IInv, PublishProofs!TypeInv
<1>1. table \in [Keys -> Items]
    BY DEF PublishProofs!TypeOK, PublishProofs!Keys, PublishProofs!Items,
           PublishProofs!ItemTypes, Keys, Items, ItemTypes
<1>2. \A t \in Issued : object[t] # None
    BY DEF PublishProofs!IssueHasBody, PublishProofs!IsIssue, Issued,
           IssueImages
<1>3. QED
    BY <1>1, <1>2 DEF PublishProofs!FormsOK, PublishProofs!BodyBeforeIssue

LEMMA InitNewsletterInv == NewsletterInit => NewsletterInv
<1> SUFFICES ASSUME NewsletterInit
             PROVE  NewsletterInv
    OBVIOUS
<1>1. PublishProofs!Init /\ SendingProofs!Init
    BY SamePublisher, SameSending DEF NewsletterInit
<1>2. PublishProofs!IInv
    BY <1>1, PublishProofs!InitInv, NewsletterSystemAssumption, KeyAssumption
    DEF Publisher!PublishFaultKinds, PublishProofs!PublishFaultKinds, Keys,
        PublishProofs!Keys
<1>3. SendingProofs!IInv
    BY <1>1, SendingProofs!InitInv, NewsletterSystemAssumption
    DEF Sending!DeliveryFaultKinds, SendingProofs!DeliveryFaultKinds
<1>4. BodyIsFound
    BY <1>1 DEF SendingProofs!Init, BodyIsFound
<1>5. QED
    BY <1>2, <1>3, <1>4 DEF NewsletterInv

-----------------------------------------------------------------------------
(* A step of NewsletterSystem is a step of each component.                 *)

LEMMA StepOfPublisher ==
    NewsletterInv /\ [NewsletterNext]_newsletterVars
        => [PublishProofs!Next]_(PublishProofs!vars)
<1> SUFFICES ASSUME NewsletterInv, [NewsletterNext]_newsletterVars
             PROVE  Publisher!Next \/ UNCHANGED Publisher!vars
    BY SamePublisher DEF Publisher!vars, Publisher!forms, PublishProofs!vars,
                         PublishProofs!forms
<1>1. QED
    BY DEF NewsletterNext, PublisherStep, SendingStep, newsletterVars,
           publisherVars, Publisher!vars, Publisher!forms

\* What the mail sender sees of a write of the table.
WorldStep ==
    \/ \E e \in Emails :
          Confirmed' = Confirmed \cup {e} /\ UNCHANGED <<Issued, object>>
    \/ \E t \in Titles, b \in Bodies :
          object' = [object EXCEPT ![t] = b] /\ UNCHANGED <<Issued, Confirmed>>
    \/ \E t \in Titles :
          /\ object[t] # None
          /\ Issued' = Issued \cup {t} /\ UNCHANGED <<Confirmed, object>>
    \/ UNCHANGED <<Issued, Confirmed, object>>

LEMMA PublisherWorldStep ==
    ASSUME NewsletterInv, Publisher!Next
    PROVE  WorldStep
<1> USE WhatHoldsOfIssues, KeyAssumption
    DEF Issued, IssueImages, Confirmed, InIndex, IsConfirmed, IsSubscriber,
        Keys, Publisher!KeyIsFree, Publisher!IsSubscriber
<1>1. ASSUME NEW a \in Authors, Publisher!put_object(a)
      PROVE  WorldStep
    <2>1. title[a] \in Titles /\ content[a] \in Bodies
        BY <1>1 DEF Publisher!put_object
    <2>2. QED
        BY <1>1, <2>1 DEF Publisher!put_object, Publisher!StoreBody, WorldStep
<1>2. ASSUME NEW a \in Authors, Publisher!store_issue_in_dynamo(a)
      PROVE  WorldStep
    <2>1. title[a] \in Titles /\ object[title[a]] # None
        BY <1>2 DEF Publisher!store_issue_in_dynamo
    <2>2. CASE UNCHANGED table
        BY <1>2, <2>2 DEF Publisher!store_issue_in_dynamo, WorldStep
    <2>3. CASE /\ table[title[a]].type = "absent"
               /\ table' = [table EXCEPT ![title[a]] = Publisher!IssueItem]
        <3>1. /\ table'[title[a]].type = "NewsletterIssue"
              /\ \A k \in Keys \ {title[a]} : table'[k] = table[k]
            BY <2>1, <2>3 DEF Publisher!IssueItem
        <3>2. Issued' = Issued \cup {title[a]}
            BY <2>1, <3>1
        <3>3. UNCHANGED Confirmed
            BY <2>1, <2>3, <3>1
        <3>4. QED
            BY <1>2, <2>1, <3>2, <3>3 DEF Publisher!store_issue_in_dynamo, WorldStep
    <2>4. QED
        BY <1>2, <2>2, <2>3 DEF Publisher!store_issue_in_dynamo
<1>3. ASSUME NEW e \in Emails, Publisher!insert_subscriber(e)
      PROVE  WorldStep
    <2>1. /\ table[e].type = "absent"
          /\ table'[e].type = "Subscriber" /\ table'[e].confirmed = FALSE
          /\ \A k \in Keys \ {e} : table'[k] = table[k]
          /\ object' = object
        BY <1>3 DEF Publisher!insert_subscriber, Publisher!Write, Publisher!NewSubscriberItem
    <2>2. UNCHANGED <<Issued, Confirmed>>
        BY <2>1
    <2>3. QED
        BY <2>1, <2>2 DEF WorldStep
<1>4. ASSUME NEW e \in Emails, NEW t \in Tokens, Publisher!store_token(t, e)
      PROVE  WorldStep
    <2>1. /\ table[t].type = "absent" /\ table'[t].type = "SubscriberToken"
          /\ \A k \in Keys \ {t} : table'[k] = table[k]
          /\ object' = object
        BY <1>4 DEF Publisher!store_token, Publisher!Write, Publisher!TokenItem
    <2>2. UNCHANGED <<Issued, Confirmed>>
        BY <2>1
    <2>3. QED
        BY <2>1, <2>2 DEF WorldStep
<1>5. ASSUME NEW e \in Emails, Publisher!confirm_subscriber(e)
      PROVE  WorldStep
    <2>1. /\ table[e].type = "Subscriber"
          /\ table'[e].type = "Subscriber" /\ table'[e].confirmed = TRUE
          /\ \A k \in Keys \ {e} : table'[k] = table[k]
          /\ object' = object
        BY <1>5 DEF Publisher!confirm_subscriber, Publisher!Write, Publisher!ConfirmedSubscriberItem
    <2>2. Confirmed' = Confirmed \cup {e} /\ UNCHANGED Issued
        BY <2>1
    <2>3. QED
        BY <2>1, <2>2 DEF WorldStep
<1>6. CASE UNCHANGED <<table, object>>
    BY <1>6 DEF WorldStep
<1>7. QED
    BY <1>1, <1>2, <1>3, <1>4, <1>5, <1>6
    DEF Publisher!Next, Publisher!Step, Publisher!Subscriptions,
        Publisher!publish_newsletter, Publisher!Crash

LEMMA StepOfSending ==
    NewsletterInv /\ [NewsletterNext]_newsletterVars
        => [SendingProofs!Next]_(SendingProofs!vars)
<1> SUFFICES ASSUME NewsletterInv, [NewsletterNext]_newsletterVars
             PROVE  Sending!Next \/ UNCHANGED Sending!vars
    BY SameSending
    DEF Sending!vars, Sending!queueVars, Sending!worldVars,
        Sending!handlerVars, Sending!historyVars, SendingProofs!vars,
        SendingProofs!queueVars, SendingProofs!worldVars,
        SendingProofs!handlerVars, SendingProofs!historyVars
<1> USE DEF sendingVars, Sending!vars, Sending!queueVars, Sending!worldVars,
            Sending!handlerVars, Sending!historyVars
<1>1. CASE SendingStep
    BY <1>1 DEF SendingStep, Sending!Next
<1>2. CASE PublisherStep
    BY <1>2, PublisherWorldStep
    DEF PublisherStep, WorldStep, Sending!Next, Sending!World,
        Sending!SubscriberConfirmed, Sending!BodyStored, Sending!IssueStored
<1>3. CASE UNCHANGED newsletterVars
    BY <1>3 DEF newsletterVars, Issued, Confirmed
<1>4. QED
    BY <1>1, <1>2, <1>3 DEF NewsletterNext

-----------------------------------------------------------------------------
(* A message leads to a body.                                              *)

\* A record an invocation handles is of an issue in the table.
LEMMA RecordIsIssued ==
    ASSUME NewsletterInv, NEW w \in Workers, Sending!HasRecord(w, "traced")
    PROVE  Sending!Record(w) \in Issued
<1>1. /\ batch[w] # <<>> /\ pos[w] <= Len(batch[w])
      /\ Sending!Record(w) = batch[w][pos[w]].image
    BY DEF Sending!HasRecord, Sending!Running, Sending!Record
<1>2. pos[w] \in Nat \ {0} /\ Len(batch[w]) \in Nat
    BY DEF NewsletterInv, SendingProofs!IInv, SendingProofs!QueueInv,
           SendingProofs!QueueTypeOK, SendingProofs!MessagesOf
<1>3. pos[w] \in 1 .. Len(batch[w])
    BY <1>1, <1>2
<1>4. QED
    BY <1>1, <1>3
    DEF NewsletterInv, SendingProofs!IInv, SendingProofs!QueueInv,
        SendingProofs!MessagesStored

LEMMA StepBodyIsFound ==
    NewsletterInv /\ [NewsletterNext]_newsletterVars => BodyIsFound'
<1> SUFFICES ASSUME NewsletterInv, [NewsletterNext]_newsletterVars,
                    "read_error" \notin DeliveryFaults,
                    NEW t \in Titles
             PROVE  "no_body" \notin outcome'[t]
    BY DEF BodyIsFound
<1>1. "no_body" \notin outcome[t]
    BY DEF NewsletterInv, BodyIsFound
<1>2. t \in DOMAIN outcome
    BY DEF NewsletterInv, SendingProofs!IInv, SendingProofs!TypeOK
<1>3. ASSUME NEW w \in Workers, NEW result, result # "no_body",
             Sending!Finished(w, result)
      PROVE  "no_body" \notin outcome'[t]
    BY <1>1, <1>2, <1>3 DEF Sending!Finished
<1>4. ASSUME NEW w \in Workers, Sending!retrieve_newsletter(w)
      PROVE  UNCHANGED outcome
    <2>1. object[Sending!Record(w)] # None
        BY <1>4, RecordIsIssued, WhatHoldsOfIssues DEF Sending!retrieve_newsletter, Sending!At
    <2>2. QED
        BY <1>4, <2>1 DEF Sending!retrieve_newsletter, Sending!Continue
<1>5. ASSUME NEW w \in Workers, Sending!invoke(w)
      PROVE  "no_body" \notin outcome'[t]
    BY <1>1, <1>3, <1>4, <1>5
    DEF Sending!invoke, Sending!Skip, Sending!get_confirmed_subscribers,
        Sending!send_email, Sending!Continue, Sending!Stop, Sending!historyVars
<1>6. CASE UNCHANGED outcome
    BY <1>1, <1>6
<1>7. QED
    BY <1>5, <1>6
    DEF NewsletterNext, PublisherStep, SendingStep, newsletterVars,
        sendingVars, Sending!Delivery, Sending!IndexCatchesUp,
        Sending!Forward, Sending!ReceiveAny, Sending!historyVars

-----------------------------------------------------------------------------
(* Its theorems.                                                           *)

LEMMA StepNewsletterInv ==
    NewsletterInv /\ [NewsletterNext]_newsletterVars => NewsletterInv'
<1> SUFFICES ASSUME NewsletterInv, [NewsletterNext]_newsletterVars
             PROVE  NewsletterInv'
    OBVIOUS
<1>1. PublishProofs!IInv'
    BY StepOfPublisher, PublishProofs!TypeStep, PublishProofs!BodyStep,
       NewsletterSystemAssumption, KeyAssumption
    DEF NewsletterInv, PublishProofs!IInv, Publisher!PublishFaultKinds,
        PublishProofs!PublishFaultKinds, Keys, PublishProofs!Keys
<1>2. SendingProofs!IInv'
    BY StepOfSending, SendingProofs!StepInv, NewsletterSystemAssumption
    DEF NewsletterInv, Sending!DeliveryFaultKinds,
        SendingProofs!DeliveryFaultKinds
<1>3. QED
    BY <1>1, <1>2, StepBodyIsFound DEF NewsletterInv

LEMMA NewsletterInvariance == NewsletterSpec => []NewsletterInv
BY InitNewsletterInv, StepNewsletterInv, PTL DEF NewsletterSpec

\* The API is what NewsletterDelivery takes its surroundings to be: it puts an
\* issue only after a body, takes none back, and whoever has confirmed stays
\* confirmed, whichever of the puts fail.
THEOREM RefinesSending == NewsletterSpec => ImplementsSending
<1>1. NewsletterInit => Sending!Init
    BY DEF NewsletterInit
<1>2. NewsletterInv /\ [NewsletterNext]_newsletterVars
        => [Sending!Next]_(Sending!vars)
    BY StepOfSending, SameSending
    DEF Sending!vars, Sending!queueVars, Sending!worldVars,
        Sending!handlerVars, Sending!historyVars, SendingProofs!vars,
        SendingProofs!queueVars, SendingProofs!worldVars,
        SendingProofs!handlerVars, SendingProofs!historyVars
<1>3. QED
    BY <1>1, <1>2, NewsletterInvariance, PTL
    DEF NewsletterSpec, ImplementsSending, Sending!Spec

\* No mail without consent and without an issue: what is mailed is an issue in
\* the table, and it goes to an address that is confirmed there.
THEOREM ConsentAndIssue == NewsletterSpec => []OnlyConfirmedGetIssues
<1>1. ASSUME NewsletterInv, NEW m \in BagToSet(mailbox)
      PROVE  IsConfirmed(table, m.to) /\ table[m.title].type = "NewsletterIssue"
    <2>1. m.title \in Issued /\ m.to \in Confirmed
        BY <1>1
        DEF NewsletterInv, SendingProofs!IInv, SendingProofs!HistoryInv,
            SendingProofs!OnlyDueIsMailed, SendingProofs!BagToSet, BagToSet
    <2>2. QED
        BY <2>1 DEF Issued, IssueImages, Confirmed, InIndex
<1>2. NewsletterInv => OnlyConfirmedGetIssues
    BY <1>1 DEF OnlyConfirmedGetIssues
<1>3. QED
    BY <1>2, NewsletterInvariance, PTL

\* While no read fails, no record ends for want of a body, whatever fails
\* between the two puts of its author.
THEOREM MessagesLeadToBodies == NewsletterSpec => []BodyIsFound
<1>1. NewsletterInv => BodyIsFound
    BY DEF NewsletterInv
<1>2. QED
    BY <1>1, NewsletterInvariance, PTL
=============================================================================
