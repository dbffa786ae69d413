----------------------------- MODULE Publishing -----------------------------
(***************************************************************************)
(* The handler of POST /admin/newsletters: it puts the body of an issue    *)
(* into the bucket, then the issue into the newsletter table, and tells    *)
(* the author that the issue was published.                                *)
(*                                                                         *)
(* As in Subscription, a handler is interrupted at its calls, and a slot   *)
(* in Authors serves any number of requests in sequence.                   *)
(***************************************************************************)
EXTENDS NewsletterTable

CONSTANTS
    Authors,        \* slots, each serving one request at a time
    Bodies,         \* contents of an issue
    SkipS3,         \* the setting skip_s3, TRUE in local runs and tests only
    PublishFaults   \* the failures that may happen

PublishFaultKinds == {
    "s3_error",     \* put_object fails; the object may be there all the same
    "db_error",     \* the put of the issue fails and changes nothing
    "crash" }       \* the instance stops, or the client goes away

ASSUME PublishingAssumption ==
    /\ SkipS3 \in BOOLEAN
    /\ PublishFaults \subseteq PublishFaultKinds
    /\ None \notin Bodies

VARIABLES
    table,      \* the newsletter table
    object,     \* object[t]: the body in the bucket under "t.json"
    pc,         \* pc[a]: the call request a is about to make
    title,      \* title[a], body[a]: the form it came with
    body,
    status,     \* status[a]: the HTTP status it was answered with, 0 if none
    announced   \* the forms whose authors were told of their publication

forms == <<title, body>>
vars == <<table, object, pc, forms, status, announced>>

Issues == [title: Titles, body: Bodies]
Form(a) == [title |-> title[a], body |-> body[a]]

Init ==
    /\ table = EmptyTable
    /\ object = [t \in Titles |-> None]
    /\ pc = [a \in Authors |-> "idle"]
    /\ title = [a \in Authors |-> None]
    /\ body = [a \in Authors |-> None]
    /\ status = [a \in Authors |-> 0]
    /\ announced = {}

-----------------------------------------------------------------------------
(* publish_newsletter and store_newsletter_metadata.                       *)

Free(a) == pc[a] \in {"idle", "answered", "dropped"}

FirstCall == IF SkipS3 THEN "store_issue_in_dynamo" ELSE "put_object"

publish_newsletter(a, t, b) ==
    /\ Free(a)
    /\ title' = [title EXCEPT ![a] = t]
    /\ body' = [body EXCEPT ![a] = b]
    /\ pc' = [pc EXCEPT ![a] = FirstCall]
    /\ status' = [status EXCEPT ![a] = 0]
    /\ UNCHANGED <<table, object, announced>>

\* Mutant: NewsletterMetadata::new called with its arguments swapped.
StoreTitle(a) == object' = [object EXCEPT ![title[a]] = title[a]]

StoreBody(a) == object' = [object EXCEPT ![title[a]] = body[a]]

Continue(a) ==
    /\ pc' = [pc EXCEPT ![a] = "store_issue_in_dynamo"]
    /\ UNCHANGED <<status, announced>>

Fail(a) ==
    /\ pc' = [pc EXCEPT ![a] = "answered"]
    /\ status' = [status EXCEPT ![a] = 500]
    /\ UNCHANGED announced

\* "The newsletter issue has been published!"
Announce(a) ==
    /\ pc' = [pc EXCEPT ![a] = "answered"]
    /\ status' = [status EXCEPT ![a] = 303]
    /\ announced' = announced \cup {Form(a)}

\* Mutant: the result of put_object ignored, too.
put_object_ignoring_result(a) ==
    /\ pc[a] = "put_object"
    /\ \/ StoreBody(a)
       \/ "s3_error" \in PublishFaults /\ UNCHANGED object
    /\ Continue(a)
    /\ UNCHANGED <<table, forms>>

\* The put replaces whatever the bucket has under the title.
put_object(a) ==
    /\ pc[a] = "put_object"
    /\ \/ StoreBody(a) /\ Continue(a)
       \/ /\ "s3_error" \in PublishFaults
          /\ StoreBody(a) \/ UNCHANGED object
          /\ Fail(a)
    /\ UNCHANGED <<table, forms>>

\* `let _ =` drops the result: applied, refused by the condition because the
\* title is taken, or failed, the issue is announced.
store_issue_in_dynamo(a) ==
    /\ pc[a] = "store_issue_in_dynamo"
    /\ \/ /\ KeyIsFree(table, title[a])
          /\ table' = [table EXCEPT ![title[a]] = IssueItem]
       \/ /\ ~ KeyIsFree(table, title[a]) \/ "db_error" \in PublishFaults
          /\ UNCHANGED table
    /\ Announce(a)
    /\ UNCHANGED <<object, forms>>

Crash(a) ==
    /\ "crash" \in PublishFaults
    /\ ~ Free(a)
    /\ pc' = [pc EXCEPT ![a] = "dropped"]
    /\ UNCHANGED <<table, object, forms, status, announced>>

-----------------------------------------------------------------------------
(* The subscription handlers, the table's other writers.                   *)

Write(k, item) ==
    /\ table' = [table EXCEPT ![k] = item]
    /\ UNCHANGED <<object, pc, forms, status, announced>>

insert_subscriber(e) == KeyIsFree(table, e) /\ Write(e, NewSubscriberItem(e))

store_token(t, e) ==
    /\ IsSubscriber(table, e) /\ TokensOf(table, e) = {}
    /\ KeyIsFree(table, t)
    /\ Write(t, TokenItem(e))

confirm_subscriber(e) ==
    IsSubscriber(table, e) /\ Write(e, ConfirmedSubscriberItem(e))

Subscriptions ==
    \E e \in Emails :
        \/ insert_subscriber(e)
        \/ \E t \in Tokens : store_token(t, e)
        \/ confirm_subscriber(e)

Step(a) == put_object(a) \/ store_issue_in_dynamo(a)

Next ==
    \/ \E a \in Authors :
          \/ \E t \in Titles, b \in Bodies : publish_newsletter(a, t, b)
          \/ Step(a)
          \/ Crash(a)
    \/ Subscriptions

Spec == Init /\ [][Next]_vars

-----------------------------------------------------------------------------
(* Properties.                                                             *)

\* The table holds items and the bucket bodies under titles, a request has no
\* status but 303 and 500, and what authors are told of has the type of a form.
TypeOK ==
    /\ table \in [Keys -> Items]
    /\ object \in [Titles -> Bodies \cup {None}]
    /\ pc \in [Authors -> {"idle", "answered", "dropped",
                           "put_object", "store_issue_in_dynamo"}]
    /\ title \in [Authors -> Titles \cup {None}]
    /\ body \in [Authors -> Bodies \cup {None}]
    /\ status \in [Authors -> {0, 303, 500}]
    /\ announced \subseteq Issues

IsIssue(t) == table[t].type = "NewsletterIssue"

\* Whatever fails, an issue in the table has a body in the bucket: the pipe,
\* which sees the issue at once, never sends the sender after a body that is
\* not there.  The order of the two puts and the return between them.
IssueHasBody ==
    ~ SkipS3 => \A t \in Titles : IsIssue(t) => object[t] # None

\* An author is told of a publication only when the bucket has a body under
\* the title, theirs or one that replaced it: the half of AnnouncedIsPublished
\* that remains.
AnnouncedHasBody ==
    ~ SkipS3 => \A f \in announced : object[f.title] # None

\* README.md:11: "When a newsletter issue is sent, newsletter body contents is
\* stored in S3 [...] and a pointer is stored in DynamoDB."  So once every
\* request is answered, an issue whose publication was announced is in the
\* table, and what was announced is what the bucket has under the pointer.
\* It needs the dropped result of store_issue_in_dynamo never to be a failure,
\* and the unconditional put of the body never to meet another.
AnnouncedIsPublished ==
    (\A a \in Authors : Free(a)) =>
        \A f \in announced : IsIssue(f.title) /\ object[f.title] = f.body
=============================================================================
