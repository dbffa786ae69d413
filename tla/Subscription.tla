---------------------------- MODULE Subscription ----------------------------
(***************************************************************************)
(* The handlers of POST /subscriptions and GET /subscriptions/confirm,     *)
(* with the repository calls they make on the newsletter table.            *)
(*                                                                         *)
(* A handler is interrupted at every .await, so one repository call is one *)
(* step.  A slot in Requests serves one request at a time and any number   *)
(* in sequence: the concurrent requests of one API instance and those of   *)
(* different instances interleave in the same way, the table is all they   *)
(* share.                                                                  *)
(***************************************************************************)
EXTENDS NewsletterTable

CONSTANTS
    Requests,   \* slots, each serving one request at a time
    Faults      \* the failures that may happen, a subset of FaultKinds

FaultKinds == {
    "db_error",         \* a DynamoDB call fails and changes nothing
    "lost_response",    \* a put is applied, but the SDK reports an error
    "stale_read",       \* a query, not a consistent read, misses an item
    "token_collision",  \* the random token is a key already in use
    "crash" }           \* the instance stops, or the client goes away and
                        \* the handler is dropped at an .await

ASSUME FaultsAssumption == Faults \subseteq FaultKinds

VARIABLES
    table,      \* the newsletter table
    pc,         \* pc[r]: the call request r is about to make
    handler,    \* handler[r]: the route that serves r
    subscriber, \* subscriber[r]: the handler's subscriber_id
    token,      \* token[r]: the subscription token it generated or was given
    status      \* status[r]: the HTTP status r was answered with, 0 if none

vars == <<table, pc, handler, subscriber, token, status>>
locals == <<handler, subscriber, token>>

Calls == {"insert_subscriber", "store_token",
          "get_subscriber_id_from_token", "confirm_subscriber"}

Init ==
    /\ table = EmptyTable
    /\ pc = [r \in Requests |-> "idle"]
    /\ handler = [r \in Requests |-> "none"]
    /\ subscriber = [r \in Requests |-> None]
    /\ token = [r \in Requests |-> None]
    /\ status = [r \in Requests |-> 0]

-----------------------------------------------------------------------------
(* Steps the handlers are made of.                                         *)

Free(r) == pc[r] \in {"idle", "answered", "dropped"}

Call(r, c) ==
    /\ pc' = [pc EXCEPT ![r] = c]
    /\ UNCHANGED status

Answer(r, code) ==
    /\ pc' = [pc EXCEPT ![r] = "answered"]
    /\ status' = [status EXCEPT ![r] = code]

\* A panic or a crash: no response is written.
Drop(r) ==
    /\ pc' = [pc EXCEPT ![r] = "dropped"]
    /\ UNCHANGED status

Put(k, item) == table' = [table EXCEPT ![k] = item]

\* put_item with attribute_not_exists(PK), and what the caller does on Ok
\* and on Err.  The SDK repeats a put whose response is lost; the repetition
\* then meets its own item and fails the condition.
PutIfAbsent(k, item, onOk, onErr) ==
    \/ /\ KeyIsFree(table, k)
       /\ Put(k, item)
       /\ onOk
    \/ /\ "lost_response" \in Faults
       /\ KeyIsFree(table, k)
       /\ Put(k, item)
       /\ onErr
    \/ /\ ~ KeyIsFree(table, k) \/ "db_error" \in Faults
       /\ UNCHANGED table
       /\ onErr

-----------------------------------------------------------------------------
(* POST /subscriptions                                                     *)

\* The form's name or email does not parse: ValidationError.
SubscribeInvalid(r) ==
    /\ Free(r)
    /\ handler' = [handler EXCEPT ![r] = "subscribe"]
    /\ subscriber' = [subscriber EXCEPT ![r] = None]
    /\ token' = [token EXCEPT ![r] = None]
    /\ Answer(r, 400)
    /\ UNCHANGED table

Subscribe(r, e) ==
    /\ Free(r)
    /\ handler' = [handler EXCEPT ![r] = "subscribe"]
    /\ subscriber' = [subscriber EXCEPT ![r] = e]
    /\ token' = [token EXCEPT ![r] = None]
    /\ pc' = [pc EXCEPT ![r] = "insert_subscriber"]
    /\ status' = [status EXCEPT ![r] = 0]
    /\ UNCHANGED table

\* Mutants: the result of the put ignored, as store_newsletter_metadata
\* ignores its own; and the answer sent before the token is stored.
insert_subscriber_ignoring_result(r) ==
    /\ pc[r] = "insert_subscriber"
    /\ PutIfAbsent(subscriber[r], NewSubscriberItem(subscriber[r]),
                   Call(r, "store_token"), Call(r, "store_token"))
    /\ UNCHANGED locals

insert_subscriber_answering(r) ==
    /\ pc[r] = "insert_subscriber"
    /\ PutIfAbsent(subscriber[r], NewSubscriberItem(subscriber[r]),
                   Answer(r, 200), Answer(r, 500))
    /\ UNCHANGED locals

insert_subscriber(r) ==
    /\ pc[r] = "insert_subscriber"
    /\ PutIfAbsent(subscriber[r], NewSubscriberItem(subscriber[r]),
                   Call(r, "store_token"), Answer(r, 500))
    /\ UNCHANGED locals

\* Mutant: the token is put without the condition.
store_token_unconditionally(r) ==
    /\ pc[r] = "store_token"
    /\ \E t \in Tokens :
          /\ KeyIsFree(table, t) \/ "token_collision" \in Faults
          /\ token' = [token EXCEPT ![r] = t]
          /\ Put(t, TokenItem(subscriber[r]))
    /\ Answer(r, 200)
    /\ UNCHANGED <<handler, subscriber>>

\* The handler generates the token and stores it under the subscriber's id.
store_token(r) ==
    /\ pc[r] = "store_token"
    /\ \E t \in Tokens :
          /\ KeyIsFree(table, t) \/ "token_collision" \in Faults
          /\ token' = [token EXCEPT ![r] = t]
          /\ PutIfAbsent(t, TokenItem(subscriber[r]),
                         Answer(r, 200), Answer(r, 500))
    /\ UNCHANGED <<handler, subscriber>>

-----------------------------------------------------------------------------
(* GET /subscriptions/confirm?subscription_token=k                         *)

Confirm(r, k) ==
    /\ Free(r)
    /\ handler' = [handler EXCEPT ![r] = "confirm"]
    /\ subscriber' = [subscriber EXCEPT ![r] = None]
    /\ token' = [token EXCEPT ![r] = k]
    /\ pc' = [pc EXCEPT ![r] = "get_subscriber_id_from_token"]
    /\ status' = [status EXCEPT ![r] = 0]
    /\ UNCHANGED table

\* Mutant: the key of the item found is taken for the subscriber's id.
get_subscriber_id_returning_key(r) ==
    /\ pc[r] = "get_subscriber_id_from_token"
    /\ ~ KeyIsFree(table, token[r])
    /\ subscriber' = [subscriber EXCEPT ![r] = token[r]]
    /\ Call(r, "confirm_subscriber")
    /\ UNCHANGED <<table, handler, token>>

\* The query looks at PK only.  It answers with the EmailAddress of whatever
\* item it finds and panics on an issue, which has none; finding nothing is
\* an Err like any other, so the answer is 500.
get_subscriber_id_from_token(r) ==
    /\ pc[r] = "get_subscriber_id_from_token"
    /\ \/ /\ KeyIsFree(table, token[r])
             \/ Faults \cap {"db_error", "stale_read"} # {}
          /\ Answer(r, 500)
          /\ UNCHANGED subscriber
       \/ /\ table[token[r]].type \in {"Subscriber", "SubscriberToken"}
          /\ subscriber' = [subscriber EXCEPT ![r] = table[token[r]].email]
          /\ Call(r, "confirm_subscriber")
       \/ /\ table[token[r]].type = "NewsletterIssue"
          /\ Drop(r)
          /\ UNCHANGED subscriber
    /\ UNCHANGED <<table, handler, token>>

\* Mutant: the item is written under the token instead of the address.
confirm_subscriber_by_token(r) ==
    /\ pc[r] = "confirm_subscriber"
    /\ Put(token[r], ConfirmedSubscriberItem(subscriber[r]))
    /\ Answer(r, 200)
    /\ UNCHANGED locals

\* The whole item is put again, without a condition.
confirm_subscriber(r) ==
    /\ pc[r] = "confirm_subscriber"
    /\ \/ /\ Put(subscriber[r], ConfirmedSubscriberItem(subscriber[r]))
          /\ \/ Answer(r, 200)
             \/ "lost_response" \in Faults /\ Answer(r, 500)
       \/ /\ "db_error" \in Faults
          /\ UNCHANGED table
          /\ Answer(r, 500)
    /\ UNCHANGED locals

-----------------------------------------------------------------------------
(* The rest of the world.                                                  *)

Crash(r) ==
    /\ "crash" \in Faults
    /\ pc[r] \in Calls
    /\ Drop(r)
    /\ UNCHANGED <<table, locals>>

\* The publisher puts an issue under its title, the table's other writer.
store_issue_in_dynamo(k) ==
    /\ KeyIsFree(table, k)
    /\ Put(k, IssueItem)
    /\ UNCHANGED <<pc, locals, status>>

Step(r) ==
    \/ insert_subscriber(r)
    \/ store_token(r)
    \/ get_subscriber_id_from_token(r)
    \/ confirm_subscriber(r)

Arrive(r) ==
    \/ SubscribeInvalid(r)
    \/ \E e \in Emails : Subscribe(r, e)
    \/ \E k \in Keys : Confirm(r, k)

Next ==
    \/ \E r \in Requests : Arrive(r) \/ Step(r) \/ Crash(r)
    \/ \E k \in Titles : store_issue_in_dynamo(k)

Spec == Init /\ [][Next]_vars

-----------------------------------------------------------------------------
(* Properties.                                                             *)

\* The table holds items, and every local of a handler has its type.
TypeOK ==
    /\ table \in [Keys -> Items]
    /\ pc \in [Requests -> {"idle", "answered", "dropped"} \cup Calls]
    /\ handler \in [Requests -> {"none", "subscribe", "confirm"}]
    /\ subscriber \in [Requests -> Emails \cup {None}]
    /\ token \in [Requests -> Keys \cup {None}]
    /\ status \in [Requests -> {0, 200, 400, 500}]

\* However many requests subscribe the same address at once, and whichever
\* of them fail half-way, the address has one confirmation token at most, so
\* its owner is mailed one link.
OneTokenPerSubscriber ==
    \A s, t \in Tokens :
        /\ table[s].type = "SubscriberToken"
        /\ table[t].type = "SubscriberToken"
        /\ table[s].email = table[t].email
        => s = t

\* The address a stored token belongs to is the key of a Subscriber item, so
\* that confirm_subscriber, which puts without a condition, never creates a
\* subscriber or replaces an item of another kind.
TokenOwnerIsSubscriber ==
    \A t \in Tokens :
        table[t].type = "SubscriberToken" =>
            table[t].email \in Emails /\ IsSubscriber(table, table[t].email)

\* A 200 is kept: the address of a subscribe request answered 200 owns the
\* token that request generated, and the address of a confirm request
\* answered 200 is confirmed, whatever other requests have done since.
OkIsDurable ==
    \A r \in Requests :
        pc[r] = "answered" /\ status[r] = 200 =>
            \/ /\ handler[r] = "subscribe"
               /\ IsSubscriber(table, subscriber[r])
               /\ IsTokenOf(table, token[r], subscriber[r])
            \/ /\ handler[r] = "confirm"
               /\ IsConfirmed(table, subscriber[r])

\* Emails, tokens and titles share the partition key, and three writers put
\* under it: none of them ever turns another's item into something else.
ItemsKeepTheirMeaning ==
    [][\A k \in Keys : ~ KeyIsFree(table, k) =>
          /\ table'[k].type = table[k].type
          /\ table'[k].email = table[k].email]_vars

\* The service as SubscriberLifecycle describes it: what the table says of an
\* address, and the tokens stored for it.
PhaseOf(e) ==
    IF ~ IsSubscriber(table, e) THEN "unknown"
    ELSE IF table[e].confirmed THEN "confirmed" ELSE "pending"

Lifecycle == INSTANCE SubscriberLifecycle WITH
    phase <- [e \in Emails |-> PhaseOf(e)],
    links <- [e \in Emails |-> TokensOf(table, e)]

\* Every step of every handler is a lifecycle step or changes nothing the
\* lifecycle sees: in particular a confirmed address is never put back to
\* pending by a late or repeated subscription, and no second link is issued.
ImplementsLifecycle == Lifecycle!Spec

\* subscriptions_confirm.rs:16: "There is no subscriber associated with the
\* provided token."  Who has no token stored, and no handler about to store
\* one, cannot be confirmed, for no request can come with a token of theirs.
\* README.md:9 says that there is no such subscriber to begin with: subscriber
\* data is stored "as well as subscription confirmation tokens".
ConfirmedHasToken ==
    \A e \in Emails :
        IsConfirmed(table, e) =>
            \/ TokensOf(table, e) # {}
            \/ \E r \in Requests : pc[r] = "store_token" /\ subscriber[r] = e
=============================================================================
