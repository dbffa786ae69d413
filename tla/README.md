# Verification of the serverless newsletter

TLA+ models, TLC runs and TLAPS proofs for the newsletter service in `src/`:
an actix-web API, two SQS-triggered Lambda functions that send mail, and the
DynamoDB table, streams, pipes, queues and bucket between them.

All paths below are relative to the repository root.

## 1. The system

### Components

| Component | State it keeps | Operations |
|---|---|---|
| **Newsletter table** (`cdk/lib/api-stack.ts`, `src/api/src/adapters`) | one DynamoDB table; subscribers, confirmation tokens and issues under one partition key `PK` (an address, a token, a title); an index GSI1 of confirmed subscribers; a stream of new images | put, conditional put, query by key, query of GSI1 |
| **Subscription handlers** (`routes/subscriptions.rs`, `routes/subscriptions_confirm.rs`) | none between requests; the locals of each handler | `POST /subscriptions`: parse, insert subscriber, generate token, store token. `GET /subscriptions/confirm`: look the token up, put the confirmed subscriber |
| **Confirmation delivery** (`cdk/lib/new-subscriber-stack.ts`, `src/backend/src/send_confirmation_handler.rs`) | stream position, queue, running invocations | filter and forward token items, receive a batch, mail each record, acknowledge |
| **Publishing** (`routes/admin/newsletter/post.rs`, `adapters/s3_newsletter_metadata_storage.rs`) | S3 objects, issue items | put the body, put the issue |
| **Newsletter delivery** (`cdk/lib/send-newsletter-stack.ts`, `send_newsletter_handler.rs`) | stream position, queue, running invocations | read the body, query confirmed subscribers, mail each |
| **Authentication** (`authentication/`, `session_state.rs`, `routes/login`, `routes/admin/password`, `routes/admin/logout.rs`, `routes/admin/migrate.rs`, `adapters/dynamodb_user_repository.rs`) | users in the auth table | login, change password, log out, migrate, and the guard in front of every page under `/admin` |
| **Session store** (`adapters/dynamo_db_session_store.rs`) | sessions in the auth table | load, save, update, update_ttl, delete |
| **Trace flushing** (`src/telemetry/src/telemetry.rs`, `api/src/middleware.rs`, `api/src/main.rs`, `backend/src/bin/lambda`) | per execution environment: an unbounded channel of done signals, the exporter's buffer | a handler sends, the Lambda extension takes one per invocation and flushes |
| **Input validation** (`domain/subscriber_name.rs`, `subscriber_email.rs`) | none | parse |
| Configuration, HTML pages, health check, CDK wiring | none that changes | — |

### How they interact

The API instances share nothing but the tables and the bucket.  Users and
sessions are items of a second table; actix-session calls the store before a
handler, to load the session of the request's cookie, and after it, to write
what the handler did to the session.  Handlers are interrupted at every
`.await`, and the only awaits that matter are the calls to DynamoDB and S3.  The table's stream feeds two EventBridge pipes; each filters
on `Type`, rewrites the image into a message and puts it on an SQS queue.  Each
queue triggers a Lambda function with batches of ten.  Pipes and queues deliver
at least once and in any order; there is no dead-letter queue.  The subscriber
closes the loop by following the link in a mail; the route the link leads to is
open and takes any key.

### What is hard here

* **Two-step writes without a transaction**: subscriber then token, S3 body
  then issue.  Each step can fail, be applied with its response lost (the SDK
  then repeats it, and the repetition fails its own condition), or be the last
  thing an instance does.
* **Races** between subscriptions of one address, and between a confirmation's
  unconditional put and everything else.
* **One key space** for three kinds of item, and a lookup that ignores `Type`.
* **At-least-once delivery** to concurrent invocations that acknowledge whole
  batches, whatever became of the records.
* **Sessions written by two requests at once**, one of which ends them; a login
  that deletes one session and saves another in two calls; reads that are not
  consistent.
* **Signals counted wrongly** between handlers and the flush extension, which
  share an environment that is frozen between invocations.

`PROJECT.json` lists each hazard at its line with the properties that cover it.

### What makes each component correct

* Subscription: one token per address, owned by a subscriber; a 200 is true and
  stays true; no write turns one item into another; confirmed is for ever.
* Confirmation delivery: each stored token is mailed to its owner, never lost
  unseen, never mailed twice without a redelivery.
* Both together: a link in a mailbox works, a subscription answered 200 is never
  lost unseen, and nobody is confirmed but by a link mailed to them or by a
  request with their own token or their own address.  (The last is not what a
  double opt-in should allow; see section 4.)
* Publishing: an issue in the table has its body in the bucket, whatever fails
  between the two puts.
* Newsletter delivery: each issue is mailed to the confirmed subscribers and to
  nobody else, once, and is never lost unseen.
* Both together: each message leads to a body, and a stored issue reaches every
  subscriber in the index.
* Session store: a state reported as stored is stored, a key belongs to one
  caller, and what was deleted never comes back.
* Authentication: a session is someone who logged in with a password of theirs,
  never passes to another user, and is gone once its author was told so; a
  password changes only at its owner's request, or by the migration.
* Trace flushing: unless its environment is killed, the spans of each record and
  request are flushed, at the latest by the invocation after their own, and the
  extension never holds up an invocation that has returned.

## 2. The modules

| Module | Models | Kind |
|---|---|---|
| `NewsletterTable` | the items the four `put_item` calls write, the condition `attribute_not_exists(PK)`, keys | operators, no state |
| `Subscription` | both subscription handlers, one step per repository call | component |
| `SubscriberLifecycle` | what the service promises about an address | abstract specification |
| `StreamQueue` | DynamoDB stream, EventBridge pipe, SQS queue and Lambda invocations, which both mail senders run on | shared part of the next and of `NewsletterDelivery` |
| `ConfirmationDelivery` | the new-subscriber pipe and the `send_confirmation` function | component |
| `Service` | the constants and variables the two compositions share | declarations |
| `SubscriptionSystem` | `Subscription` and `ConfirmationDelivery` over one table, with requests to confirm that come with mailed links or any other key | composition |
| `Publishing` | `publish_newsletter` and its two puts | component |
| `NewsletterDelivery` | the newsletter pipe and the `send_newsletter` function, one step per call | component |
| `NewsletterSystem` | `Publishing` and `NewsletterDelivery` over table and bucket | composition |
| `SessionLifecycle` | what a session store promises about a key | abstract specification |
| `SessionTable` | the operations of `DynamoDbSessionStore`, one step each, with their outcomes | shared part of the next two |
| `SessionStore` | the store with any clients | component |
| `Auth` | login, logout, password change, migration, guard and session middleware over sessions and users | component |
| `TraceFlush` | one execution environment of a Lambda function with its handler, its flush extension and the signals between them | component |
| `SubscriptionProofs`, `PublishingProofs`, `AuthProofs`, `ConfirmationDeliveryProofs`, `NewsletterDeliveryProofs` | theorems about the module each is named after | proofs |
| `SystemProofs` | theorems about `SubscriptionSystem` and `NewsletterSystem` | proofs |
| `StoreAndFlushProofs` | theorems about `SessionStore` and `TraceFlush`, which stand on their own | proofs |
| `StreamQueueProofs` | lemmas about the queue's steps, for both deliveries | proofs |
| `MC...` | values for the constants | TLC |

### NewsletterTable

A table is a function from keys to items, `NoItem` where there is none.  An item
keeps `Type`, `EmailAddress` and whether it carries `GSI1PK = "confirmed"`.
Left out: `GSI1SK` (a copy of the address), `IssueTitle` and `S3Pointer` (both
functions of the key), the trace attributes (the fault `untraced` of
`StreamQueue`).  `Titles` may overlap both other sets, since an author
types what they like; `Tokens` and `Emails` are disjoint, because a token has 25
alphanumeric characters and `SubscriberEmail::parse` wants an `@`.

### Subscription

`pc[r]` names the repository call request `r` makes next, and there is one
action per call, with the source's name; `handler`, `subscriber`, `token` and
`status` are the route, the handler's `subscriber_id` and token, and the HTTP
status of its answer.  A slot `r` serves any number of requests in turn, so
behaviours are unbounded although slots are few, and nothing deadlocks.

`PutIfAbsent` is a conditional put with everything that can become of it:
applied; applied with the answer lost, which the caller sees as an error
because the SDK's repetition fails the condition; refused; failed.  `Faults`
chooses the failures of a run:

| Fault | Stands for |
|---|---|
| `db_error` | a call fails and changes nothing (throttling, time-out before the write) |
| `lost_response` | a put is applied and reported as an error |
| `stale_read` | the query in `get_subscriber_id_from_token` is not consistent and misses an item |
| `token_collision` | the random token is an existing key; without it a token is always fresh |
| `crash` | the instance stops, the Lambda function times out, or the client disconnects and actix drops the handler at an `.await` |

The query finds whatever item has the key: a token, a subscriber (whose
`EmailAddress` it returns just as well) or an issue, which has no
`EmailAddress`, so that the indexing panics and no answer is written.  The
publisher's put of an issue is an action here as well, because it writes the
same table.

Abstracted: the form's name, which nothing stores; what makes a form invalid
(either parser failing, `SubscribeInvalid`); log lines; the distinction between
a crash before and after a put's last answer.

### SubscriberLifecycle

Per address a phase, `unknown`, `pending`, `confirmed`, and the set of tokens
issued for it.  An address is registered once, gets at most one token that no
other address has, and never leaves `confirmed`.  `Subscription` maps its table
to these two variables (`PhaseOf`, `TokensOf`) and implements the
specification.  The lifecycle does not ask for a link before a confirmation:
the handler confirms the owner of any item it finds, so that this is true only
of the whole system, below.

### StreamQueue

`stream` is the set of images that ever passed the pipe's filter, `forwarded`
the pipe's position in it; as SQS does not keep an order, neither needs one.
`queue` is a bag.  An invocation `w` has its `batch` and the position `pos[w]`
of the record it handles next, in the order of the loops in both `invoke`s.
`Acknowledge` deletes the whole batch, as both handlers return
`SqsBatchResponse::default()`; `Fail` is what Lambda and SQS do with a failed
invocation: the whole batch is visible again.

An item stored under an env filter that lets no span through has no
`TraceParent`, and the pipe's template leaves a hole in the message.  What
EventBridge writes there is not specified in the repository: with the fault
`untraced` the model allows text that does not parse (`Skip`, the `continue`
after a failing `parse_context_from`) and an empty string (`Panic`, the `unwrap`
of an empty trace id), next to messages of items stored under another filter.
A panicking record takes its batch with it each time it is delivered.

`DeliveryFaults` chooses the failures of a run: `send_error` (a mail refused),
`send_timeout` (taken, but reported as failed), `read_error` (bucket or table
cannot be read), `untraced`, `crash`, `duplicate`.

External and not in the model: the retention time of the queue (a message that
fails for days is dropped), the relation of the visibility time-out to the
function's time-out (a message visible again while it is handled is the fault
`duplicate`).

### ConfirmationDelivery

The new-subscriber pipe and queue: `TokenStored` is the table's stream, `handle`
the call to the mail provider with its three outcomes, delivered, refused,
delivered but reported as failed.  `mailbox` (a bag) and `outcome` are histories
the properties need.

### SubscriptionSystem

`INSTANCE ConfirmationDelivery WITH stream <- Images`, where `Images` is the set
of token items in the table: the pipe's filter on `Type`.  A step of the API is
thereby a `TokenStored` step of the delivery or invisible to it, and
`ImplementsDelivery` checks that, i.e. that what `ConfirmationDelivery` assumes
about its surroundings (a token is stored once, an address gets one) is true of
the API.

`ConfirmRequest` is the open route: a request comes with any key, as
`startup.rs:173` lets it, and the handler cannot tell a link's token from
another key.  The history `unmailed` collects the keys that came although no
mail carried them as its token by then.  With it `ConfirmedByMailOrOwnKey` can
say what confirms an address: a link with its own token was mailed to it, or its
token or the address itself came unmailed.  The second case is possible because
the lookup takes an address for a token (section 4); that other people's links
and keys, titles and misdirected mails never confirm an address is what is left
of the double opt-in.

### Publishing

`publish_newsletter`, `put_object`, `store_issue_in_dynamo`, with the names of
the source.  The result of the last is dropped (`let _ =`), so that its three
outcomes (stored, refused because the title is a key already, failed) all lead
to `Announce`, the redirect with the flash message.  `announced` records what
authors were told.  `SkipS3` is `use_local`, the setting of local runs, which
goes straight to the second put.  The subscription handlers are actions here,
as the table's other writers.

Abstracted: the form's two contents are one `Bodies` value; an empty title, or
one longer than a DynamoDB key may be, is a `db_error`; the session that
guards the route is in `Auth`.

### NewsletterDelivery

Each invocation makes three kinds of call for a record, `retrieve_newsletter`,
`get_confirmed_subscribers`, and `send_email` once per subscriber; `step[w]` is
the next one, and any action of others may come between two of them.  `index`
is what GSI1 shows of `confirmed` and catches up one address at a time.  The
query reads one page: `FirstPage` is the addresses of the index with fewer than
`PageSize` others before them in the order of the sort key `GSI1SK`, which is
the address.  Addresses are numbers for that reason.  `recipients[w]` is what is
left of the page, a set, and the loop takes its least address next (`IsNext`).
`due` and `refused` record what was asked for and what failed.  The
error of `get_confirmed_subscribers` and of a mail ends the record and is
dropped by `handle_record`; the error of `retrieve_newsletter` ends it, too, and
is logged.  `send_emails_to_subscribers`'s branch for an invalid stored address
is dead: the repository unwraps instead.  The model assumes that it never
panics there, i.e. that `validator` 0.17 in the backend accepts what 0.16 in the
API accepted.

### NewsletterSystem

`stream <- Issued`, the titles whose items are issues, and `confirmed <-
Confirmed`, the addresses whose items carry `GSI1PK`; table and bucket are
shared.  `ImplementsSending` says again that the API is the surroundings the
delivery assumes, above all that it stores an issue only after a body.

### SessionTable, SessionStore, SessionLifecycle

`sessions` is the table; `versions[k]`, every state ever stored under a key, and
`issued`, the keys callers were given, are histories.  Each operation is one
call to DynamoDB and an operator with its outcome as the last argument, so that
`Auth` goes on from the outcome the way actix-session does.  `StoreFaults`:

| Fault | Stands for |
|---|---|
| `db_error` | a call fails and changes nothing |
| `lost_response` | a call is applied and reported as failed |
| `garbled_response` | an update's response cannot be parsed, the only error after which `update` falls back to `save` |
| `stale_read` | `get_item` is not consistent: a state since replaced, or none |
| `key_collision` | the 64 random characters are an existing key |

`update` says of its fallback that "a response error can occur if the condition
expression checking the session exists fails" (`dynamo_db_session_store.rs:242`).
A failed condition is a service error in the SDK, so the fallback is not taken
then, and a session that was deleted is not stored again: `DeletedIsGone` and
`ImplementsLifecycle` depend on that.  It is taken when a response cannot be
parsed, whether the put was applied or not; others may come in between, which is
`UpdateSaves`.  `update_ttl` always fails: its expression names the attribute
`ttl`, a reserved word.  Nothing expires, as the time to live is written in
milliseconds and the table has no TTL attribute (`cdk/lib/api-stack.ts:61-71`).

`SessionStore` lets any client call any operation with any key it may know.
This application's handlers reach `load`, `save` and `delete` only (they put
nothing into a session except at a login, which renews it), `update` is
model-checked for the store's own sake.

`SessionLifecycle`: a key is unused, then open with a state, then ended, and
nothing leads back.  `SessionStore` implements it with "never stored" as unused
and "stored once, not there now" as ended.

### Auth

`request[r]` is the call request `r` makes next, its route and fields, and what
the session middleware holds for it: the session's key and its user.  The steps
are those between two calls to DynamoDB: `receive` (load of the session, guard,
and the handler up to its first call), `validate_credentials`,
`change_password`, `migrate_db`, `renew` and `save` (the middleware's delete and
save after a login), `log_out` (its delete after `purge`).  A cookie holds any
key that was ever issued, ended ones included, as browsers keep old cookies and
two tabs share one.  `password[u]` is the password whose hash is in `u`'s item;
`everStored`, `offered` and `retired` are histories.

`receive` with a request for the migration needs no session: the route is
outside the guarded scope (`startup.rs:138-175`), and `seed` puts the initial
user without a condition, so that it may reset a changed password at any time.
`PasswordsChangeHands` allows just that and nothing else.

A changed password leaves other sessions of its user open, and a change that
read the old password before another change took place is still applied:
`PasswordsChangeHands` says "a password the user had", not "has".

Abstracted: answers and flash messages, the page shown (`page` is any admin page
that reads nothing but the session), Argon2 (a password matches its own hash
only; the fallback hash of an unknown user exists for timing), the lost answer
of a put of a password (the outcome is the same: applied).  Other users than the
administrator are put into the table by hand, as
`tests/api/helpers.rs` does.  Users and sessions share a table; a user name that
equals a random session key is not modelled.

### TraceFlush

One environment from `Register` to `Kill`.  `Invoke` hands the event to handler
and extension at once, `Complete` freezes the environment when both have asked
for the next one.  `buffered` is the set of invocations that have ended spans
not yet exported.  What the three functions do differently is in the guards:
`send_confirmation` signals after each mail it sends and once more at the end,
`send_newsletter` at the end only, the API after each request that its service
answers with `Ok`, which includes the readiness probe of the Lambda web adapter,
a request outside of any invocation.  The backends register the extension before
they run; the API does so in a task of its own, and if that comes too late the
extension fails, and the API runs on without it.

The spans of the Lambda runtime and the root span end after the signal was sent;
they are flushed with the next invocation and not counted.  `FlushFaults`:
`send_error`, `panic`, `service_error` (a middleware outside of the routes
returns `Err`), `late_register`.

Lambda (when it invokes, completes, freezes and kills) and the web adapter are
external, modelled from how `main.rs` and the two `bin/lambda` programs use
them.

## 3. The runs

| Run | Question | Distinct states |
|---|---|---|
| `subscription_faults` | all safety properties and the refinement; two requests, two addresses, two tokens, one title equal to an address and one to a token, all faults | 74 580 |
| `subscription_no_token` | *violation*: one failing put leaves a subscriber without a token, and a request with the address in place of a token confirms it | |
| `delivery_faults` | three tokens, two invocations, batches of two, all faults, two redeliveries | 1 462 789 |
| `subscription_system` | what confirms an address, working links, the refinement of the delivery, and that a subscription answered 200 leads to a mail; one request after another with every key, all faults of the API, a title equal to an address, batches of two, one crashing invocation | 492 124 |
| `publishing_faults` | two authors, two bodies, titles equal to an address and to a token, all faults | 57 293 |
| `publishing_overwritten` | *violation*: an announced issue is not what the bucket has, or has no item | |
| `newsletter_faults` | one issue with two bodies, three subscribers, pages of two, two invocations, all faults, one redelivery | 215 121 |
| `newsletter_send_error` | *violation*: one refused mail costs the others theirs | |
| `newsletter_system` | mails go to confirmed addresses, messages lead to bodies, the refinement of the delivery, and that an issue reaches the index's subscribers; two addresses, one of them also a title, failing puts, one redelivery | 132 597 |
| `session_store` | what the store reports is true and the lifecycle is implemented; two clients, three keys, two states, all faults | 48 600 |
| `auth_faults` | all safety properties of `Auth`; two requests at a time, two users with two passwords, three session keys, all faults | 1 418 930 |
| `trace_flush` | the three functions, what each flush covers, and that returned invocations complete; three invocations per environment, batches of up to three records, all faults | 1 462 |

**Bounds.**  Two requests (or authors) are enough for every race of two steps;
slots are reused, so sequences are not bounded.  Races of more requests are
covered by the proofs.  `subscription_system` has one
request slot, which leaves room for liveness and for the crash of an invocation
between the two mails of its batch: its requests come one after another, each
with any key and given up at any call.  Races between requests are in
`subscription_faults`, and for the whole system in the proofs, which cover its
safety properties and the safety half of `OkIsMailed` (`OkIsNotLost`) for any
number of requests.  Two addresses with two tokens make collisions and
mix-ups possible.  Batches of two are the smallest in which a record is handled
before and after another, and three tokens leave one message outside a full
batch.  Three subscribers with pages of two leave one behind the page.
Three session keys are one more than two concurrent logins need, so that a
session can end and another be opened in its place; `KeyLeft` refuses a login,
or a save, that would find no key left, and nothing else is bounded there.  Two
passwords suffice for a change and its reversal.  Three invocations of one
environment let a signal of the first reach a flush of the third; batches of
three leave up to three signals over, more than the two invocations left can
use.  `MaxRedeliveries` bounds crashes, panics and duplications in one behaviour
(each would add copies without end); two allow a redelivery of a redelivery.

**Deadlock** is checked except for the two deliveries alone, which stop when
everything is stored and handled (or, at the bound on redeliveries, before a
record that panics).

**Fairness** is assumed only where liveness is checked.  In `TraceFlush`: weak
fairness of the handler, of the extension and of Lambda's `Complete`, as tokio
runs both tasks of an environment that is not frozen; none of `Invoke`, of
`Kill` or of the exporter.  In the two systems: weak fairness of the pipe per
image, of receiving, and of each invocation's own steps; none of crashes, of
which there are finitely many, and none of the API, of subscribers or of the index: a subscriber is obliged to nothing, and both
liveness properties start from something stored.  Pipe and event source poll
without end, and Lambda runs an invocation until it returns or dies, which is
all that is assumed.  The mail provider refuses nothing in these runs.

**Mutants.**  Definitions commented as mutants (`insert_subscriber_ignoring_result`,
`AcknowledgeEarly`, ...) are plausible bugs; each property of a passing run is
shown to fail under one of them.

## 4. Findings

Each has a run that ends in a violation.

1. `subscribe` is not atomic and has no way back: if `store_token` fails, the
   address has a subscriber and no token, no mail is ever sent, and every
   repetition is answered 500 because the first put's condition fails on the
   subscriber it left (`subscription_no_token`, the first half of its trace).
2. `put_object` has no condition, and the result of `store_issue_in_dynamo` is
   dropped: a second issue of the same title replaces the first one's contents,
   even before they are mailed, has no item of its own, and is announced all the
   same (`publishing_overwritten`).  An issue whose put fails is announced, too,
   and never mailed.
3. The first refused mail ends the newsletter for every subscriber after it,
   and nothing is reported (`newsletter_send_error`).  `LossFollowsFailure` says
   who of the page may miss an issue: those at or after a failed mail, and, when a
   redelivery reads again, those a failing read or a fuller page cuts off.
4. The lookup of a token asks for the partition key only and returns the
   `EmailAddress` of whatever item it finds.  A subscriber's item has one too, so
   that a request to confirm with the address in place of a token confirms that
   address, mail or no mail, instead of ending as
   `ConfirmationError::UnknownToken` (`subscription_no_token`, the second half:
   a confirmed address in whose name no token was ever stored).  The double
   opt-in therefore holds only for addresses nobody has sent themselves:
   `ConfirmedByMailOrOwnKey`, checked and proved, is exact about it.

Other disagreements show in what the models had to be, without a run of their
own:

* `get_confirmed_subscribers` makes one query and reads one page: with more
  confirmed subscribers than a page holds, the others never get an issue, and the
  handler logs the length of the page as the number of confirmed subscribers.
  `due`, of which `LossFollowsFailure` speaks, is what that page holds.
* `ConfirmationError::UnknownToken` (401) is dead code: the repository reports
  a missing token as an error, which is answered 500.  `TypeOK` of
  `Subscription`, proved, has no 401 among its statuses.
* The confirmation function acknowledges a record whose mail was refused.
  `LossHasOwnCause` shows that nothing else loses a mail, and that no other
  record of the batch is affected.
* The fallback of the session store's `update` is not taken in the case its
  comment names (section 2, SessionTable), which is just as well; `update_ttl`
  can only fail; sessions never expire.
* `README.md:15` says that trace data is flushed "after every request is
  processed".  That holds of `send_newsletter` (`NewsletterFlushed`).  The
  confirmation function's surplus signals, and the probe's in the API, make a
  flush come before the work it is for; what remains true of all three is
  `LagsByOne`.
* A run of the migration resets the administrator's password.
* `startup.rs:174` registers `POST /newsletters` outside the guarded scope, with
  the handler of the guarded `POST /admin/newsletters`, so that publishing needs
  no login there.  The test `you_must_be_logged_in_to_publish_a_newsletter`
  (`tests/api/newsletter.rs:72`) expects a redirect to the login page, of the
  guarded route only.  `Publishing` assumes no guard, so its properties hold for
  both routes; `Auth` is about the guarded scope and says nothing of this one.

## 5. The proofs

Each theorem holds for every value of the module's constants under the named
assumptions of the modules, which say no more than that values that stand for
"none" are no members of the sets, that faults are among those listed, and that
bounds are numbers.  The assumptions are evaluated in every run.

### Subscription

`SubscriptionProofs` proves for all values of the constants, under
`KeyAssumption` (tokens are no addresses, `None` is no key) and
`FaultsAssumption` only:

* `TypeCorrect`: `Spec => []TypeOK`;
* `AtMostOneToken`, `TokensAreOwned`, `AnswersLast`: the three safety
  invariants of the runs;
* `MeaningKept`: the action property;
* `RefinesLifecycle`: `Spec => Lifecycle!Spec`.

**The argument.**  None of the three invariants is inductive, for what they say
of the table depends on what a handler between two calls has seen.  `IInv` adds

* `LocalsOK`: a handler about to make a call has the locals the call takes;
* `ItemsOK`: a subscriber's item is under its own address, a token's under a
  token and names an address;
* `WinnerOK`: the handler about to store a token for an address is the only
  one, the address is a subscriber and has no token yet.  This is the heart of
  it: the conditional put elects one handler, a lost response elects none, and
  nothing is ever deleted, so nobody is elected again;
* `ConfirmOK`: a handler about to confirm an address has seen it to be a
  subscriber, and it still is.

`TypeInv` and then `TokenInv` are shown to be kept by each action.  From them
follows `StepTableStep`: every step leaves the table alone or is one of four
writes at one key (`Registers`, `Links`, `Confirms`, `Publishes`).  What lasts
(`AnswersLast`, `MeaningKept`) and the refinement need only this lemma, not the
handlers.

### Publishing

`PublishingProofs` proves, under `KeyAssumption` and `PublishingAssumption`
(`None` is no body):

* `PublishingTyped`: `Spec => []TypeOK`;
* `IssuesHaveBodies`: `Spec => []IssueHasBody`;
* `AnnouncedHaveBodies`: `Spec => []AnnouncedHasBody`, what remains of
  `AnnouncedIsPublished` (section 4): whoever is told of a publication, the
  bucket has a body under the title, though the table may lack the issue.

`IssueHasBody` is not inductive, since what it says of the put of an issue
depends on what its handler did before.  `BodyBeforeIssue` adds that a handler
about to put its issue finds a body under its title (its own, or another
author's that replaced it), `FormsOK` that it has a form.  `BodiesStay` (no step
takes a body away) and `IssuesComeFromForms` (no other writer makes an item an
issue) are the two lemmas the rest follows from.

### SessionStore

`StoreAndFlushProofs` proves `TypeOK`, `OkIsStored`, `KeysAreUnique`,
`DeletedIsGone` and the refinement of `SessionLifecycle`, under
`StoreAssumption` and `ClientAssumption` (which keep keys, states and the two
"none" values apart).  `IInv` is the conjunction of the four invariants with
`CallsOK` (a call names the key and the state its operation takes).  `StepReturns` reduces
each of the operations, failures included, to what it returns and to one of
three things it may do to the table: nothing, `Stores`, or `Removes`; a `Stores`
is either under a key never used (`save`) or over a state that is there
(`update`).  That is why nothing deleted comes back, and it is all the
refinement needs.

### Auth

`AuthProofs` proves `TypeOK`, `SessionsAreEarned`, `RetiredIsGone`,
`SessionKeepsItsUser` and `PasswordsChangeHands`, under `AuthAssumption`.  What
a request may do at a call was established at its earlier calls, while others
went on, so the invariant is about the locals of a request between two calls
(`RequestOK`: at the put of a password the current one given is one the user
had; at the save of a session the name and password given were accepted) and
about history (`HistoryEarned`: not only the sessions that are there but all
that were ever stored are of users who earned them, because reads are not
consistent; `OldIsGone`: a login about to save its new session has ended its
old one).  Nothing brings an ended session back because the only call of a
handler that stores one, `save`, does so under a key never used (`SaveOpens`).

### StreamQueue and the two deliveries

`StreamQueueProofs` has no theorem of its own but the lemmas both deliveries
rest on.  For each step of `StreamQueue` they say that it keeps its types
(`QueueTypeOK`), that an image in the stream that waits goes on to wait unless
its record was handled (`...Keeps`, with `MessagesStored`: messages are of
images in the stream), and that without a redelivery a message is in one place
and what is done stays done (`Unique`, `StaysDone`).  They need the bag lemmas
at the head of the module, among them that turning a batch into a bag counts its
records (`ToBagIs`).

`ConfirmationDeliveryProofs` proves `TypeOK`, `EveryTokenAccountedFor`,
`MailMatchesToken`, `OneMailUnlessRedelivered` and `LossHasOwnCause`, under
`DeliveryAssumption`.  `IInv` adds to the queue's invariants that no two images
share a token or an address (`OneTokenEach`), that an outcome is of a stored
token and `"sent"` is true (`OutcomesAreTrue`), and that while nothing was
delivered again the mail of an image is the last thing that happens to it
(`MailedIsDone`), without which `OneMailUnlessRedelivered` is not inductive.
`LossHasOwnCause` follows.

`NewsletterDeliveryProofs` proves `TypeOK`, `EveryIssueAccountedFor`,
`OnlyDueIsMailed`, `OneIssueUnlessRedelivered` and `LossFollowsFailure`, under
`DeliveryAssumption` and `NewsletterAssumption`, i.e. for any number of
subscribers, issues, invocations and redeliveries and any page size.  A record
takes many steps here, so the queue's invariants do not suffice:

* `DueOK`: a delivery that is due is of a stored issue to an address of the
  index, and a loop over subscribers runs over due deliveries only;
* `MailedIsPast`: while nothing was delivered again, an issue mailed to someone
  is done with or its loop is past that subscriber;
* `EveryDueAccountedFor`: a delivery that is due is mailed, or excused (the two
  cases of `LossFollowsFailure`), or pending: its address is still to come in a
  loop, or something was delivered again and a message of the issue has still to
  be read.  `LossFollowsFailure` looks at acknowledged issues only, so that it
  says nothing of the states before, and is what remains of this when nothing
  can be pending any more.

The hard step of the last is a second reading of the page (`PageReadInv`): it
puts everything due before back into a loop, except addresses that newcomers
have pushed off the page, which are excused because the index never shrinks
(`LowerIs`, `PageIs`: an address not on the page has `PageSize` others before
it).  A mail that fails drops the addresses after it, and the order of the loop
makes it their excuse (`AbortInv`).

### SubscriptionSystem

`SystemProofs` proves `ImplementsDelivery`, `ConfirmedByMailOrOwnKey`,
`MailedLinkWorks` and `OkIsNotLost`, under `SystemAssumption` and `KeyAssumption`.  It uses
the proofs of both components, `ApiProofs == INSTANCE SubscriptionProofs` and
`MailingProofs == INSTANCE ConfirmationDeliveryProofs WITH stream <- Images`; the
`Same...` lemmas at the head only say that the two instances of a component, the
system's and the proofs', mean the same.

* `StreamStep`: by the lemma `StepTableStep` of the API's proof, each of its
  steps leaves the token items alone or adds one, whose token and address no
  other has: a `TokenStored`.  So a step of the system is a step of each
  component or leaves it alone (`StepOfApi`, `StepOfMailing`), which is the
  refinement and carries both components' invariants over to the system.
* `LinkInv` is what neither component can say: a request holds a token that was
  mailed or a key in `unmailed`; the address it is about to confirm was mailed,
  or a key in `unmailed` is its token or the address itself; so it is with every
  confirmed one.  The middle part rests on `MailMatchesToken` (the item a mailed
  token leads to names the address it was mailed to) and on `ItemsOK` (the item
  under any other key is a token's or is under its own address); the last on
  `ExcusesLast`: no step gives a token to another address.
* `OkIsNotLost` is the safety half of `OkIsMailed`, which the run checks, and is
  proved for all failures, those that cost a mail included.  It joins `OkIsDurable` (the token of a 200 is
  in the table, hence in the stream) with `EveryTokenAccountedFor` and
  `OutcomesAreTrue`.

### NewsletterSystem

`SystemProofs` goes on to prove `ImplementsSending`, `OnlyConfirmedGetIssues` and
`BodyIsFound`, under `NewsletterSystemAssumption` and `KeyAssumption`, again from
the proofs of both components.

* `PublisherWorldStep`: to the mail sender each write of the API is the
  confirmation of an address, a body, an issue whose title has a body already,
  or invisible.  The third rests on `BodyBeforeIssue`, the others on the
  conditions of the puts: no put takes an issue or a confirmation away, although
  one key may be a title, an address and a token.  That is the refinement
  (`RefinesSending`), and carries both components' invariants over.
* `OnlyConfirmedGetIssues` is `OnlyDueIsMailed` with the table for the stream.
* `BodyIsFound` needs both halves: a message an invocation handles is of an issue
  in the stream (`RecordIsIssued`, from `MessagesStored`), which is an issue in
  the table, which has a body (`IssueHasBody`).

### TraceFlush

`StoreAndFlushProofs` proves `FlushTypeOK`, `NewsletterFlushed` and `LagsByOne`,
under `FlushAssumption` (a batch has at least one record).  `FlushInv` adds

* `SpansInv`: while the extension waits for an event, only spans of the last
  invocation are buffered.  It does so from the end of one flush to the next
  event, and the flush took all there was, for whichever signal;
* `SignalsInv`: in `send_newsletter` a signal is in the channel only from the
  return of the handler to its use in the same invocation, so the flush cannot
  come before the last record; and an invocation that panics does not complete,
  since its extension goes on waiting.

### Only model-checked

All liveness (`OkIsMailed`, `IssueReachesIndex`, `ReturnedCompletes`), which the
prover does not do; TLC checks it in the runs of section 3.  Every invariant,
action property and refinement that a passing run checks is a theorem.

## 6. Not modelled, and the plan

Not modelled:

* **Configuration** (`configuration.rs` of both programs): read once at start-up,
  no state that changes; a value that is wrong stops the program there.
* **Pages** (the `get.rs` files, `dashboard.rs`, `home`, `health_check.rs`): they
  render HTML and change no state.
* **Input validation** is modelled by its two outcomes.  The rules themselves
  are conjunctions of library calls (graphemes, `validator`) on Unicode text;
  `SubscriberEmail` in API and backend use two releases of one library, and that
  they agree is assumed (see `PROJECT.json`, hazards).
* **Infrastructure wiring**: resource declarations; filters, templates and batch
  sizes are in the models of what they connect.

What the plan has left: no invariant that a run checks is without its theorem, so
what remains is to state more.  Candidates are action properties of the two
deliveries (an issue or a token that is done with is not mailed again but after
a redelivery), from the invariants proved already.
