------------------------- MODULE SubscriptionProofs -------------------------
(***************************************************************************)
(* Subscription proved for any number of requests, addresses, tokens and   *)
(* titles, and for any set of failures.                                    *)
(***************************************************************************)
EXTENDS Subscription, TLAPS

-----------------------------------------------------------------------------
(* The inductive invariant.  What the properties say of the table holds    *)
(* because of what each handler knows when it makes its next call.         *)

\* A handler about to make a call has the locals the call takes, and one that
\* answered 200 those its answer is about.
LocalsOK ==
    \A r \in Requests :
        /\ pc[r] \in {"insert_subscriber", "store_token"} =>
              handler[r] = "subscribe" /\ subscriber[r] \in Emails
        /\ pc[r] = "get_subscriber_id_from_token" =>
              handler[r] = "confirm" /\ token[r] \in Keys
        /\ pc[r] = "confirm_subscriber" =>
              handler[r] = "confirm" /\ subscriber[r] \in Emails
        /\ pc[r] = "answered" /\ status[r] = 200 =>
              /\ subscriber[r] \in Emails
              /\ handler[r] = "subscribe" => token[r] \in Tokens

\* A key of each kind holds items of its own kind, or an issue.
ItemsOK ==
    \A k \in Keys :
        /\ table[k].type = "Subscriber" => k \in Emails /\ table[k].email = k
        /\ table[k].type = "SubscriberToken" =>
              k \in Tokens /\ table[k].email \in Emails

\* The handler about to store a token for an address is the one that
\* inserted it: no other is, and the address has no token yet.
WinnerOK ==
    \A r \in Requests :
        pc[r] = "store_token" =>
            /\ IsSubscriber(table, subscriber[r])
            /\ \A t \in Tokens : ~ IsTokenOf(table, t, subscriber[r])
            /\ \A q \in Requests :
                  pc[q] = "store_token" /\ subscriber[q] = subscriber[r] => q = r

\* A confirmation puts over a subscriber's item.
ConfirmOK ==
    \A r \in Requests :
        pc[r] = "confirm_subscriber" => IsSubscriber(table, subscriber[r])

TypeInv == TypeOK /\ LocalsOK /\ ItemsOK

TokenInv ==
    /\ OneTokenPerSubscriber
    /\ TokenOwnerIsSubscriber
    /\ WinnerOK
    /\ ConfirmOK

IInv == TypeInv /\ TokenInv /\ OkIsDurable

-----------------------------------------------------------------------------
(* Type correctness.                                                       *)

LEMMA ItemsTyped ==
    /\ NoItem \in Items
    /\ IssueItem \in Items
    /\ \A e \in Emails : /\ NewSubscriberItem(e) \in Items
                         /\ ConfirmedSubscriberItem(e) \in Items
                         /\ TokenItem(e) \in Items
BY DEF Items, ItemTypes, NoItem, NewSubscriberItem, ConfirmedSubscriberItem,
       TokenItem, IssueItem

LEMMA InitTypeInv == Init => TypeInv
BY ItemsTyped
   DEF Init, TypeInv, TypeOK, LocalsOK, ItemsOK, EmptyTable, NoItem, Calls

LEMMA StepTypeInv == TypeInv /\ [Next]_vars => TypeInv'
<1> SUFFICES ASSUME TypeInv, [Next]_vars
             PROVE  TypeInv'
    OBVIOUS
<1> USE ItemsTyped DEF TypeInv, TypeOK, LocalsOK, ItemsOK, Calls, locals,
                       Free, Call, Answer, Drop, Put, Keys
<1>1. ASSUME NEW r \in Requests, SubscribeInvalid(r)
      PROVE  TypeInv'
    BY <1>1 DEF SubscribeInvalid
<1>2. ASSUME NEW r \in Requests, NEW e \in Emails, Subscribe(r, e)
      PROVE  TypeInv'
    BY <1>2 DEF Subscribe
<1>3. ASSUME NEW r \in Requests, NEW k \in Keys, Confirm(r, k)
      PROVE  TypeInv'
    BY <1>3 DEF Confirm
<1>4. ASSUME NEW r \in Requests, insert_subscriber(r)
      PROVE  TypeInv'
    BY <1>4 DEF insert_subscriber, PutIfAbsent, NewSubscriberItem
<1>5. ASSUME NEW r \in Requests, store_token(r)
      PROVE  TypeInv'
    BY <1>5 DEF store_token, PutIfAbsent, TokenItem
<1>6. ASSUME NEW r \in Requests, get_subscriber_id_from_token(r)
      PROVE  TypeInv'
    BY <1>6 DEF get_subscriber_id_from_token
<1>7. ASSUME NEW r \in Requests, confirm_subscriber(r)
      PROVE  TypeInv'
    BY <1>7 DEF confirm_subscriber, ConfirmedSubscriberItem
<1>8. ASSUME NEW r \in Requests, Crash(r)
      PROVE  TypeInv'
    BY <1>8 DEF Crash
<1>9. ASSUME NEW k \in Titles, store_issue_in_dynamo(k)
      PROVE  TypeInv'
    BY <1>9 DEF store_issue_in_dynamo, IssueItem
<1>10. CASE UNCHANGED vars
    BY <1>10 DEF vars
<1>11. QED
    BY <1>1, <1>2, <1>3, <1>4, <1>5, <1>6, <1>7, <1>8, <1>9, <1>10
       DEF Next, Arrive, Step

\* Every reachable state has the types TypeOK gives: no request is ever
\* answered 401, and a lookup never yields anything but an address.
THEOREM TypeCorrect == Spec => []TypeOK
<1>1. TypeInv => TypeOK
    BY DEF TypeInv
<1>2. QED
    BY InitTypeInv, StepTypeInv, <1>1, PTL DEF Spec

-----------------------------------------------------------------------------
(* One token per subscriber.                                               *)

LEMMA InitTokenInv == Init => TokenInv
BY DEF Init, TokenInv, OneTokenPerSubscriber, TokenOwnerIsSubscriber,
       WinnerOK, ConfirmOK, EmptyTable, NoItem, Keys

LEMMA StepTokenInv == TypeInv /\ TokenInv /\ [Next]_vars => TokenInv'
<1> SUFFICES ASSUME TypeInv, TokenInv, [Next]_vars
             PROVE  TokenInv'
    OBVIOUS
<1> USE KeyAssumption
    DEF TypeInv, TypeOK, LocalsOK, ItemsOK, Calls, locals, Keys,
        TokenInv, OneTokenPerSubscriber, TokenOwnerIsSubscriber,
        WinnerOK, ConfirmOK, IsSubscriber, IsTokenOf, KeyIsFree,
        Free, Call, Answer, Drop, Put
<1>1. ASSUME NEW r \in Requests, SubscribeInvalid(r)
      PROVE  TokenInv'
    BY <1>1 DEF SubscribeInvalid
<1>2. ASSUME NEW r \in Requests, NEW e \in Emails, Subscribe(r, e)
      PROVE  TokenInv'
    BY <1>2 DEF Subscribe
<1>3. ASSUME NEW r \in Requests, NEW k \in Keys, Confirm(r, k)
      PROVE  TokenInv'
    BY <1>3 DEF Confirm
<1>4. ASSUME NEW r \in Requests, insert_subscriber(r)
      PROVE  TokenInv'
    BY <1>4 DEF insert_subscriber, PutIfAbsent, NewSubscriberItem
<1>5. ASSUME NEW r \in Requests, store_token(r)
      PROVE  TokenInv'
    BY <1>5 DEF store_token, PutIfAbsent, TokenItem
<1>6. ASSUME NEW r \in Requests, get_subscriber_id_from_token(r)
      PROVE  TokenInv'
    BY <1>6 DEF get_subscriber_id_from_token
<1>7. ASSUME NEW r \in Requests, confirm_subscriber(r)
      PROVE  TokenInv'
    BY <1>7 DEF confirm_subscriber, ConfirmedSubscriberItem
<1>8. ASSUME NEW r \in Requests, Crash(r)
      PROVE  TokenInv'
    BY <1>8 DEF Crash
<1>9. ASSUME NEW k \in Titles, store_issue_in_dynamo(k)
      PROVE  TokenInv'
    BY <1>9 DEF store_issue_in_dynamo, IssueItem
<1>10. CASE UNCHANGED vars
    BY <1>10 DEF vars
<1>11. QED
    BY <1>1, <1>2, <1>3, <1>4, <1>5, <1>6, <1>7, <1>8, <1>9, <1>10
       DEF Next, Arrive, Step

-----------------------------------------------------------------------------
(* The table's steps.  Every step of the service changes the table at one  *)
(* key at most, in one of four ways; what is proved below about answers,   *)
(* and about two successive states, follows from this alone.               *)

Registers(e) ==
    /\ KeyIsFree(table, e)
    /\ Put(e, NewSubscriberItem(e))

Links(e, t) ==
    /\ KeyIsFree(table, t)
    /\ IsSubscriber(table, e)
    /\ \A u \in Tokens : ~ IsTokenOf(table, u, e)
    /\ Put(t, TokenItem(e))

Confirms(e) ==
    /\ IsSubscriber(table, e)
    /\ Put(e, ConfirmedSubscriberItem(e))

Publishes(k) ==
    /\ KeyIsFree(table, k)
    /\ Put(k, IssueItem)

TableStep ==
    \/ UNCHANGED table
    \/ \E e \in Emails : Registers(e) \/ Confirms(e)
    \/ \E e \in Emails, t \in Tokens : Links(e, t)
    \/ \E k \in Titles : Publishes(k)

LEMMA StepTableStep == TypeInv /\ TokenInv /\ [Next]_vars => TableStep
<1> SUFFICES ASSUME TypeInv, TokenInv, [Next]_vars
             PROVE  TableStep
    OBVIOUS
<1> USE DEF TableStep, TypeInv, LocalsOK, TokenInv, WinnerOK, ConfirmOK
<1>1. ASSUME NEW r \in Requests, Arrive(r) \/ Crash(r)
      PROVE  TableStep
    BY <1>1 DEF Arrive, Crash, SubscribeInvalid, Subscribe, Confirm
<1>2. ASSUME NEW r \in Requests, insert_subscriber(r)
      PROVE  TableStep
    BY <1>2 DEF insert_subscriber, PutIfAbsent, Registers
<1>3. ASSUME NEW r \in Requests, store_token(r)
      PROVE  TableStep
    BY <1>3 DEF store_token, PutIfAbsent, Links
<1>4. ASSUME NEW r \in Requests, get_subscriber_id_from_token(r)
      PROVE  TableStep
    BY <1>4 DEF get_subscriber_id_from_token
<1>5. ASSUME NEW r \in Requests, confirm_subscriber(r)
      PROVE  TableStep
    BY <1>5 DEF confirm_subscriber, Confirms
<1>6. ASSUME NEW k \in Titles, store_issue_in_dynamo(k)
      PROVE  TableStep
    BY <1>6 DEF store_issue_in_dynamo, Publishes
<1>7. CASE UNCHANGED vars
    BY <1>7 DEF vars
<1>8. QED
    BY <1>1, <1>2, <1>3, <1>4, <1>5, <1>6, <1>7 DEF Next, Step

LEMMA TableStepKeeps ==
    ASSUME TypeInv, TableStep
    PROVE  /\ \A k \in Keys : ~ KeyIsFree(table, k) =>
                 /\ table'[k].type = table[k].type
                 /\ table'[k].email = table[k].email
           /\ \A e \in Emails : IsConfirmed(table, e) => IsConfirmed(table', e)
<1> USE DEF TypeInv, TypeOK, TableStep, Registers, Links, Confirms,
            Publishes, Put, KeyIsFree, IsSubscriber, Keys
<1>1. \A k \in Keys : ~ KeyIsFree(table, k) =>
         /\ table'[k].type = table[k].type
         /\ table'[k].email = table[k].email
    BY DEF ItemsOK, ConfirmedSubscriberItem
<1>2. ASSUME NEW e \in Emails, IsConfirmed(table, e)
      PROVE  IsConfirmed(table', e)
    <2>1. table'[e] = table[e] \/ table'[e] = ConfirmedSubscriberItem(e)
        BY <1>2 DEF IsConfirmed
    <2>2. QED
        BY <1>2, <2>1 DEF IsConfirmed, ConfirmedSubscriberItem
<1>3. QED
    BY <1>1, <1>2

-----------------------------------------------------------------------------
(* Answers that last.                                                      *)

LEMMA InitOkIsDurable == Init => OkIsDurable
BY DEF Init, OkIsDurable

\* A request answered 200 before the step stays answered with the same
\* locals or leaves its slot, and the table keeps what its answer says; a
\* request answered 200 by the step has just put what its answer says.
LEMMA StepOkIsDurable == IInv /\ [Next]_vars => OkIsDurable'
<1> SUFFICES ASSUME IInv, [Next]_vars
             PROVE  OkIsDurable'
    OBVIOUS
<1> USE DEF IInv, TypeInv, TypeOK, LocalsOK, Calls, locals, OkIsDurable,
            Free, Call, Answer, Drop
<1>1. /\ \A k \in Keys : ~ KeyIsFree(table, k) =>
            /\ table'[k].type = table[k].type
            /\ table'[k].email = table[k].email
      /\ \A e \in Emails : IsConfirmed(table, e) => IsConfirmed(table', e)
    BY StepTableStep, TableStepKeeps
<1>2. ASSUME NEW q \in Requests, pc[q] = "answered", status[q] = 200,
             UNCHANGED <<handler[q], subscriber[q], token[q]>>
      PROVE  \/ /\ handler'[q] = "subscribe"
                /\ IsSubscriber(table', subscriber'[q])
                /\ IsTokenOf(table', token'[q], subscriber'[q])
             \/ /\ handler'[q] = "confirm"
                /\ IsConfirmed(table', subscriber'[q])
    BY <1>1, <1>2 DEF IsSubscriber, IsTokenOf, KeyIsFree, Keys
<1>3. ASSUME NEW r \in Requests, Arrive(r)
      PROVE  OkIsDurable'
    BY <1>2, <1>3 DEF Arrive, SubscribeInvalid, Subscribe, Confirm
<1>4. ASSUME NEW r \in Requests, insert_subscriber(r)
      PROVE  OkIsDurable'
    BY <1>2, <1>4 DEF insert_subscriber, PutIfAbsent
<1>5. ASSUME NEW r \in Requests, store_token(r)
      PROVE  OkIsDurable'
    BY <1>2, <1>5, KeyAssumption
       DEF store_token, PutIfAbsent, Put, TokenItem, TokenInv, WinnerOK,
           IsSubscriber, IsTokenOf, Keys
<1>6. ASSUME NEW r \in Requests, get_subscriber_id_from_token(r)
      PROVE  OkIsDurable'
    BY <1>2, <1>6 DEF get_subscriber_id_from_token
<1>7. ASSUME NEW r \in Requests, confirm_subscriber(r)
      PROVE  OkIsDurable'
    BY <1>2, <1>7
       DEF confirm_subscriber, Put, ConfirmedSubscriberItem, IsConfirmed,
           IsSubscriber, Keys
<1>8. ASSUME NEW r \in Requests, Crash(r)
      PROVE  OkIsDurable'
    BY <1>2, <1>8 DEF Crash
<1>9. ASSUME NEW k \in Titles, store_issue_in_dynamo(k)
      PROVE  OkIsDurable'
    BY <1>2, <1>9 DEF store_issue_in_dynamo
<1>10. CASE UNCHANGED vars
    BY <1>10 DEF vars
<1>11. QED
    BY <1>3, <1>4, <1>5, <1>6, <1>7, <1>8, <1>9, <1>10 DEF Next, Step

LEMMA Invariance == Spec => []IInv
<1>1. Init => IInv
    BY InitTypeInv, InitTokenInv, InitOkIsDurable DEF IInv
<1>2. IInv /\ [Next]_vars => IInv'
    BY StepTypeInv, StepTokenInv, StepOkIsDurable DEF IInv
<1>3. QED
    BY <1>1, <1>2, PTL DEF Spec

\* However subscriptions race and fail, no address ever has two tokens.
THEOREM AtMostOneToken == Spec => []OneTokenPerSubscriber
<1>1. IInv => OneTokenPerSubscriber
    BY DEF IInv, TokenInv
<1>2. QED
    BY Invariance, <1>1, PTL

\* The owner of every stored token is a subscriber.
THEOREM TokensAreOwned == Spec => []TokenOwnerIsSubscriber
<1>1. IInv => TokenOwnerIsSubscriber
    BY DEF IInv, TokenInv
<1>2. QED
    BY Invariance, <1>1, PTL

\* What a request was told with its 200 stays true.
THEOREM AnswersLast == Spec => []OkIsDurable
<1>1. IInv => OkIsDurable
    BY DEF IInv
<1>2. QED
    BY Invariance, <1>1, PTL

\* No writer of the shared table ever changes whose item a key holds.
THEOREM MeaningKept == Spec => ItemsKeepTheirMeaning
<1>1. IInv /\ [Next]_vars =>
         [\A k \in Keys : ~ KeyIsFree(table, k) =>
              /\ table'[k].type = table[k].type
              /\ table'[k].email = table[k].email]_vars
    BY StepTableStep, TableStepKeeps DEF IInv
<1>2. QED
    BY Invariance, <1>1, PTL DEF Spec, ItemsKeepTheirMeaning

-----------------------------------------------------------------------------
(* The lifecycle of an address.                                            *)

Phase == [e \in Emails |-> PhaseOf(e)]
LinksOf == [e \in Emails |-> TokensOf(table, e)]

LEMMA InitLifecycle == Init => Lifecycle!Init
<1> SUFFICES ASSUME Init
             PROVE  Lifecycle!Init
    OBVIOUS
<1>1. \A k \in Keys : table[k].type = "absent"
    BY DEF Init, EmptyTable, NoItem
<1>2. \A e \in Emails : PhaseOf(e) = "unknown" /\ TokensOf(table, e) = {}
    BY <1>1 DEF PhaseOf, IsSubscriber, TokensOf, IsTokenOf, Keys
<1>3. QED
    BY <1>2 DEF Lifecycle!Init

LEMMA StepLifecycle ==
    IInv /\ [Next]_vars => [Lifecycle!Next]_(Lifecycle!vars)
<1> SUFFICES ASSUME IInv, [Next]_vars
             PROVE  [Lifecycle!Next]_(Lifecycle!vars)
    OBVIOUS
<1> USE KeyAssumption
    DEF IInv, TypeInv, TypeOK, Put, KeyIsFree, IsSubscriber, IsTokenOf, Keys
<1>1. TableStep
    BY StepTableStep
<1>2. CASE UNCHANGED table
    BY <1>2 DEF Lifecycle!vars, PhaseOf, TokensOf
<1>3. ASSUME NEW e \in Emails, Registers(e)
      PROVE  Lifecycle!Register(e)
    <2>1. PhaseOf(e) = "unknown"
        BY <1>3 DEF Registers, PhaseOf
    <2>2. Phase' = [Phase EXCEPT ![e] = "pending"]
        BY <1>3 DEF Registers, Phase, PhaseOf, NewSubscriberItem
    <2>3. LinksOf' = LinksOf
        BY <1>3 DEF Registers, LinksOf, TokensOf, NewSubscriberItem
    <2>4. QED
        BY <2>1, <2>2, <2>3 DEF Lifecycle!Register, Phase, LinksOf
<1>4. ASSUME NEW e \in Emails, Confirms(e)
      PROVE  Lifecycle!Confirm(e) \/ UNCHANGED Lifecycle!vars
    <2>1. Phase' = [Phase EXCEPT ![e] = "confirmed"]
        BY <1>4 DEF Confirms, Phase, PhaseOf, ConfirmedSubscriberItem
    <2>2. LinksOf' = LinksOf
        BY <1>4 DEF Confirms, LinksOf, TokensOf, ConfirmedSubscriberItem
    <2>3. PhaseOf(e) \in {"pending", "confirmed"}
        BY <1>4 DEF Confirms, PhaseOf
    <2>4. CASE PhaseOf(e) = "pending"
        BY <2>1, <2>2, <2>4 DEF Lifecycle!Confirm, Phase, LinksOf
    <2>5. CASE PhaseOf(e) = "confirmed"
        <3>1. Phase' = Phase
            BY <2>1, <2>5 DEF Phase
        <3>2. QED
            BY <3>1, <2>2 DEF Lifecycle!vars, Phase, LinksOf
    <2>6. QED
        BY <2>3, <2>4, <2>5
<1>5. ASSUME NEW e \in Emails, NEW t \in Tokens, Links(e, t)
      PROVE  Lifecycle!IssueLink(e, t)
    <2>1. PhaseOf(e) # "unknown"
        BY <1>5 DEF Links, PhaseOf
    <2>2. TokensOf(table, e) = {} /\ \A f \in Emails : t \notin TokensOf(table, f)
        BY <1>5 DEF Links, TokensOf
    <2>3. Phase' = Phase
        BY <1>5 DEF Links, Phase, PhaseOf, TokenItem
    <2>4. LinksOf' = [LinksOf EXCEPT ![e] = {t}]
        <3>1. \A f \in Emails :
                 TokensOf(table', f) = IF f = e THEN {t} ELSE TokensOf(table, f)
            BY <1>5 DEF Links, TokensOf, TokenItem
        <3>2. QED
            BY <3>1 DEF LinksOf
    <2>5. QED
        BY <2>1, <2>2, <2>3, <2>4 DEF Lifecycle!IssueLink, Phase, LinksOf
<1>6. ASSUME NEW k \in Titles, Publishes(k)
      PROVE  UNCHANGED Lifecycle!vars
    <2>1. Phase' = Phase
        BY <1>6 DEF Publishes, Phase, PhaseOf, IssueItem
    <2>2. LinksOf' = LinksOf
        BY <1>6 DEF Publishes, LinksOf, TokensOf, IssueItem
    <2>3. QED
        BY <2>1, <2>2 DEF Lifecycle!vars, Phase, LinksOf
<1>7. QED
    BY <1>1, <1>2, <1>3, <1>4, <1>5, <1>6 DEF TableStep, Lifecycle!Next

\* The handlers, interleaved and failing in any way, implement the life of an
\* address that SubscriberLifecycle promises.
THEOREM RefinesLifecycle == Spec => ImplementsLifecycle
<1>1. QED
    BY Invariance, InitLifecycle, StepLifecycle, PTL
       DEF Spec, ImplementsLifecycle, Lifecycle!Spec
=============================================================================
