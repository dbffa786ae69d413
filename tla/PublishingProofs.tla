-------------------------- MODULE PublishingProofs --------------------------
(***************************************************************************)
(* Theorems about Publishing, for every choice of its constants.           *)
(***************************************************************************)
EXTENDS Publishing, TLAPS

\* A request between arrival and answer has a form.
FormsOK ==
    \A a \in Authors :
        pc[a] \in {"put_object", "store_issue_in_dynamo"} =>
            title[a] \in Titles /\ body[a] \in Bodies

\* A request about to put its issue has put a body, or one has replaced it.
BodyBeforeIssue ==
    ~ SkipS3 =>
        \A a \in Authors :
            pc[a] = "store_issue_in_dynamo" => object[title[a]] # None

TypeInv == TypeOK /\ FormsOK
IInv == TypeInv /\ BodyBeforeIssue /\ IssueHasBody

LEMMA InitInv == Init => IInv
BY PublishingAssumption
DEF Init, IInv, TypeInv, TypeOK, FormsOK, BodyBeforeIssue, IssueHasBody,
    IsIssue, EmptyTable, NoItem, Items, ItemTypes, Issues, Keys

\* Every request keeps the types, and takes its form from its arrival.
LEMMA TypeStep == TypeInv /\ [Next]_vars => TypeInv'
<1> SUFFICES ASSUME TypeInv, [Next]_vars PROVE TypeInv'
  OBVIOUS
<1> USE DEF TypeInv, TypeOK, FormsOK
<1>1. ASSUME NEW a \in Authors, NEW t \in Titles, NEW b \in Bodies,
             publish_newsletter(a, t, b)
      PROVE  TypeInv'
  BY <1>1 DEF publish_newsletter, FirstCall
<1>2. ASSUME NEW a \in Authors, put_object(a)
      PROVE  TypeInv'
  <2>1. title[a] \in Titles /\ body[a] \in Bodies
    BY <1>2 DEF put_object
  <2>2. object' \in [Titles -> Bodies \cup {None}]
    BY <1>2, <2>1 DEF put_object, StoreBody
  <2> QED
    BY <1>2, <2>1, <2>2 DEF put_object, Continue, Fail, forms
<1>3. ASSUME NEW a \in Authors, store_issue_in_dynamo(a)
      PROVE  TypeInv'
  <2>1. title[a] \in Titles /\ body[a] \in Bodies
    BY <1>3 DEF store_issue_in_dynamo
  <2>2. table' \in [Keys -> Items]
    <3>1. IssueItem \in Items
      BY DEF IssueItem, Items, ItemTypes
    <3> QED
      BY <1>3, <2>1, <3>1 DEF store_issue_in_dynamo, Keys
  <2>3. announced' \subseteq Issues
    BY <1>3, <2>1 DEF store_issue_in_dynamo, Announce, Form, Issues
  <2> QED
    BY <1>3, <2>2, <2>3 DEF store_issue_in_dynamo, Announce, forms
<1>4. ASSUME NEW a \in Authors, Crash(a)
      PROVE  TypeInv'
  BY <1>4 DEF Crash, forms
<1>5. ASSUME Subscriptions
      PROVE  TypeInv'
  <2>1. ASSUME NEW k \in Keys, NEW item \in Items, Write(k, item)
        PROVE  TypeInv'
    BY <2>1 DEF Write, forms
  <2>2. \A e \in Emails :
            /\ NewSubscriberItem(e) \in Items
            /\ ConfirmedSubscriberItem(e) \in Items
            /\ TokenItem(e) \in Items
    BY DEF NewSubscriberItem, ConfirmedSubscriberItem, TokenItem,
           Items, ItemTypes
  <2> QED
    BY <1>5, <2>1, <2>2
    DEF Subscriptions, insert_subscriber, store_token, confirm_subscriber, Keys
<1>6. CASE UNCHANGED vars
  BY <1>6 DEF vars, forms
<1> QED
  BY <1>1, <1>2, <1>3, <1>4, <1>5, <1>6 DEF Next, Step

\* No step takes a body out of the bucket: a put only replaces one.
LEMMA BodiesStay ==
    ASSUME TypeInv, [Next]_vars, NEW t \in Titles, object[t] # None
    PROVE  object'[t] # None
<1>1. ASSUME NEW a \in Authors, StoreBody(a), title[a] \in Titles,
             body[a] \in Bodies
      PROVE  object'[t] # None
  BY <1>1, PublishingAssumption DEF StoreBody, TypeInv, TypeOK
<1>2. CASE \E a \in Authors : put_object(a)
  BY <1>1, <1>2 DEF put_object, TypeInv, FormsOK
<1>3. CASE UNCHANGED object
  BY <1>3
<1> QED
  BY <1>2, <1>3
  DEF Next, vars, Step, publish_newsletter, store_issue_in_dynamo, Crash,
      Subscriptions, insert_subscriber, store_token, confirm_subscriber, Write

\* The only step that makes an item an issue is the put of a request that is
\* past its put of a body.
LEMMA IssuesComeFromForms ==
    ASSUME TypeInv, [Next]_vars, NEW t \in Titles, ~ IsIssue(t), IsIssue(t)'
    PROVE  \E a \in Authors : pc[a] = "store_issue_in_dynamo" /\ title[a] = t
<1>1. CASE \E a \in Authors : store_issue_in_dynamo(a)
  BY <1>1 DEF store_issue_in_dynamo, IsIssue, TypeInv, TypeOK, Keys
<1>2. CASE Subscriptions
  <2>1. ASSUME NEW k \in Keys, NEW item, Write(k, item),
               item.type # "NewsletterIssue"
        PROVE  FALSE
    BY <2>1 DEF Write, IsIssue, TypeInv, TypeOK, Keys
  <2> QED
    BY <1>2, <2>1
    DEF Subscriptions, insert_subscriber, store_token, confirm_subscriber,
        NewSubscriberItem, ConfirmedSubscriberItem, TokenItem, Keys
<1>3. CASE UNCHANGED table
  BY <1>3 DEF IsIssue
<1> QED
  BY <1>1, <1>2, <1>3
  DEF Next, vars, Step, publish_newsletter, put_object, Crash

LEMMA BodyStep == IInv /\ [Next]_vars => BodyBeforeIssue' /\ IssueHasBody'
<1> SUFFICES ASSUME IInv, [Next]_vars, ~ SkipS3
             PROVE  BodyBeforeIssue' /\ IssueHasBody'
  BY DEF BodyBeforeIssue, IssueHasBody
<1>1. ASSUME NEW t \in Titles, IsIssue(t)'
      PROVE  object'[t] # None
  <2>1. object[t] # None
    BY <1>1, IssuesComeFromForms
    DEF IInv, TypeInv, BodyBeforeIssue, IssueHasBody
  <2> QED
    BY <2>1, BodiesStay DEF IInv
<1>2. ASSUME NEW a \in Authors, pc'[a] = "store_issue_in_dynamo"
      PROVE  object'[title'[a]] # None
  <2>1. CASE pc[a] = "store_issue_in_dynamo" /\ title'[a] = title[a]
    BY <2>1, BodiesStay DEF IInv, TypeInv, FormsOK, BodyBeforeIssue
  <2>2. CASE put_object(a)
    BY <1>2, <2>2, PublishingAssumption
    DEF put_object, StoreBody, Continue, Fail, forms,
        IInv, TypeInv, TypeOK, FormsOK
  <2>3. \/ pc[a] = "store_issue_in_dynamo" /\ title'[a] = title[a]
        \/ put_object(a)
    <3>1. ASSUME NEW c \in Authors, NEW t \in Titles, NEW b \in Bodies,
                 publish_newsletter(c, t, b)
          PROVE  pc[a] = "store_issue_in_dynamo" /\ title'[a] = title[a]
      BY <1>2, <3>1 DEF publish_newsletter, FirstCall, IInv, TypeInv, TypeOK
    <3>2. ASSUME NEW c \in Authors, Step(c) \/ Crash(c), ~ put_object(a)
          PROVE  pc[a] = "store_issue_in_dynamo" /\ title'[a] = title[a]
      BY <1>2, <3>2
      DEF Step, put_object, store_issue_in_dynamo, Crash, Continue, Fail,
          Announce, forms, IInv, TypeInv, TypeOK
    <3>3. CASE UNCHANGED <<pc, title>>
      BY <1>2, <3>3
    <3> QED
      BY <3>1, <3>2, <3>3
      DEF Next, vars, forms, Subscriptions, insert_subscriber, store_token,
          confirm_subscriber, Write
  <2> QED
    BY <2>1, <2>2, <2>3
<1> QED
  BY <1>1, <1>2 DEF BodyBeforeIssue, IssueHasBody

THEOREM Inductive == Spec => []IInv
<1>1. IInv /\ [Next]_vars => IInv'
  BY TypeStep, BodyStep DEF IInv
<1> QED
  BY InitInv, <1>1, PTL DEF Spec

\* Every reachable state has the types TypeOK gives: what the bucket has is a
\* body, what authors are told of a form, and 303 and 500 are the answers.
THEOREM PublishingTyped == Spec => []TypeOK
<1>1. IInv => TypeOK
  BY DEF IInv, TypeInv
<1> QED
  BY <1>1, Inductive, PTL

\* An issue in the table has a body in the bucket, for any number of authors,
\* titles and failures: store_newsletter_metadata puts the body first, and
\* returns when that fails.
THEOREM IssuesHaveBodies == Spec => []IssueHasBody
<1>1. IInv => IssueHasBody
  BY DEF IInv
<1> QED
  BY <1>1, Inductive, PTL

\* No author is told of a publication whose title has no body in the bucket,
\* whatever became of the issue's put and whoever else puts under the title:
\* only a request past its own put of a body answers so, and bodies stay.
THEOREM AnnouncedHaveBodies == Spec => []AnnouncedHasBody
<1>1. Init => AnnouncedHasBody
  BY DEF Init, AnnouncedHasBody
<1>2. IInv /\ AnnouncedHasBody /\ [Next]_vars => AnnouncedHasBody'
  <2> SUFFICES ASSUME IInv, AnnouncedHasBody, [Next]_vars, ~ SkipS3,
                      NEW f \in announced'
               PROVE  object'[f.title] # None
    BY DEF AnnouncedHasBody
  <2>1. \/ f \in announced
        \/ \E a \in Authors : pc[a] = "store_issue_in_dynamo" /\ f = Form(a)
    BY DEF Next, vars, Step, publish_newsletter, put_object, Continue, Fail,
           store_issue_in_dynamo, Announce, Crash, Subscriptions,
           insert_subscriber, store_token, confirm_subscriber, Write
  <2>2. f.title \in Titles /\ object[f.title] # None
    BY <2>1 DEF AnnouncedHasBody, IInv, TypeInv, TypeOK, FormsOK, Issues, Form,
                BodyBeforeIssue
  <2> QED
    BY <2>2, BodiesStay DEF IInv
<1> QED
  BY <1>1, <1>2, Inductive, PTL DEF Spec
=============================================================================
