-------------------------- MODULE NewsletterTable --------------------------
(***************************************************************************)
(* The one DynamoDB table that subscribers, confirmation tokens and        *)
(* newsletter issues share.  All three kinds of item live under the same   *)
(* partition key PK: an email address, a token or an issue title.          *)
(* Nothing in the program deletes an item.                                 *)
(*                                                                         *)
(* An item keeps only the attributes the program reads back: Type,         *)
(* EmailAddress, and whether it carries GSI1PK = "confirmed".              *)
(***************************************************************************)
CONSTANTS
    Emails,     \* addresses that SubscriberEmail::parse accepts
    Tokens,     \* strings generate_subscription_token can return
    Titles,     \* issue titles; an author may type any string, an address too
    None        \* no value

Keys == Emails \cup Tokens \cup Titles

\* A token is 25 alphanumeric characters, so it is never an email address.
ASSUME KeyAssumption ==
    /\ Emails \cap Tokens = {}
    /\ None \notin Keys

ItemTypes == {"absent", "Subscriber", "SubscriberToken", "NewsletterIssue"}

Items == [type: ItemTypes, email: Emails \cup {None}, confirmed: BOOLEAN]

NoItem == [type |-> "absent", email |-> None, confirmed |-> FALSE]

\* What each of the four put_item calls of the program writes.
NewSubscriberItem(e) ==
    [type |-> "Subscriber", email |-> e, confirmed |-> FALSE]

ConfirmedSubscriberItem(e) ==
    [type |-> "Subscriber", email |-> e, confirmed |-> TRUE]

TokenItem(e) ==
    [type |-> "SubscriberToken", email |-> e, confirmed |-> FALSE]

IssueItem ==
    [type |-> "NewsletterIssue", email |-> None, confirmed |-> FALSE]

EmptyTable == [k \in Keys |-> NoItem]

\* A put with the condition forgotten, as confirm_subscriber's is written.
KeyIsFreeUnchecked(tab, k) == k \in DOMAIN tab

\* The condition attribute_not_exists(PK) of a put at key k.
KeyIsFree(tab, k) == tab[k].type = "absent"

IsSubscriber(tab, e) == tab[e].type = "Subscriber"
IsConfirmed(tab, e) == IsSubscriber(tab, e) /\ tab[e].confirmed
IsTokenOf(tab, t, e) == tab[t].type = "SubscriberToken" /\ tab[t].email = e
TokensOf(tab, e) == {t \in Tokens : IsTokenOf(tab, t, e)}
=============================================================================
