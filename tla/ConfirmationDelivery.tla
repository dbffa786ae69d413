------------------------ MODULE ConfirmationDelivery ------------------------
(***************************************************************************)
(* From a stored token to a mail: the new-subscriber pipe and queue, and   *)
(* the send_confirmation Lambda function.                                  *)
(*                                                                         *)
(* The function's handler logs what goes wrong with a record, if that much,*)
(* and always answers that the whole batch succeeded.                      *)
(***************************************************************************)
EXTENDS StreamQueue

CONSTANTS Emails, Tokens

VARIABLES
    mailbox,    \* the bag of mails the provider has delivered
    outcome     \* outcome[t]: what handlers have made of t's records

vars == <<queueVars, mailbox, outcome>>

Images == [token: Tokens, email: Emails]
Mails == [token: Tokens, to: Emails]
Outcomes == {"sent", "failed", "skipped"}

Init ==
    /\ QueueInit
    /\ mailbox = EmptyBag
    /\ outcome = [t \in Tokens |-> {}]

\* A token item was put into the table: tokens are put once, and never for
\* an address that has one.
TokenStored(i) ==
    /\ \A j \in stream : j.token # i.token /\ j.email # i.email
    /\ stream' = stream \cup {i}
    /\ UNCHANGED <<forwarded, queue, batch, pos, redeliveries, mailbox, outcome>>

\* Mutant: the template takes the token from the wrong attribute.
MessageMixedUp(i) == [token |-> i.email, email |-> i.email]

\* The pipe's input template: email_address and subscriber_token.
Message(i) == [token |-> i.token, email |-> i.email]

Forward(i) ==
    /\ Pipe(i, Message(i))
    /\ UNCHANGED <<mailbox, outcome>>

ReceiveAny(w) ==
    /\ Poll(w)
    /\ UNCHANGED <<mailbox, outcome>>

-----------------------------------------------------------------------------
(* SendConfirmationEventHandler.invoke, one record at a time.              *)

Finished(w, result) ==
    /\ outcome' = [outcome EXCEPT ![Record(w).token] = @ \cup {result}]
    /\ NextRecord(w)

\* parse_context_from fails: continue, without a word.
Skip(w) ==
    /\ HasRecord(w, "unparsable")
    /\ Finished(w, "skipped")
    /\ UNCHANGED mailbox

\* Mutant: the mail goes to the address of the batch's first record.
LinkToFirst(w) == [token |-> Record(w).token, to |-> batch[w][1].image.email]

\* The confirmation link of the record, and whom it is sent to.
Link(w) == [token |-> Record(w).token, to |-> Record(w).email]

Deliver(w) == mailbox' = mailbox (+) SetToBag({Link(w)})

\* The mail is sent, and a failure is only logged.
handle(w) ==
    /\ HasRecord(w, "traced")
    /\ \/ Finished(w, "sent") /\ Deliver(w)
       \/ /\ "send_timeout" \in DeliveryFaults
          /\ Finished(w, "failed")
          /\ Deliver(w)
       \/ /\ "send_error" \in DeliveryFaults
          /\ Finished(w, "failed")
          /\ UNCHANGED mailbox

Stop(w) ==
    /\ Panic(w) \/ Acknowledge(w)
    /\ UNCHANGED <<mailbox, outcome>>

invoke(w) == Skip(w) \/ handle(w) \/ Stop(w)

Delivery ==
    \/ \E i \in stream : Forward(i)
    \/ \E w \in Workers : ReceiveAny(w) \/ invoke(w)
    \/ \E w \in Workers : Crash(w) /\ UNCHANGED <<mailbox, outcome>>

Next == (\E i \in Images : TokenStored(i)) \/ Delivery

Spec == Init /\ [][Next]_vars

-----------------------------------------------------------------------------
(* Properties.                                                             *)

\* Stream, queue and batches hold images and messages of tokens, the mailbox
\* mails with a token's link to an address.
TypeOK ==
    /\ QueueTypeOK(Images)
    /\ IsABag(mailbox) /\ BagToSet(mailbox) \subseteq Mails
    /\ outcome \in [Tokens -> SUBSET Outcomes]

Mailed(i) == [token |-> i.token, to |-> i.email] \in BagToSet(mailbox)

\* Crashes, duplicates and batches handled by several invocations at once
\* never lose a token unseen: until some handler has dealt with it, it is
\* ahead of the pipe, in the queue, or among the records an invocation has
\* yet to handle.
EveryTokenAccountedFor ==
    \A i \in stream : Waiting(i) \/ outcome[i.token] # {}

\* Every mail is the link of a stored token, sent to the address that token
\* belongs to, whichever batch its record came in.
MailMatchesToken ==
    \A m \in BagToSet(mailbox) : [token |-> m.token, email |-> m.to] \in stream

\* Unless an invocation crashed or panicked, or a message was duplicated, no
\* address gets its link twice.
OneMailUnlessRedelivered ==
    redeliveries = 0 => \A m \in BagToSet(mailbox) : mailbox[m] = 1

\* A record that left the queue without a mail had a failed call to the
\* provider, of which a log line remains, or did not parse, of which nothing
\* remains.  No other record of its batch, no crash and no panic costs it the
\* mail.
LossHasOwnCause ==
    \A i \in stream :
        Acknowledged(i) /\ ~ Mailed(i) =>
            outcome[i.token] \cap {"failed", "skipped"} # {}
=============================================================================
