--------------------- MODULE ConfirmationDeliveryProofs ---------------------
(***************************************************************************)
(* ConfirmationDelivery proved for any number of tokens, addresses and     *)
(* invocations, any batch size, any bound on redeliveries and any set of   *)
(* failures.                                                               *)
(***************************************************************************)
EXTENDS ConfirmationDelivery, StreamQueueProofs

-----------------------------------------------------------------------------
(* The inductive invariant.                                                *)

OneTokenEach == \A i, j \in stream : i.token = j.token => i = j

\* The histories are about stored tokens, and "sent" is true.
OutcomesAreTrue ==
    /\ \A t \in Tokens : outcome[t] # {} => \E i \in stream : i.token = t
    /\ \A i \in stream : "sent" \in outcome[i.token] => Mailed(i)

\* While nothing was delivered again, a mail is the last of its image.
MailedIsDone == redeliveries = 0 => \A i \in stream : Mailed(i) => Done(i)

QueueInv == QueueTypeOK(Images) /\ MessagesStored /\ Unique

HistoryInv ==
    /\ OneTokenEach
    /\ OutcomesAreTrue
    /\ EveryTokenAccountedFor
    /\ MailMatchesToken

OnceInv == MailedIsDone /\ OneMailUnlessRedelivered

IInv == TypeOK /\ QueueInv /\ HistoryInv /\ OnceInv

LEMMA InitInv == Init => IInv
<1> SUFFICES ASSUME Init
             PROVE  IInv
    OBVIOUS
<1>1. IsABag(mailbox) /\ BagToSet(mailbox) = {} /\ stream = {}
    BY DEF Init, QueueInit, IsABag, BagToSet, EmptyBag, SetToBag
<1>2. QueueInv /\ TypeOK
    BY <1>1, InitQueue DEF Init, QueueInv, TypeOK
<1>3. HistoryInv /\ OnceInv
    BY <1>1 DEF Init, HistoryInv, OneTokenEach, OutcomesAreTrue,
       EveryTokenAccountedFor, MailMatchesToken, OnceInv, MailedIsDone,
       OneMailUnlessRedelivered
<1>4. QED
    BY <1>2, <1>3 DEF IInv

-----------------------------------------------------------------------------
(* Steps of stream, pipe and queue.                                        *)

LEMMA StoredImages ==
    ASSUME QueueInv
    PROVE  stream \subseteq Images /\ \A i \in stream : Message(i) = i
BY DEF QueueInv, QueueTypeOK, Images, Message

LEMMA QueueStepInv ==
    ASSUME IInv, QueueTypeOK(Images)', Keeps, Unique', StaysDone,
           UNCHANGED <<stream, mailbox, outcome>>
    PROVE  IInv'
<1>1. QueueInv' /\ TypeOK'
    BY DEF IInv, QueueInv, TypeOK, Keeps
<1>2. HistoryInv'
    BY DEF IInv, HistoryInv, OneTokenEach, OutcomesAreTrue, EveryTokenAccountedFor,
       MailMatchesToken, Mailed, Keeps
<1>3. OnceInv'
    BY DEF IInv, OnceInv, MailedIsDone, OneMailUnlessRedelivered, Mailed, StaysDone
<1>4. QED
    BY <1>1, <1>2, <1>3 DEF IInv

LEMMA ForwardInv ==
    ASSUME IInv, NEW i \in stream, Forward(i)
    PROVE  IInv'
<1>1. i \in Images /\ Pipe(i, i)
    BY StoredImages DEF Forward, IInv
<1>2. UNCHANGED <<stream, mailbox, outcome>>
    BY DEF Forward, Pipe
<1>3. QED
    BY <1>1, <1>2, PipeTypes, PipeKeeps, PipeUnique, QueueStepInv DEF IInv, QueueInv

LEMMA ReceiveInv ==
    ASSUME IInv, NEW w \in Workers, ReceiveAny(w)
    PROVE  IInv'
<1>1. UNCHANGED <<stream, mailbox, outcome>>
    BY DEF ReceiveAny, Poll, Receive
<1>2. QED
    BY <1>1, ReceiveTypes, ReceiveKeeps, ReceiveUnique, QueueStepInv
    DEF ReceiveAny, IInv, QueueInv

LEMMA FailInv ==
    ASSUME IInv, NEW w \in Workers, NEW kind, Redelivers(kind), Fail(w),
           UNCHANGED <<mailbox, outcome>>
    PROVE  IInv'
<1>1. UNCHANGED stream
    BY DEF Fail
<1>2. QED
    BY <1>1, FailTypes, FailKeeps, FailUnique, QueueStepInv DEF IInv, QueueInv

LEMMA AcknowledgeInv ==
    ASSUME IInv, NEW w \in Workers, Acknowledge(w), UNCHANGED <<mailbox, outcome>>
    PROVE  IInv'
<1>1. UNCHANGED stream
    BY DEF Acknowledge
<1>2. QED
    BY <1>1, AcknowledgeTypes, AcknowledgeKeeps, AcknowledgeUnique, QueueStepInv
    DEF IInv, QueueInv

LEMMA TokenStoredInv ==
    ASSUME IInv, NEW i \in Images, TokenStored(i)
    PROVE  IInv'
<1>1. /\ stream' = stream \cup {i} /\ \A j \in stream : j.token # i.token
      /\ UNCHANGED <<forwarded, queue, batch, pos, redeliveries, mailbox, outcome>>
    BY DEF TokenStored
<1>2. /\ QueueTypeOK(Images)' /\ Keeps /\ Unique' /\ StaysDone
      /\ Waiting(i)'
    BY <1>1, StreamGrows DEF IInv, QueueInv, QueueTypeOK
<1>3. QueueInv' /\ TypeOK'
    BY <1>1, <1>2 DEF IInv, QueueInv, TypeOK, Keeps
<1>4. i.token \in Tokens /\ outcome[i.token] = {} /\ ~ Mailed(i)
    BY <1>1 DEF IInv, HistoryInv, OutcomesAreTrue, MailMatchesToken, Mailed, Images
<1>5. HistoryInv'
    BY <1>1, <1>2, <1>4
    DEF IInv, HistoryInv, OneTokenEach, OutcomesAreTrue, EveryTokenAccountedFor,
        MailMatchesToken, Mailed, Keeps
<1>6. OnceInv'
    BY <1>1, <1>2, <1>4
    DEF IInv, OnceInv, MailedIsDone, OneMailUnlessRedelivered, Mailed, StaysDone
<1>7. QED
    BY <1>3, <1>5, <1>6 DEF IInv

-----------------------------------------------------------------------------
(* A record is handled.                                                    *)

LinkOf(i) == [token |-> i.token, to |-> i.email]

LEMMA LinksDiffer ==
    ASSUME NEW i \in Images, NEW j \in Images, LinkOf(i) = LinkOf(j)
    PROVE  i = j
BY DEF LinkOf, Images

\* What all outcomes of a record have in common.
LEMMA RecordIsHandled ==
    ASSUME IInv, NEW w \in Workers, NEW form, HasRecord(w, form),
           NEW result \in Outcomes, Finished(w, result)
    PROVE  /\ QueueInv' /\ StaysDone
           /\ UNCHANGED <<stream, redeliveries>>
           /\ outcome' \in [Tokens -> SUBSET Outcomes]
           /\ \E i \in stream :
                 /\ i \in Images /\ i = Record(w)
                 /\ Waiting(i) /\ (redeliveries = 0 => Done(i)')
                 /\ \A j : Waiting(j) => Waiting(j)' \/ j = i
                 /\ outcome' = [outcome EXCEPT ![i.token] = @ \cup {result}]
<1>1. NextRecord(w) /\ UNCHANGED <<stream, redeliveries>>
    BY DEF Finished, NextRecord
<1>2. /\ QueueTypeOK(Images)' /\ MessagesStored'
      /\ Record(w) \in stream /\ Record(w) \in Images
      /\ \A j : Waiting(j) => Waiting(j)' \/ j = Record(w)
    BY <1>1, NextRecordTypes, NextRecordKeeps DEF IInv, QueueInv
<1>3. /\ Unique' /\ StaysDone /\ Waiting(Record(w))
      /\ redeliveries = 0 => \A i : i = Record(w) => Done(i)'
    BY <1>1, NextRecordUnique DEF IInv, QueueInv
<1>4. PICK i \in stream : i = Record(w)
    BY <1>2
<1>5. outcome' = [outcome EXCEPT ![i.token] = @ \cup {result}]
    BY <1>4 DEF Finished
<1>6. i \in Images /\ i.token \in Tokens
    BY <1>2, <1>4 DEF Images
<1>7. outcome' \in [Tokens -> SUBSET Outcomes]
    BY <1>5, <1>6 DEF IInv, TypeOK
<1>8. QED
    BY <1>1, <1>2, <1>3, <1>4, <1>5, <1>6, <1>7 DEF QueueInv

\* Without a mail.
LEMMA UnmailedInv ==
    ASSUME IInv, NEW w \in Workers, NEW form, HasRecord(w, form),
           NEW result \in {"failed", "skipped"}, Finished(w, result),
           UNCHANGED mailbox
    PROVE  IInv'
<1>1. /\ QueueInv' /\ StaysDone
      /\ UNCHANGED <<stream, redeliveries>>
      /\ outcome' \in [Tokens -> SUBSET Outcomes]
    BY RecordIsHandled DEF Outcomes
<1>2. PICK i \in stream :
         /\ i \in Images
         /\ \A j : Waiting(j) => Waiting(j)' \/ j = i
         /\ outcome' = [outcome EXCEPT ![i.token] = @ \cup {result}]
    BY RecordIsHandled DEF Outcomes
<1>3. i.token \in Tokens /\ \A j \in stream : j.token \in Tokens
    BY <1>2, StoredImages DEF Images, IInv
<1>4. TypeOK'
    BY <1>1 DEF QueueInv, IInv, TypeOK
<1>5. /\ OneTokenEach' /\ MailMatchesToken'
      /\ \A j : Mailed(j)' <=> Mailed(j)
    BY <1>1 DEF IInv, HistoryInv, OneTokenEach, MailMatchesToken, Mailed
<1>6. OutcomesAreTrue'
    BY <1>1, <1>2, <1>3, <1>5 DEF IInv, TypeOK, HistoryInv, OutcomesAreTrue
<1>7. EveryTokenAccountedFor'
    BY <1>1, <1>2, <1>3 DEF IInv, TypeOK, HistoryInv, EveryTokenAccountedFor
<1>8. OnceInv'
    BY <1>1, <1>5 DEF IInv, OnceInv, MailedIsDone, OneMailUnlessRedelivered, StaysDone
<1>9. QED
    BY <1>1, <1>4, <1>5, <1>6, <1>7, <1>8 DEF IInv, HistoryInv

\* With one.
LEMMA DeliveredInv ==
    ASSUME IInv, NEW w \in Workers, NEW form, HasRecord(w, form),
           NEW result \in {"sent", "failed"}, Finished(w, result), Deliver(w)
    PROVE  IInv'
<1>1. /\ QueueInv' /\ StaysDone
      /\ UNCHANGED <<stream, redeliveries>>
      /\ outcome' \in [Tokens -> SUBSET Outcomes]
    BY RecordIsHandled DEF Outcomes
<1>2. PICK i \in stream :
         /\ i \in Images /\ i = Record(w)
         /\ Waiting(i) /\ (redeliveries = 0 => Done(i)')
         /\ \A j : Waiting(j) => Waiting(j)' \/ j = i
         /\ outcome' = [outcome EXCEPT ![i.token] = @ \cup {result}]
    BY RecordIsHandled DEF Outcomes
<1>3. \A j \in stream : j \in Images /\ j.token \in Tokens
    BY StoredImages DEF Images, IInv
<1>4. /\ IsABag(mailbox') /\ BagToSet(mailbox') = BagToSet(mailbox) \cup {LinkOf(i)}
      /\ \A m \in BagToSet(mailbox) \ {LinkOf(i)} : mailbox'[m] = mailbox[m]
      /\ LinkOf(i) \notin BagToSet(mailbox) => mailbox'[LinkOf(i)] = 1
    BY <1>2, BagAddIs DEF Deliver, Link, LinkOf, IInv, TypeOK
<1>5. /\ LinkOf(i) \in Mails
      /\ LinkOf(i).token = i.token /\ [token |-> i.token, email |-> LinkOf(i).to] = i
    BY <1>2 DEF LinkOf, Images, Mails
<1>6. \A j \in stream : Mailed(j)' <=> Mailed(j) \/ j = i
    BY <1>2, <1>3, <1>4, LinksDiffer DEF Mailed, LinkOf
<1>7. TypeOK'
    BY <1>1, <1>4, <1>5 DEF QueueInv, IInv, TypeOK
<1>8. OneTokenEach'
    BY <1>1 DEF IInv, HistoryInv, OneTokenEach
<1>9. MailMatchesToken'
    BY <1>1, <1>2, <1>4, <1>5 DEF IInv, HistoryInv, MailMatchesToken
<1>10. OutcomesAreTrue'
    BY <1>1, <1>2, <1>3, <1>6
    DEF IInv, TypeOK, HistoryInv, OutcomesAreTrue, OneTokenEach
<1>11. EveryTokenAccountedFor'
    BY <1>1, <1>2, <1>3 DEF IInv, TypeOK, HistoryInv, EveryTokenAccountedFor
<1>12. MailedIsDone'
    BY <1>1, <1>2, <1>6 DEF IInv, OnceInv, MailedIsDone, StaysDone
<1>13. OneMailUnlessRedelivered'
    <2>1. redeliveries = 0 => LinkOf(i) \notin BagToSet(mailbox)
        BY <1>2 DEF IInv, OnceInv, MailedIsDone, Mailed, LinkOf, Done
    <2>2. QED
        BY <1>1, <1>4, <2>1 DEF IInv, OnceInv, OneMailUnlessRedelivered
<1>14. QED
    BY <1>1, <1>7, <1>8, <1>9, <1>10, <1>11, <1>12, <1>13
    DEF IInv, HistoryInv, OnceInv

-----------------------------------------------------------------------------
(* Theorems.                                                               *)

LEMMA StepInv == IInv /\ [Next]_vars => IInv'
<1> SUFFICES ASSUME IInv, [Next]_vars
             PROVE  IInv'
    OBVIOUS
<1>1. ASSUME NEW w \in Workers, Skip(w)
      PROVE  IInv'
    BY <1>1, UnmailedInv DEF Skip
<1>2. ASSUME NEW w \in Workers, handle(w)
      PROVE  IInv'
    BY <1>2, UnmailedInv, DeliveredInv DEF handle
<1>3. ASSUME NEW w \in Workers, Stop(w)
      PROVE  IInv'
    BY <1>3, FailInv, AcknowledgeInv DEF Stop, Panic
<1>4. ASSUME NEW w \in Workers, Crash(w), UNCHANGED <<mailbox, outcome>>
      PROVE  IInv'
    BY <1>4, FailInv DEF Crash
<1>5. CASE UNCHANGED vars
    <2>1. QueueTypeOK(Images)' /\ Keeps /\ Unique' /\ StaysDone
        BY <1>5, StreamGrows DEF IInv, QueueInv, QueueTypeOK, vars, queueVars
    <2>2. QED
        BY <1>5, <2>1, QueueStepInv DEF vars, queueVars
<1>6. QED
    BY <1>1, <1>2, <1>3, <1>4, <1>5, TokenStoredInv, ForwardInv, ReceiveInv
    DEF Next, Delivery, invoke

LEMMA Invariance == Spec => []IInv
BY InitInv, StepInv, PTL DEF Spec

\* Streams, queue, batches and mailbox hold what their types say.
THEOREM TypeCorrect == Spec => []TypeOK
<1>1. IInv => TypeOK
    BY DEF IInv
<1>2. QED
    BY Invariance, <1>1, PTL

\* No token is lost before a handler of send_confirmation has dealt with it,
\* whatever crashes, panics or is delivered twice.
THEOREM NoTokenLostUnseen == Spec => []EveryTokenAccountedFor
<1>1. IInv => EveryTokenAccountedFor
    BY DEF IInv, HistoryInv
<1>2. QED
    BY Invariance, <1>1, PTL

\* Every mail has a stored token and goes to the address of that token.
THEOREM LinksGoToTheirAddress == Spec => []MailMatchesToken
<1>1. IInv => MailMatchesToken
    BY DEF IInv, HistoryInv
<1>2. QED
    BY Invariance, <1>1, PTL

\* One mail to an address, unless something was delivered again.
THEOREM OneMail == Spec => []OneMailUnlessRedelivered
<1>1. IInv => OneMailUnlessRedelivered
    BY DEF IInv, OnceInv
<1>2. QED
    BY Invariance, <1>1, PTL

\* Only a failed call to the provider or a record that does not parse costs a
\* token its mail.
THEOREM LossIsExplained == Spec => []LossHasOwnCause
<1>1. ASSUME IInv, NEW i \in stream, Acknowledged(i), ~ Mailed(i)
      PROVE  outcome[i.token] \cap {"failed", "skipped"} # {}
    <2>1. ~ Waiting(i)
        BY <1>1, GoneIsNotWaiting DEF IInv, QueueInv
    <2>2. outcome[i.token] # {} /\ "sent" \notin outcome[i.token]
        BY <1>1, <2>1 DEF IInv, HistoryInv, EveryTokenAccountedFor, OutcomesAreTrue
    <2>3. outcome[i.token] \subseteq Outcomes
        BY <1>1, StoredImages DEF IInv, TypeOK, Images
    <2>4. QED
        BY <2>2, <2>3 DEF Outcomes
<1>2. IInv => LossHasOwnCause
    BY <1>1 DEF LossHasOwnCause
<1>3. QED
    BY Invariance, <1>2, PTL
=============================================================================
