---------------------- MODULE NewsletterDeliveryProofs ----------------------
(***************************************************************************)
(* NewsletterDelivery proved for any number of issues, bodies, subscribers *)
(* and invocations, any batch and page size, any bound on redeliveries and *)
(* any set of failures.                                                    *)
(***************************************************************************)
EXTENDS NewsletterDelivery, StreamQueueProofs

-----------------------------------------------------------------------------
(* The inductive invariant.                                                *)

\* Invocation w is in the loop over the subscribers of issue t.
SendsIssue(w, t) == At(w, "send_email") /\ Record(w) = t

\* What a query asked for is an issue's delivery to an address of the index;
\* and a loop runs over nothing else.
DueOK ==
    /\ \A d \in due : d.title \in stream /\ d.to \in index
    /\ \A w \in Workers, t \in Titles : SendsIssue(w, t) =>
          \A e \in recipients[w] : [title |-> t, to |-> e] \in due

\* While nothing was delivered again, an issue that was mailed to someone is
\* done with, or the loop over its subscribers is past that one.
MailedIsPast ==
    redeliveries = 0 =>
        \A m \in BagToSet(mailbox) :
            \/ Done(m.title)
            \/ \E w \in Workers :
                  SendsIssue(w, m.title) /\ m.to \notin recipients[w]

(* Why a delivery that is due and not made may still be made, or be lost.  *)

Traced(t) == [image |-> t, form |-> "traced"]

\* A message about t is in the queue, or an invocation has still to read the
\* page for it.
ToBeRead(t) ==
    \/ Traced(t) \in BagToSet(queue)
    \/ \E w \in Workers : \E p \in pos[w] .. Len(batch[w]) :
          /\ batch[w][p] = Traced(t)
          /\ p = pos[w] => step[w] # "send_email"

Pending(d) ==
    \/ \E w \in Workers : SendsIssue(w, d.title) /\ d.to \in recipients[w]
    \/ redeliveries > 0 /\ ToBeRead(d.title)

Lower(S, n) == {e \in S : e < n}

Excused(d) ==
    \/ \E r \in refused : r.title = d.title /\ r.to <= d.to
    \/ /\ redeliveries > 0
       /\ \/ outcome[d.title] \cap {"no_body", "no_subscribers"} # {}
          \/ Cardinality(Lower(index, d.to)) >= PageSize

EveryDueAccountedFor ==
    \A d \in due : Mailed(d.title, d.to) \/ Pending(d) \/ Excused(d)

QueueInv == QueueTypeOK(Titles) /\ MessagesStored /\ Unique

HistoryInv == DueOK /\ EveryIssueAccountedFor /\ OnlyDueIsMailed

OnceInv == MailedIsPast /\ OneIssueUnlessRedelivered

IInv == TypeOK /\ QueueInv /\ HistoryInv /\ OnceInv /\ EveryDueAccountedFor

LEMMA InitInv == Init => IInv
<1> SUFFICES ASSUME Init
             PROVE  IInv
    OBVIOUS
<1>1. IsABag(mailbox) /\ BagToSet(mailbox) = {} /\ stream = {} /\ due = {}
    BY DEF Init, QueueInit, IsABag, BagToSet, EmptyBag, SetToBag
<1>2. QueueInv
    BY InitQueue DEF Init, QueueInv
<1>3. TypeOK
    BY <1>1, <1>2 DEF Init, QueueInv, TypeOK, Calls
<1>4. \A w \in Workers, t \in Titles : ~ SendsIssue(w, t)
    BY DEF Init, SendsIssue, At
<1>5. HistoryInv /\ OnceInv /\ EveryDueAccountedFor
    BY <1>1, <1>4
    DEF HistoryInv, DueOK, EveryIssueAccountedFor, OnlyDueIsMailed, OnceInv,
        MailedIsPast, OneIssueUnlessRedelivered, EveryDueAccountedFor
<1>6. QED
    BY <1>2, <1>3, <1>5 DEF IInv

-----------------------------------------------------------------------------
(* Pages.                                                                  *)

LEMMA LowerIs ==
    ASSUME NEW S, S \subseteq Nat, NEW T, T \subseteq S, NEW n \in Nat
    PROVE  /\ Cardinality(Lower(S, n)) \in Nat
           /\ Cardinality(Lower(T, n)) <= Cardinality(Lower(S, n))
<1>1. IsFiniteSet(0 .. n)
    BY FS_Interval
<1>2. Lower(S, n) \subseteq 0 .. n /\ Lower(T, n) \subseteq Lower(S, n)
    <2>1. \A e \in Lower(S, n) : e \in Nat /\ e < n
        BY DEF Lower
    <2>2. Lower(S, n) \subseteq 0 .. n
        BY <2>1
    <2>3. QED
        BY <2>2 DEF Lower
<1>3. IsFiniteSet(Lower(S, n))
    BY <1>1, <1>2, FS_Subset
<1>4. Cardinality(Lower(T, n)) <= Cardinality(Lower(S, n))
    BY <1>2, <1>3, FS_Subset
<1>5. QED
    BY <1>3, <1>4, FS_CardinalityType

\* Whom the first page leaves out has a page of others before them.
LEMMA PageIs ==
    ASSUME NEW S, S \subseteq Nat
    PROVE  /\ FirstPage(S) \subseteq S
           /\ \A e \in S \ FirstPage(S) : Cardinality(Lower(S, e)) >= PageSize
<1>1. FirstPage(S) = {e \in S : Cardinality(Lower(S, e)) < PageSize}
    BY DEF FirstPage, Lower
<1>2. \A e \in S : Cardinality(Lower(S, e)) \in Nat
    BY LowerIs
<1>3. QED
    BY <1>1, <1>2, NewsletterAssumption

-----------------------------------------------------------------------------
(* Steps of pipe, queue and invocations that touch no record.              *)

\* No loop over subscribers begins or moves.
LoopsKept ==
    /\ \A w \in Workers, t \in Titles : SendsIssue(w, t)' =>
          SendsIssue(w, t) /\ recipients'[w] = recipients[w]
    /\ redeliveries' = 0 => \A w \in Workers, t \in Titles : SendsIssue(w, t) =>
          SendsIssue(w, t)' /\ recipients'[w] = recipients[w]

PendingStays == \A d \in Deliveries : Pending(d) => Pending(d)'

HandlersTyped ==
    /\ step \in [Workers -> Calls]
    /\ body \in [Workers -> Bodies \cup {None}]
    /\ recipients \in [Workers -> SUBSET Emails]
    /\ \A w \in Workers : step[w] # "retrieve_newsletter" => body[w] # None

LEMMA Typed ==
    ASSUME IInv
    PROVE  /\ stream \subseteq Titles
           /\ index \subseteq Emails /\ Emails \subseteq Nat
           /\ due \subseteq Deliveries /\ refused \subseteq Deliveries
           /\ \A d \in Deliveries : d.title \in Titles /\ d.to \in Emails
           /\ \A m \in BagToSet(mailbox) : m.title \in Titles /\ m.to \in Emails
           /\ redeliveries \in Nat
           /\ HandlersTyped
BY NewsletterAssumption
DEF IInv, TypeOK, QueueInv, QueueTypeOK, Deliveries, Mails, HandlersTyped

LEMMA QueueStepInv ==
    ASSUME IInv, QueueTypeOK(Titles)', Keeps, Unique', StaysDone,
           redeliveries' >= redeliveries,
           HandlersTyped', LoopsKept, PendingStays,
           UNCHANGED <<stream, worldVars, historyVars>>
    PROVE  IInv'
<1> USE Typed DEF IInv, worldVars, historyVars
<1>1. QueueInv' /\ TypeOK'
    BY DEF QueueInv, TypeOK, Keeps, HandlersTyped
<1>2. HistoryInv'
    BY DEF HistoryInv, DueOK, EveryIssueAccountedFor, OnlyDueIsMailed, Keeps, LoopsKept
<1>3. MailedIsPast'
    BY DEF OnceInv, MailedIsPast, LoopsKept, StaysDone
<1>4. OneIssueUnlessRedelivered'
    BY DEF OnceInv, OneIssueUnlessRedelivered, StaysDone
<1>5. EveryDueAccountedFor'
    <2>1. redeliveries > 0 => redeliveries' > 0
        BY DEF QueueTypeOK
    <2>2. \A d \in due : Excused(d) => Excused(d)'
        BY <2>1 DEF Excused
    <2>3. QED
        BY <2>2 DEF EveryDueAccountedFor, PendingStays, Mailed
<1>6. QED
    BY <1>1, <1>2, <1>3, <1>4, <1>5 DEF OnceInv

LEMMA ForwardInv ==
    ASSUME IInv, NEW t \in stream, Forward(t)
    PROVE  IInv'
<1>1. t \in Titles /\ Pipe(t, t)
    BY Typed DEF Forward
<1>2. /\ UNCHANGED <<stream, batch, pos, worldVars, handlerVars, historyVars>>
      /\ redeliveries' >= redeliveries
    BY Typed DEF Forward, Pipe, Redelivers
<1>3. /\ QueueTypeOK(Titles)' /\ Keeps /\ Unique' /\ StaysDone
    BY <1>1, PipeTypes, PipeKeeps, PipeUnique DEF IInv, QueueInv
<1>4. BagToSet(queue) \subseteq BagToSet(queue')
    <2>1. PICK m : queue' = queue (+) SetToBag({m})
        BY <1>1 DEF Pipe
    <2>2. QED
        BY <2>1, BagAddIs DEF IInv, QueueInv, QueueTypeOK
<1>5. LoopsKept /\ HandlersTyped'
    BY <1>2, Typed
    DEF LoopsKept, HandlersTyped, SendsIssue, At, HasRecord, Record, Running,
        handlerVars
<1>6. PendingStays
    BY <1>2, <1>3, <1>4, Typed
    DEF PendingStays, Pending, ToBeRead, SendsIssue, At, HasRecord, Record, Running,
        handlerVars, QueueTypeOK
<1>7. QED
    BY <1>2, <1>3, <1>5, <1>6, QueueStepInv

LEMMA ReceiveInv ==
    ASSUME IInv, NEW w \in Workers, ReceiveAny(w)
    PROVE  IInv'
<1>1. PICK s \in Seq(MessagesOf(Titles)) :
         /\ Receive(w, s)
         /\ s # <<>>
         /\ BagToSet(queue') \subseteq BagToSet(queue)
         /\ \A m \in BagToSet(queue) \ BagToSet(queue') :
               \E p \in 1 .. Len(s) : s[p] = m
    BY ReceiveIs DEF ReceiveAny, IInv, QueueInv
<1>2. /\ UNCHANGED <<stream, worldVars, historyVars>>
      /\ redeliveries' >= redeliveries
    BY <1>1, Typed DEF ReceiveAny, Receive, Redelivers
<1>3. QueueTypeOK(Titles)' /\ Keeps /\ Unique' /\ StaysDone
    BY ReceiveTypes, ReceiveKeeps, ReceiveUnique DEF ReceiveAny, IInv, QueueInv
<1>4. /\ ~ Running(w)
      /\ batch' = [batch EXCEPT ![w] = s] /\ pos' = [pos EXCEPT ![w] = 1]
      /\ StartRecord(w)
    BY <1>1 DEF Receive, ReceiveAny
<1>5. /\ batch'[w] = s /\ pos'[w] = 1
      /\ step'[w] = "retrieve_newsletter"
      /\ \A v \in Workers \ {w} :
            /\ batch'[v] = batch[v] /\ pos'[v] = pos[v]
            /\ step'[v] = step[v] /\ recipients'[v] = recipients[v]
    BY <1>4, Typed, BatchTypes DEF StartRecord, HandlersTyped, IInv, QueueInv
<1>6. HandlersTyped'
    BY <1>4, Typed DEF StartRecord, HandlersTyped, Calls
<1>7. \A t \in Titles : ~ SendsIssue(w, t) /\ ~ SendsIssue(w, t)'
    BY <1>4, <1>5 DEF SendsIssue, At, HasRecord
<1>8. \A v \in Workers \ {w}, t \in Titles : SendsIssue(v, t)' <=> SendsIssue(v, t)
    BY <1>5 DEF SendsIssue, At, HasRecord, Record, Running
<1>9. LoopsKept
    BY <1>5, <1>7, <1>8 DEF LoopsKept
<1>10. \A t \in Titles : ToBeRead(t) => ToBeRead(t)'
    <2>1. ASSUME NEW t \in Titles, Traced(t) \in BagToSet(queue)
          PROVE  ToBeRead(t)'
        <3>1. CASE Traced(t) \in BagToSet(queue')
            BY <3>1 DEF ToBeRead, Traced
        <3>2. CASE Traced(t) \notin BagToSet(queue')
            <4>1. PICK p \in 1 .. Len(s) : s[p] = Traced(t)
                BY <1>1, <2>1, <3>2
            <4>2. QED
                BY <1>5, <4>1 DEF ToBeRead, Traced
        <3>3. QED
            BY <3>1, <3>2
    <2>2. ASSUME NEW t \in Titles, NEW v \in Workers, NEW p \in pos[v] .. Len(batch[v]),
                 batch[v][p] = Traced(t), p = pos[v] => step[v] # "send_email"
          PROVE  ToBeRead(t)'
        <3>1. v # w
            BY <1>4, <2>2, BatchTypes DEF IInv, QueueInv
        <3>2. QED
            BY <1>5, <2>2, <3>1 DEF ToBeRead, Traced
    <2>3. QED
        BY <2>1, <2>2 DEF ToBeRead
<1>11. PendingStays
    BY <1>2, <1>5, <1>7, <1>8, <1>10, Typed, <1>3
    DEF PendingStays, Pending, QueueTypeOK
<1>12. QED
    BY <1>2, <1>3, <1>6, <1>9, <1>11, QueueStepInv

LEMMA FailInv ==
    ASSUME IInv, NEW w \in Workers, NEW kind, Redelivers(kind), Fail(w),
           UNCHANGED <<worldVars, handlerVars, historyVars>>
    PROVE  IInv'
<1>1. /\ QueueTypeOK(Titles)' /\ Keeps /\ Unique' /\ StaysDone
      /\ BagToSet(queue') =
            BagToSet(queue) \cup {batch[w][p] : p \in 1 .. Len(batch[w])}
    BY FailTypes, FailKeeps, FailUnique DEF IInv, QueueInv
<1>2. /\ UNCHANGED <<stream, pos, step, recipients>>
      /\ redeliveries' > 0 /\ redeliveries' >= redeliveries
    BY Typed DEF Fail, Redelivers, handlerVars
<1>3. /\ batch'[w] = <<>>
      /\ \A v \in Workers \ {w} : batch'[v] = batch[v]
    BY BatchTypes DEF Fail, IInv, QueueInv
<1>4. \A v \in Workers \ {w}, t \in Titles : SendsIssue(v, t)' <=> SendsIssue(v, t)
    BY <1>2, <1>3 DEF SendsIssue, At, HasRecord, Record, Running
<1>5. \A t \in Titles : ~ SendsIssue(w, t)'
    BY <1>3 DEF SendsIssue, At, HasRecord, Running
<1>6. HandlersTyped' /\ LoopsKept
    BY <1>2, <1>4, <1>5, Typed DEF HandlersTyped, LoopsKept, handlerVars
<1>7. ASSUME NEW p \in pos[w] .. Len(batch[w]), NEW t, batch[w][p] = Traced(t)
      PROVE  Traced(t) \in BagToSet(queue')
    BY <1>1, <1>7, BatchTypes DEF IInv, QueueInv
<1>8. \A t \in Titles : ToBeRead(t) => ToBeRead(t)'
    BY <1>1, <1>2, <1>3, <1>7 DEF ToBeRead, Traced
<1>9. ASSUME NEW t \in Titles, SendsIssue(w, t)
      PROVE  ToBeRead(t)'
    <2>1. /\ pos[w] \in pos[w] .. Len(batch[w])
          /\ batch[w][pos[w]] \in MessagesOf(Titles)
          /\ batch[w][pos[w]].form = "traced" /\ batch[w][pos[w]].image = t
        BY <1>9, BatchTypes
        DEF SendsIssue, At, HasRecord, Record, IInv, QueueInv
    <2>2. batch[w][pos[w]] = Traced(t)
        BY <2>1 DEF MessagesOf, Traced
    <2>3. QED
        BY <1>7, <2>1, <2>2 DEF ToBeRead, Traced
<1>10. PendingStays
    BY <1>2, <1>4, <1>8, <1>9, Typed DEF PendingStays, Pending
<1>11. QED
    BY <1>1, <1>2, <1>6, <1>10, QueueStepInv

LEMMA AcknowledgeInv ==
    ASSUME IInv, NEW w \in Workers, Acknowledge(w),
           UNCHANGED <<worldVars, handlerVars, historyVars>>
    PROVE  IInv'
<1>1. QueueTypeOK(Titles)' /\ Keeps /\ Unique' /\ StaysDone
    BY AcknowledgeTypes, AcknowledgeKeeps, AcknowledgeUnique DEF IInv, QueueInv
<1>2. /\ UNCHANGED <<stream, queue, pos, redeliveries, step, recipients>>
      /\ pos[w] > Len(batch[w])
    BY DEF Acknowledge, handlerVars
<1>3. /\ batch'[w] = <<>>
      /\ \A v \in Workers \ {w} : batch'[v] = batch[v]
    BY BatchTypes DEF Acknowledge, IInv, QueueInv
<1>4. \A v \in Workers \ {w}, t \in Titles : SendsIssue(v, t)' <=> SendsIssue(v, t)
    BY <1>2, <1>3 DEF SendsIssue, At, HasRecord, Record, Running
<1>5. \A t \in Titles : ~ SendsIssue(w, t) /\ ~ SendsIssue(w, t)'
    BY <1>2, <1>3, BatchTypes DEF SendsIssue, At, HasRecord, Running, IInv, QueueInv
<1>6. HandlersTyped' /\ LoopsKept
    BY <1>2, <1>4, <1>5, Typed DEF HandlersTyped, LoopsKept, handlerVars
<1>7. ~ \E p : p \in pos[w] .. Len(batch[w])
    BY <1>2, BatchTypes DEF IInv, QueueInv
<1>8. \A t \in Titles : ToBeRead(t) => ToBeRead(t)'
    BY <1>2, <1>3, <1>7 DEF ToBeRead, Traced
<1>9. PendingStays
    BY <1>2, <1>4, <1>5, <1>8, Typed DEF PendingStays, Pending
<1>10. QED
    BY <1>1, <1>2, <1>6, <1>9, Typed, QueueStepInv

-----------------------------------------------------------------------------
(* Steps of the API and of the index.                                      *)

\* What they add never harms.
LEMMA WorldStepInv ==
    ASSUME IInv, QueueTypeOK(Titles)', Keeps, Unique', StaysDone,
           \A t \in stream' \ stream : Waiting(t)',
           stream \subseteq stream', confirmed \subseteq confirmed',
           index \subseteq index', index' \subseteq confirmed', confirmed' \subseteq Emails,
           object' \in [Titles -> Bodies \cup {None}],
           UNCHANGED <<forwarded, queue, batch, pos, redeliveries,
                       handlerVars, historyVars>>
    PROVE  IInv'
<1> USE Typed DEF IInv, handlerVars, historyVars
<1>1. QueueInv' /\ TypeOK'
    BY DEF QueueInv, TypeOK, Keeps
<1>2. \A w \in Workers, t \in Titles : SendsIssue(w, t)' <=> SendsIssue(w, t)
    BY DEF SendsIssue, At, HasRecord, Record, Running
<1>3. HistoryInv'
    BY <1>2 DEF HistoryInv, DueOK, EveryIssueAccountedFor, OnlyDueIsMailed, Keeps
<1>4. MailedIsPast' /\ OneIssueUnlessRedelivered'
    BY <1>2 DEF OnceInv, MailedIsPast, OneIssueUnlessRedelivered, StaysDone
<1>5. \A d \in due : Pending(d) => Pending(d)'
    BY <1>2 DEF Pending, ToBeRead, Traced
<1>6. ASSUME NEW d \in due, Excused(d)
      PROVE  Excused(d)'
    <2>1. /\ d.to \in Nat /\ index' \subseteq Nat
        OBVIOUS
    <2>2. /\ Cardinality(Lower(index', d.to)) \in Nat
          /\ Cardinality(Lower(index, d.to)) \in Nat
          /\ Cardinality(Lower(index, d.to)) <= Cardinality(Lower(index', d.to))
        BY <2>1, LowerIs
    <2>3. QED
        BY <1>6, <2>2, NewsletterAssumption DEF Excused
<1>7. EveryDueAccountedFor'
    BY <1>5, <1>6 DEF EveryDueAccountedFor, Mailed
<1>8. QED
    BY <1>1, <1>3, <1>4, <1>7 DEF OnceInv

LEMMA QueueStands ==
    ASSUME IInv, UNCHANGED queueVars
    PROVE  /\ QueueTypeOK(Titles)' /\ Keeps /\ Unique' /\ StaysDone
           /\ \A t \in stream' \ stream : Waiting(t)'
BY StreamGrows, Typed DEF queueVars, IInv, QueueInv

LEMMA WorldInv ==
    ASSUME IInv, World \/ \E e \in confirmed : IndexCatchesUp(e)
    PROVE  IInv'
<1> USE Typed DEF IInv, TypeOK, queueVars
<1>1. ASSUME NEW e \in Emails, SubscriberConfirmed(e)
      PROVE  IInv'
    BY <1>1, QueueStands, WorldStepInv DEF SubscriberConfirmed
<1>2. ASSUME NEW e \in confirmed, IndexCatchesUp(e)
      PROVE  IInv'
    BY <1>2, QueueStands, WorldStepInv DEF IndexCatchesUp
<1>3. ASSUME NEW t \in Titles, NEW b \in Bodies, BodyStored(t, b)
      PROVE  IInv'
    BY <1>3, QueueStands, WorldStepInv DEF BodyStored
<1>4. ASSUME NEW t \in Titles, IssueStored(t)
      PROVE  IInv'
    <2>1. /\ QueueTypeOK(Titles)' /\ Keeps /\ Unique' /\ StaysDone
          /\ \A u \in stream' \ stream : Waiting(u)'
        BY <1>4, StreamGrows DEF IssueStored, QueueInv
    <2>2. QED
        BY <1>4, <2>1, WorldStepInv DEF IssueStored, worldVars
<1>5. QED
    BY <1>1, <1>2, <1>3, <1>4 DEF World

-----------------------------------------------------------------------------
(* Mails.                                                                  *)

\* Invocation w mails the next subscriber of its record, or nobody.
MailStep(w) ==
    \/ UNCHANGED mailbox
    \/ At(w, "send_email") /\ \E e \in recipients[w] : Deliver(w, e)

LEMMA DeliverIs ==
    ASSUME IInv, NEW w \in Workers, At(w, "send_email"), NEW e \in recipients[w],
           Deliver(w, e)
    PROVE  \E m \in Mails :
              /\ m.title = Record(w) /\ m.to = e
              /\ [title |-> m.title, to |-> e] \in due
              /\ IsABag(mailbox') /\ BagToSet(mailbox') = BagToSet(mailbox) \cup {m}
              /\ \A n \in BagToSet(mailbox) \ {m} : mailbox'[n] = mailbox[n]
              /\ m \notin BagToSet(mailbox) => mailbox'[m] = 1
              /\ redeliveries = 0 =>
                    \A n \in BagToSet(mailbox) : ~ (n.title = m.title /\ n.to = e)
<1> DEFINE m == [title |-> Record(w), body |-> body[w], to |-> e]
<1>1. /\ pos[w] \in 1 .. Len(batch[w]) /\ Running(w)
      /\ batch[w][pos[w]] \in MessagesOf(Titles)
    BY BatchTypes DEF At, HasRecord, IInv, QueueInv
<1>2. Record(w) \in Titles
    BY <1>1 DEF Record, MessagesOf
<1>3. PICK t \in Titles : t = Record(w)
    BY <1>2
<1>4. SendsIssue(w, t)
    BY <1>3 DEF SendsIssue
<1>5. e \in Emails /\ body[w] \in Bodies
    BY Typed DEF HandlersTyped, At
<1>6. m \in Mails /\ m.title = t /\ m.to = e
    BY <1>3, <1>5 DEF Mails
<1>7. [title |-> t, to |-> e] \in due
    BY <1>4, Typed DEF IInv, HistoryInv, DueOK
<1>8. /\ IsABag(mailbox') /\ BagToSet(mailbox') = BagToSet(mailbox) \cup {m}
      /\ \A n \in BagToSet(mailbox) \ {m} : mailbox'[n] = mailbox[n]
      /\ m \notin BagToSet(mailbox) => mailbox'[m] = 1
    BY BagAddIs DEF Deliver, IInv, TypeOK
<1>9. ASSUME redeliveries = 0, NEW n \in BagToSet(mailbox), n.title = t, n.to = e
      PROVE  FALSE
    <2>1. InBatch(t, w, pos[w])
        BY <1>1, <1>3 DEF InBatch, Record
    <2>2. ~ Done(t)
        BY <2>1 DEF Done, Waiting
    <2>3. PICK v \in Workers : SendsIssue(v, t) /\ e \notin recipients[v]
        BY <1>9, <2>2 DEF IInv, OnceInv, MailedIsPast
    <2>4. /\ pos[v] \in 1 .. Len(batch[v])
          /\ batch[v][pos[v]].image = batch[w][pos[w]].image
        BY <1>3, <2>3, BatchTypes DEF SendsIssue, At, HasRecord, Record, IInv, QueueInv
    <2>5. v = w
        BY <1>1, <1>9, <2>4 DEF IInv, QueueInv, Unique, BatchUnique
    <2>6. QED
        BY <2>3, <2>5
<1>10. QED
    BY <1>3, <1>6, <1>7, <1>8, <1>9

LEMMA MailStepInv ==
    ASSUME IInv, NEW w \in Workers, MailStep(w),
           UNCHANGED <<stream, confirmed, redeliveries>>, due \subseteq due'
    PROVE  /\ IsABag(mailbox') /\ BagToSet(mailbox') \subseteq Mails
           /\ BagToSet(mailbox) \subseteq BagToSet(mailbox')
           /\ \A m \in BagToSet(mailbox') \ BagToSet(mailbox) :
                 /\ At(w, "send_email") /\ m.title = Record(w)
                 /\ \E e \in recipients[w] : m.to = e /\ Deliver(w, e)
           /\ OnlyDueIsMailed' /\ OneIssueUnlessRedelivered'
<1> USE DEF IInv, TypeOK, HistoryInv, OnceInv, OnlyDueIsMailed, OneIssueUnlessRedelivered
<1>1. CASE UNCHANGED mailbox
    BY <1>1
<1>2. ASSUME At(w, "send_email"), NEW e \in recipients[w], Deliver(w, e)
      PROVE  /\ IsABag(mailbox') /\ BagToSet(mailbox') \subseteq Mails
             /\ BagToSet(mailbox) \subseteq BagToSet(mailbox')
             /\ \A m \in BagToSet(mailbox') \ BagToSet(mailbox) :
                   m.title = Record(w) /\ m.to = e
             /\ OnlyDueIsMailed' /\ OneIssueUnlessRedelivered'
    <2>1. PICK m \in Mails :
              /\ m.title = Record(w) /\ m.to = e
              /\ [title |-> m.title, to |-> e] \in due
              /\ IsABag(mailbox') /\ BagToSet(mailbox') = BagToSet(mailbox) \cup {m}
              /\ \A n \in BagToSet(mailbox) \ {m} : mailbox'[n] = mailbox[n]
              /\ m \notin BagToSet(mailbox) => mailbox'[m] = 1
              /\ redeliveries = 0 =>
                    \A n \in BagToSet(mailbox) : ~ (n.title = m.title /\ n.to = e)
        BY <1>2, DeliverIs
    <2>2. m.title \in stream /\ m.to \in confirmed
        <3>1. PICK d \in due : d = [title |-> m.title, to |-> e]
            BY <2>1
        <3>2. d.title = m.title /\ d.to = m.to
            BY <2>1, <3>1
        <3>3. QED
            BY <3>2 DEF DueOK
    <2>3. OnlyDueIsMailed'
        BY <2>1, <2>2
    <2>4. OneIssueUnlessRedelivered'
        BY <2>1
    <2>5. QED
        BY <2>1, <2>3, <2>4
<1>3. QED
    BY <1>1, <1>2 DEF MailStep

-----------------------------------------------------------------------------
(* A record ends.                                                          *)

\* What all its ends have in common.
LEMMA RecordEnds ==
    ASSUME IInv, NEW w \in Workers, NEW form, HasRecord(w, form),
           NEW result \in Outcomes, Finished(w, result)
    PROVE  /\ QueueInv' /\ StaysDone /\ UNCHANGED <<stream, redeliveries>>
           /\ HandlersTyped'
           /\ outcome' \in [Titles -> SUBSET Outcomes]
           /\ \A v \in Workers \ {w} : recipients'[v] = recipients[v]
           /\ \A v \in Workers \ {w}, u \in Titles :
                 SendsIssue(v, u)' <=> SendsIssue(v, u)
           /\ \A u \in Titles : ~ SendsIssue(w, u)'
           /\ \E t \in stream :
                 /\ t \in Titles /\ t = Record(w)
                 /\ redeliveries = 0 => Done(t)'
                 /\ \A u : Waiting(u) => Waiting(u)' \/ u = t
                 /\ outcome' = [outcome EXCEPT ![t] = @ \cup {result}]
                 /\ \A u \in Titles : ToBeRead(u) =>
                       \/ ToBeRead(u)'
                       \/ u = t /\ form = "traced" /\ step[w] # "send_email"
<1> USE DEF IInv, QueueInv
<1>1. NextRecord(w) /\ StartRecord(w) /\ UNCHANGED <<stream, redeliveries>>
    BY DEF Finished, NextRecord
<1>2. /\ QueueTypeOK(Titles)' /\ MessagesStored'
      /\ Record(w) \in stream /\ Record(w) \in Titles
      /\ \A u : Waiting(u) => Waiting(u)' \/ u = Record(w)
    BY <1>1, NextRecordTypes, NextRecordKeeps
<1>3. /\ Unique' /\ StaysDone
      /\ redeliveries = 0 => \A u : u = Record(w) => Done(u)'
    BY <1>1, NextRecordUnique
<1>4. PICK t \in stream : t = Record(w)
    BY <1>2
<1>5. outcome' = [outcome EXCEPT ![t] = @ \cup {result}]
    BY <1>4 DEF Finished
<1>6. t \in Titles /\ outcome' \in [Titles -> SUBSET Outcomes]
    BY <1>2, <1>4, <1>5 DEF TypeOK
<1>7. HandlersTyped'
    BY <1>1, Typed DEF StartRecord, HandlersTyped, Calls
<1>8. /\ UNCHANGED <<batch, queue>>
      /\ pos'[w] = pos[w] + 1 /\ step'[w] = "retrieve_newsletter"
      /\ \A v \in Workers \ {w} :
            /\ pos'[v] = pos[v] /\ step'[v] = step[v]
            /\ recipients'[v] = recipients[v]
    BY <1>1, Typed, BatchTypes DEF NextRecord, StartRecord, HandlersTyped
<1>9. \A v \in Workers \ {w}, u \in Titles : SendsIssue(v, u)' <=> SendsIssue(v, u)
    BY <1>8 DEF SendsIssue, At, HasRecord, Record, Running
<1>10. \A u \in Titles : ~ SendsIssue(w, u)'
    BY <1>8 DEF SendsIssue, At
<1>11. ASSUME NEW u \in Titles, ToBeRead(u)
       PROVE  \/ ToBeRead(u)'
              \/ u = t /\ form = "traced" /\ step[w] # "send_email"
    <2>1. CASE Traced(u) \in BagToSet(queue)
        BY <1>8, <2>1 DEF ToBeRead, Traced
    <2>2. ASSUME NEW v \in Workers \ {w}, NEW p \in pos[v] .. Len(batch[v]),
                 batch[v][p] = Traced(u), p = pos[v] => step[v] # "send_email"
          PROVE  ToBeRead(u)'
        BY <1>8, <2>2 DEF ToBeRead, Traced
    <2>3. ASSUME NEW p \in pos[w] .. Len(batch[w]), batch[w][p] = Traced(u),
                 p = pos[w] => step[w] # "send_email"
          PROVE  \/ ToBeRead(u)'
                 \/ u = t /\ form = "traced" /\ step[w] # "send_email"
        <3>1. CASE p = pos[w]
            BY <1>4, <2>3, <3>1 DEF HasRecord, Record, Traced
        <3>2. CASE p # pos[w]
            <4>1. p \in pos'[w] .. Len(batch[w])
                BY <1>8, <3>2, BatchTypes
            <4>2. QED
                BY <1>8, <2>3, <4>1 DEF ToBeRead, Traced
        <3>3. QED
            BY <3>1, <3>2
    <2>4. QED
        BY <1>11, <2>1, <2>2, <2>3 DEF ToBeRead
<1>12. QED
    BY <1>1, <1>2, <1>3, <1>4, <1>5, <1>6, <1>7, <1>8, <1>9, <1>10, <1>11

\* Nothing is lost that is not excused: the subscribers its loop had still to
\* mail were behind a mail that failed, and if it had no loop yet, the read
\* that was to come failed.
LEMMA EndInv ==
    ASSUME IInv, NEW w \in Workers, NEW form, HasRecord(w, form),
           NEW result \in Outcomes, Finished(w, result),
           MailStep(w), UNCHANGED <<worldVars, due>>,
           refused \subseteq refused', refused' \subseteq due,
           form = "traced" /\ step[w] = "send_email" =>
               \A e \in recipients[w] :
                   \E r \in refused' : r.title = Record(w) /\ r.to <= e,
           form = "traced" /\ step[w] # "send_email" =>
               result \in {"no_body", "no_subscribers"}
    PROVE  IInv'
<1> USE Typed
<1>1. /\ QueueInv' /\ StaysDone /\ UNCHANGED <<stream, redeliveries>>
      /\ HandlersTyped'
      /\ outcome' \in [Titles -> SUBSET Outcomes]
      /\ \A v \in Workers \ {w} : recipients'[v] = recipients[v]
      /\ \A v \in Workers \ {w}, u \in Titles :
            SendsIssue(v, u)' <=> SendsIssue(v, u)
      /\ \A u \in Titles : ~ SendsIssue(w, u)'
    BY RecordEnds
<1>2. PICK t \in stream :
         /\ t \in Titles /\ t = Record(w)
         /\ redeliveries = 0 => Done(t)'
         /\ \A u : Waiting(u) => Waiting(u)' \/ u = t
         /\ outcome' = [outcome EXCEPT ![t] = @ \cup {result}]
         /\ \A u \in Titles : ToBeRead(u) =>
               \/ ToBeRead(u)'
               \/ u = t /\ form = "traced" /\ step[w] # "send_email"
    BY RecordEnds
<1>3. /\ IsABag(mailbox') /\ BagToSet(mailbox') \subseteq Mails
      /\ BagToSet(mailbox) \subseteq BagToSet(mailbox')
      /\ \A m \in BagToSet(mailbox') \ BagToSet(mailbox) : m.title = t
      /\ OnlyDueIsMailed' /\ OneIssueUnlessRedelivered'
    BY <1>1, <1>2, MailStepInv DEF worldVars
<1>4. TypeOK'
    BY <1>1, <1>3 DEF QueueInv, IInv, TypeOK, HandlersTyped, worldVars
<1>5. DueOK'
    BY <1>1 DEF IInv, HistoryInv, DueOK, worldVars
<1>6. EveryIssueAccountedFor'
    BY <1>1, <1>2 DEF IInv, TypeOK, HistoryInv, EveryIssueAccountedFor
<1>7. \A u \in Titles : SendsIssue(w, u) => u = t /\ form = "traced"
    BY <1>2 DEF SendsIssue, At, HasRecord
<1>8. MailedIsPast'
    <2> SUFFICES ASSUME redeliveries = 0, NEW m \in BagToSet(mailbox')
                 PROVE  \/ Done(m.title)'
                        \/ \E v \in Workers :
                              SendsIssue(v, m.title)' /\ m.to \notin recipients'[v]
        BY <1>1 DEF MailedIsPast
    <2>1. CASE m.title = t
        BY <1>2, <2>1
    <2>2. CASE m.title # t
        <3>1. m \in BagToSet(mailbox) /\ m.title \in Titles
            BY <1>3, <2>2
        <3>2. \/ Done(m.title)
              \/ \E v \in Workers : SendsIssue(v, m.title) /\ m.to \notin recipients[v]
            BY <3>1 DEF IInv, OnceInv, MailedIsPast
        <3>3. Done(m.title) => Done(m.title)'
            BY <1>1 DEF StaysDone
        <3>4. QED
            BY <1>1, <1>7, <2>2, <3>1, <3>2, <3>3
    <2>3. QED
        BY <2>1, <2>2
<1>9. ASSUME NEW d \in due, Excused(d)
      PROVE  Excused(d)'
    BY <1>1, <1>2, <1>9 DEF Excused, IInv, TypeOK, worldVars
<1>10. ASSUME NEW d \in due, Pending(d)
       PROVE  Pending(d)' \/ Excused(d)'
    <2>1. ASSUME NEW v \in Workers, SendsIssue(v, d.title), d.to \in recipients[v]
          PROVE  Pending(d)' \/ Excused(d)'
        <3>1. CASE v # w
            BY <1>1, <2>1, <3>1 DEF Pending
        <3>2. CASE v = w
            <4>1. d.title = t /\ form = "traced" /\ step[w] = "send_email"
                BY <1>7, <2>1, <3>2 DEF SendsIssue, At
            <4>2. QED
                BY <1>2, <2>1, <3>2, <4>1 DEF Excused
        <3>3. QED
            BY <3>1, <3>2
    <2>2. ASSUME redeliveries > 0, ToBeRead(d.title)
          PROVE  Pending(d)' \/ Excused(d)'
        <3>1. CASE ToBeRead(d.title)'
            BY <1>1, <2>2, <3>1 DEF Pending
        <3>2. CASE ~ ToBeRead(d.title)'
            <4>1. d.title = t /\ result \in {"no_body", "no_subscribers"}
                BY <1>2, <2>2, <3>2
            <4>2. result \in outcome'[d.title]
                BY <1>2, <4>1 DEF IInv, TypeOK
            <4>3. QED
                BY <1>1, <2>2, <4>1, <4>2 DEF Excused
        <3>3. QED
            BY <3>1, <3>2
    <2>3. QED
        BY <1>10, <2>1, <2>2 DEF Pending
<1>11. EveryDueAccountedFor'
    BY <1>3, <1>9, <1>10 DEF IInv, EveryDueAccountedFor, Mailed
<1>12. QED
    BY <1>1, <1>3, <1>4, <1>5, <1>6, <1>8, <1>11 DEF IInv, HistoryInv, OnceInv

-----------------------------------------------------------------------------
(* A record goes on to its next call.                                      *)

LEMMA RecordGoesOn ==
    ASSUME IInv, NEW w \in Workers, HasRecord(w, "traced"), NEW call \in Calls,
           Continue(w, call)
    PROVE  /\ QueueInv' /\ Keeps /\ StaysDone
           /\ UNCHANGED <<stream, queue, batch, pos, redeliveries, outcome>>
           /\ step' \in [Workers -> Calls] /\ step'[w] = call
           /\ \A v \in Workers \ {w} : step'[v] = step[v]
           /\ \A v \in Workers \ {w}, u \in Titles :
                 SendsIssue(v, u)' <=> SendsIssue(v, u)
           /\ \E t \in stream :
                 /\ t \in Titles /\ t = Record(w)
                 /\ \A u \in Titles : SendsIssue(w, u)' <=> u = t /\ call = "send_email"
                 /\ \A u \in Titles : SendsIssue(w, u) <=> u = t /\ step[w] = "send_email"
                 /\ \A u \in Titles : ToBeRead(u) =>
                       \/ ToBeRead(u)'
                       \/ u = t /\ call = "send_email" /\ step[w] # "send_email"
<1>1. UNCHANGED <<stream, forwarded, queue, batch, pos, redeliveries, outcome>>
    BY DEF Continue, queueVars
<1>2. /\ QueueTypeOK(Titles)' /\ Keeps /\ Unique' /\ StaysDone
    BY QueueStands DEF Continue
<1>3. /\ step' \in [Workers -> Calls] /\ step'[w] = call
      /\ \A v \in Workers \ {w} : step'[v] = step[v]
    BY Typed DEF Continue, HandlersTyped
<1>4. \A v \in Workers \ {w}, u \in Titles : SendsIssue(v, u)' <=> SendsIssue(v, u)
    BY <1>1, <1>3 DEF SendsIssue, At, HasRecord, Record, Running
<1>5. pos[w] \in 1 .. Len(batch[w]) /\ batch[w][pos[w]] \in MessagesOf(Titles)
    BY BatchTypes DEF HasRecord, IInv, QueueInv
<1>6. Record(w) \in stream /\ Record(w) \in Titles
    BY <1>5 DEF IInv, QueueInv, MessagesStored, Record, MessagesOf
<1>7. PICK t \in stream : t \in Titles /\ t = Record(w)
    BY <1>6
<1>8. /\ \A u \in Titles : SendsIssue(w, u)' <=> u = t /\ call = "send_email"
      /\ \A u \in Titles : SendsIssue(w, u) <=> u = t /\ step[w] = "send_email"
    BY <1>1, <1>3, <1>7 DEF SendsIssue, At, HasRecord, Record, Running
<1>9. ASSUME NEW u \in Titles, ToBeRead(u)
      PROVE  \/ ToBeRead(u)'
             \/ u = t /\ call = "send_email" /\ step[w] # "send_email"
    <2>1. CASE Traced(u) \in BagToSet(queue)
        BY <1>1, <2>1 DEF ToBeRead, Traced
    <2>2. ASSUME NEW v \in Workers, NEW p \in pos[v] .. Len(batch[v]),
                 batch[v][p] = Traced(u), p = pos[v] => step[v] # "send_email"
          PROVE  \/ ToBeRead(u)'
                 \/ u = t /\ call = "send_email" /\ step[w] # "send_email"
        <3>1. CASE v = w /\ p = pos[w] /\ call = "send_email"
            BY <1>7, <2>2, <3>1 DEF Record, Traced
        <3>2. CASE ~ (v = w /\ p = pos[w] /\ call = "send_email")
            BY <1>1, <1>3, <2>2, <3>2 DEF ToBeRead, Traced
        <3>3. QED
            BY <3>1, <3>2
    <2>3. QED
        BY <1>9, <2>1, <2>2 DEF ToBeRead
<1>10. QED
    BY <1>1, <1>2, <1>3, <1>4, <1>7, <1>8, <1>9 DEF QueueInv, Keeps

\* The body was read.
LEMMA BodyReadInv ==
    ASSUME IInv, NEW w \in Workers, At(w, "retrieve_newsletter"),
           object[Record(w)] # None,
           body' = [body EXCEPT ![w] = object[Record(w)]],
           Continue(w, "get_confirmed_subscribers"),
           UNCHANGED <<recipients, worldVars, mailbox, due, refused>>
    PROVE  IInv'
<1> USE Typed DEF worldVars
<1>1. /\ QueueInv' /\ Keeps /\ StaysDone
      /\ UNCHANGED <<stream, redeliveries, outcome>>
      /\ step' \in [Workers -> Calls] /\ step'[w] = "get_confirmed_subscribers"
      /\ \A v \in Workers \ {w} : step'[v] = step[v]
      /\ \A v \in Workers \ {w}, u \in Titles :
            SendsIssue(v, u)' <=> SendsIssue(v, u)
    BY RecordGoesOn DEF At, Calls
<1>2. PICK t \in stream :
         /\ t \in Titles /\ t = Record(w)
         /\ \A u \in Titles : ~ SendsIssue(w, u)' /\ ~ SendsIssue(w, u)
         /\ \A u \in Titles : ToBeRead(u) => ToBeRead(u)'
    BY RecordGoesOn DEF At, Calls
<1>3. object[t] \in Bodies \cup {None} /\ object[t] # None
    BY <1>2 DEF IInv, TypeOK
<1>4. HandlersTyped'
    BY <1>1, <1>2, <1>3 DEF HandlersTyped
<1>5. LoopsKept /\ PendingStays
    BY <1>1, <1>2 DEF LoopsKept, PendingStays, Pending
<1>6. QueueTypeOK(Titles)' /\ Unique'
    BY <1>1 DEF QueueInv
<1>7. QED
    BY <1>1, <1>4, <1>5, <1>6, QueueStepInv DEF historyVars

\* A page was read.
LEMMA PageReadInv ==
    ASSUME IInv, NEW w \in Workers, At(w, "get_confirmed_subscribers"),
           recipients' = [recipients EXCEPT ![w] = FirstPage(index)],
           due' = due \cup {[title |-> Record(w), to |-> e] : e \in FirstPage(index)},
           Continue(w, "send_email"),
           UNCHANGED <<body, worldVars, mailbox, refused>>
    PROVE  IInv'
<1> USE Typed DEF worldVars
<1>1. /\ QueueInv' /\ Keeps /\ StaysDone
      /\ UNCHANGED <<stream, redeliveries, outcome>>
      /\ step' \in [Workers -> Calls] /\ step'[w] = "send_email"
      /\ \A v \in Workers \ {w} : step'[v] = step[v]
      /\ \A v \in Workers \ {w}, u \in Titles :
            SendsIssue(v, u)' <=> SendsIssue(v, u)
    BY RecordGoesOn DEF At, Calls
<1>2. PICK t \in stream :
         /\ t \in Titles /\ t = Record(w)
         /\ \A u \in Titles : SendsIssue(w, u)' <=> u = t
         /\ \A u \in Titles : ~ SendsIssue(w, u)
         /\ \A u \in Titles : ToBeRead(u) => ToBeRead(u)' \/ u = t
    BY RecordGoesOn DEF At, Calls
<1>3. /\ FirstPage(index) \subseteq index /\ index \subseteq Nat
      /\ \A e \in index \ FirstPage(index) :
            Cardinality(Lower(index, e)) >= PageSize
    BY PageIs
<1>4. /\ recipients'[w] = FirstPage(index)
      /\ \A v \in Workers \ {w} : recipients'[v] = recipients[v]
      /\ recipients' \in [Workers -> SUBSET Emails]
    BY <1>3 DEF HandlersTyped
<1>5. HandlersTyped'
    BY <1>1, <1>4 DEF HandlersTyped, At
<1>6. /\ \A e \in FirstPage(index) : [title |-> t, to |-> e] \in due'
      /\ due \subseteq due'
      /\ \A d \in due' \ due : d.title = t /\ d.to \in FirstPage(index)
    BY <1>2
<1>7. due' \subseteq Deliveries
    <2>1. \A e \in FirstPage(index) : [title |-> t, to |-> e] \in Deliveries
        BY <1>2, <1>3 DEF Deliveries
    <2>2. QED
        BY <1>2, <2>1
<1>8. TypeOK'
    BY <1>1, <1>5, <1>6, <1>7 DEF IInv, TypeOK, QueueInv, HandlersTyped
<1>9. DueOK'
    BY <1>1, <1>2, <1>3, <1>4, <1>6 DEF IInv, HistoryInv, DueOK
<1>10. EveryIssueAccountedFor' /\ OnlyDueIsMailed'
    BY <1>1, <1>6 DEF IInv, HistoryInv, EveryIssueAccountedFor, OnlyDueIsMailed, Keeps
<1>11. MailedIsPast'
    BY <1>1, <1>2, <1>4 DEF IInv, OnceInv, MailedIsPast, StaysDone
<1>12. OneIssueUnlessRedelivered'
    BY <1>1 DEF IInv, OnceInv, OneIssueUnlessRedelivered
<1>13. ASSUME NEW d \in due, Excused(d)
       PROVE  Excused(d)'
    BY <1>1, <1>13 DEF Excused
<1>14. ASSUME NEW d \in due, Pending(d)
       PROVE  Pending(d)' \/ Excused(d)'
    <2>1. ASSUME NEW v \in Workers, SendsIssue(v, d.title), d.to \in recipients[v]
          PROVE  Pending(d)'
        BY <1>1, <1>2, <1>4, <2>1 DEF Pending
    <2>2. ASSUME redeliveries > 0, ToBeRead(d.title)
          PROVE  Pending(d)' \/ Excused(d)'
        <3>1. CASE ToBeRead(d.title)'
            BY <1>1, <2>2, <3>1 DEF Pending
        <3>2. CASE d.title = t /\ d.to \in FirstPage(index)
            BY <1>2, <1>4, <3>2 DEF Pending
        <3>3. CASE d.title = t /\ d.to \notin FirstPage(index)
            <4>1. d.to \in index
                BY DEF IInv, HistoryInv, DueOK
            <4>2. Cardinality(Lower(index, d.to)) >= PageSize
                BY <1>3, <3>3, <4>1
            <4>3. QED
                BY <1>1, <2>2, <4>2 DEF Excused
        <3>4. QED
            BY <1>2, <2>2, <3>1, <3>2, <3>3
    <2>3. QED
        BY <1>14, <2>1, <2>2 DEF Pending
<1>15. ASSUME NEW d \in due' \ due
       PROVE  Pending(d)'
    BY <1>2, <1>4, <1>6 DEF Pending
<1>16. EveryDueAccountedFor'
    BY <1>13, <1>14, <1>15 DEF IInv, EveryDueAccountedFor, Mailed
<1>17. QED
    BY <1>1, <1>8, <1>9, <1>10, <1>11, <1>12, <1>16 DEF IInv, HistoryInv, OnceInv

\* A subscriber was mailed.
LEMMA MailSentInv ==
    ASSUME IInv, NEW w \in Workers, At(w, "send_email"), NEW e \in recipients[w],
           Deliver(w, e),
           recipients' = [recipients EXCEPT ![w] = @ \ {e}],
           Continue(w, "send_email"),
           UNCHANGED <<body, worldVars, due, refused>>
    PROVE  IInv'
<1> USE Typed DEF worldVars
<1>1. /\ QueueInv' /\ Keeps /\ StaysDone
      /\ UNCHANGED <<stream, redeliveries, outcome>>
      /\ step' \in [Workers -> Calls] /\ step'[w] = "send_email"
      /\ \A v \in Workers \ {w} : step'[v] = step[v]
      /\ \A v \in Workers \ {w}, u \in Titles :
            SendsIssue(v, u)' <=> SendsIssue(v, u)
    BY RecordGoesOn DEF At, Calls
<1>2. PICK t \in stream :
         /\ t \in Titles /\ t = Record(w)
         /\ \A u \in Titles : SendsIssue(w, u)' <=> u = t
         /\ \A u \in Titles : SendsIssue(w, u) <=> u = t
         /\ \A u \in Titles : ToBeRead(u) => ToBeRead(u)'
    BY RecordGoesOn DEF At, Calls
<1>3. PICK m \in Mails :
         /\ m.title = t /\ m.to = e
         /\ BagToSet(mailbox') = BagToSet(mailbox) \cup {m}
    BY <1>2, DeliverIs
<1>4. /\ IsABag(mailbox') /\ BagToSet(mailbox') \subseteq Mails
      /\ OnlyDueIsMailed' /\ OneIssueUnlessRedelivered'
    BY <1>1, MailStepInv DEF MailStep
<1>5. /\ recipients'[w] = recipients[w] \ {e}
      /\ \A v \in Workers \ {w} : recipients'[v] = recipients[v]
      /\ recipients' \in [Workers -> SUBSET Emails]
    BY DEF HandlersTyped
<1>6. HandlersTyped'
    BY <1>1, <1>5 DEF HandlersTyped, At
<1>7. TypeOK'
    BY <1>1, <1>4, <1>6 DEF IInv, TypeOK, QueueInv, HandlersTyped
<1>8. DueOK'
    BY <1>1, <1>2, <1>5 DEF IInv, HistoryInv, DueOK
<1>9. EveryIssueAccountedFor'
    BY <1>1 DEF IInv, HistoryInv, EveryIssueAccountedFor, Keeps
<1>10. MailedIsPast'
    <2> SUFFICES ASSUME redeliveries = 0, NEW n \in BagToSet(mailbox')
                 PROVE  \/ Done(n.title)'
                        \/ \E v \in Workers :
                              SendsIssue(v, n.title)' /\ n.to \notin recipients'[v]
        BY <1>1 DEF MailedIsPast
    <2>1. CASE n = m
        BY <1>2, <1>3, <1>5, <2>1
    <2>2. CASE n \in BagToSet(mailbox)
        <3>1. \/ Done(n.title)
              \/ \E v \in Workers : SendsIssue(v, n.title) /\ n.to \notin recipients[v]
            BY <2>2 DEF IInv, OnceInv, MailedIsPast
        <3>2. Done(n.title) => Done(n.title)'
            BY <1>1 DEF StaysDone
        <3>3. n.title \in Titles
            BY <2>2
        <3>4. QED
            BY <1>1, <1>2, <1>5, <3>1, <3>2, <3>3
    <2>3. QED
        BY <1>3, <2>1, <2>2
<1>11. ASSUME NEW d \in due, Excused(d)
       PROVE  Excused(d)'
    BY <1>1, <1>11 DEF Excused
<1>12. ASSUME NEW d \in due, Pending(d)
       PROVE  Pending(d)' \/ Mailed(d.title, d.to)'
    BY <1>1, <1>2, <1>3, <1>5, <1>12 DEF Pending, Mailed
<1>13. EveryDueAccountedFor'
    BY <1>3, <1>11, <1>12 DEF IInv, EveryDueAccountedFor, Mailed
<1>14. QED
    BY <1>1, <1>4, <1>7, <1>8, <1>9, <1>10, <1>13 DEF IInv, HistoryInv, OnceInv

\* A mail that fails, and with it every one that was to come after it.
LEMMA AbortInv ==
    ASSUME IInv, NEW w \in Workers, At(w, "send_email"),
           NEW e \in Emails, IsNext(w, e), Deliver(w, e) \/ UNCHANGED mailbox,
           refused' = refused \cup {[title |-> Record(w), to |-> e]},
           Finished(w, "aborted"), UNCHANGED <<worldVars, due>>
    PROVE  IInv'
<1> DEFINE r == [title |-> Record(w), to |-> e]
<1>1. PICK t \in Titles : t = Record(w)
    BY RecordEnds DEF At, Outcomes
<1>2. SendsIssue(w, t)
    BY <1>1 DEF SendsIssue
<1>3. r \in due
    BY <1>1, <1>2 DEF IInv, HistoryInv, DueOK, IsNext
<1>4. refused' \subseteq due /\ refused \subseteq refused'
    BY <1>3 DEF IInv, TypeOK
<1>5. MailStep(w)
    BY DEF MailStep, IsNext
<1>6. r \in refused' /\ r.title = Record(w) /\ \A d \in recipients[w] : r.to <= d
    BY DEF IsNext
<1>7. \A d \in recipients[w] : \E q \in refused' : q.title = Record(w) /\ q.to <= d
    BY <1>6
<1>8. QED
    BY <1>4, <1>5, <1>7, EndInv DEF At, Outcomes

LEMMA InvokeInv ==
    ASSUME IInv, NEW w \in Workers, invoke(w)
    PROVE  IInv'
<1>1. CASE Skip(w)
    <2>1. refused \subseteq due /\ MailStep(w)
        BY <1>1 DEF Skip, MailStep, IInv, TypeOK
    <2>2. QED
        BY <1>1, <2>1, EndInv DEF Skip, Outcomes
<1>2. CASE retrieve_newsletter(w)
    <2>1. CASE Finished(w, "no_body")
        <3>1. refused \subseteq due /\ MailStep(w)
            BY <1>2 DEF retrieve_newsletter, MailStep, IInv, TypeOK
        <3>2. QED
            BY <1>2, <2>1, <3>1, EndInv DEF retrieve_newsletter, At, Outcomes
    <2>2. QED
        BY <1>2, <2>1, BodyReadInv DEF retrieve_newsletter
<1>3. CASE get_confirmed_subscribers(w)
    <2>1. CASE Finished(w, "no_subscribers") /\ UNCHANGED due
        <3>1. refused \subseteq due /\ MailStep(w)
            BY <1>3 DEF get_confirmed_subscribers, MailStep, IInv, TypeOK
        <3>2. QED
            BY <1>3, <2>1, <3>1, EndInv DEF get_confirmed_subscribers, At, Outcomes
    <2>2. QED
        BY <1>3, <2>1, PageReadInv DEF get_confirmed_subscribers
<1>4. CASE send_email(w)
    <2>1. CASE recipients[w] = {} /\ Finished(w, "sent") /\ UNCHANGED <<mailbox, refused>>
        <3>1. refused \subseteq due /\ MailStep(w)
            BY <2>1 DEF MailStep, IInv, TypeOK
        <3>2. QED
            BY <1>4, <2>1, <3>1, EndInv DEF send_email, At, Outcomes
    <2>2. QED
        BY <1>4, <2>1, MailSentInv, AbortInv DEF send_email, IsNext
<1>5. CASE Stop(w)
    BY <1>5, FailInv, AcknowledgeInv DEF Stop, Panic
<1>6. QED
    BY <1>1, <1>2, <1>3, <1>4, <1>5 DEF invoke

-----------------------------------------------------------------------------
(* Theorems.                                                               *)

LEMMA StepInv == IInv /\ [Next]_vars => IInv'
<1> SUFFICES ASSUME IInv, [Next]_vars
             PROVE  IInv'
    OBVIOUS
<1>1. ASSUME NEW w \in Workers, Crash(w),
             UNCHANGED <<worldVars, handlerVars, historyVars>>
      PROVE  IInv'
    BY <1>1, FailInv DEF Crash
<1>2. CASE UNCHANGED vars
    <2>1. UNCHANGED <<stream, forwarded, queue, batch, pos, redeliveries,
                      handlerVars, worldVars, historyVars>>
        BY <1>2 DEF vars, queueVars
    <2>2. /\ QueueTypeOK(Titles)' /\ Keeps /\ Unique' /\ StaysDone
          /\ \A t \in stream' \ stream : Waiting(t)'
        BY <1>2, QueueStands DEF vars
    <2>3. QED
        BY <2>1, <2>2, WorldStepInv DEF IInv, TypeOK, worldVars
<1>3. QED
    BY <1>1, <1>2, WorldInv, ForwardInv, ReceiveInv, InvokeInv DEF Next, Delivery

LEMMA Invariance == Spec => []IInv
BY InitInv, StepInv, PTL DEF Spec

\* Stream, queue, batches, handlers and mailbox hold what their types say: no
\* handler queries or mails without a body, and none reports a mail as failed
\* that was not due.
THEOREM TypeCorrect == Spec => []TypeOK
<1>1. IInv => TypeOK
    BY DEF IInv
<1>2. QED
    BY Invariance, <1>1, PTL

\* No issue is lost before a handler of send_newsletter has dealt with it.
THEOREM NoIssueLostUnseen == Spec => []EveryIssueAccountedFor
<1>1. IInv => EveryIssueAccountedFor
    BY DEF IInv, HistoryInv
<1>2. QED
    BY Invariance, <1>1, PTL

\* Published issues only are mailed, and to confirmed subscribers only.
THEOREM MailIsDue == Spec => []OnlyDueIsMailed
<1>1. IInv => OnlyDueIsMailed
    BY DEF IInv, HistoryInv
<1>2. QED
    BY Invariance, <1>1, PTL

\* No subscriber gets an issue twice unless something was delivered again.
THEOREM OneIssue == Spec => []OneIssueUnlessRedelivered
<1>1. IInv => OneIssueUnlessRedelivered
    BY DEF IInv, OnceInv
<1>2. QED
    BY Invariance, <1>1, PTL

\* A delivery that was due and is not made has one of three excuses: a mail
\* that failed at or before it, a read that failed on a redelivery, or a page
\* filled by newcomers on a redelivery.
THEOREM LossHasExcuse == Spec => []LossFollowsFailure
<1>1. ASSUME IInv, NEW d \in due, Acknowledged(d.title)
      PROVE  ~ Pending(d)
    <2>1. d.title \in Titles
        BY <1>1, Typed
    <2>2. PICK t \in Titles : t = d.title
        BY <2>1
    <2>3. Traced(t) \notin BagToSet(queue)
        BY <1>1, <2>2 DEF Acknowledged, Queued, Traced
    <2>4. ASSUME NEW w \in Workers, NEW p \in 1 .. Len(batch[w]),
                 batch[w][p].image = t
          PROVE  FALSE
        <3>1. Running(w)
            BY <1>1, <2>4, BatchTypes DEF IInv, QueueInv
        <3>2. QED
            BY <1>1, <2>2, <2>4, <3>1 DEF Acknowledged, InBatch
    <2>5. \A w \in Workers : ~ SendsIssue(w, t)
        BY <1>1, <2>4, BatchTypes
        DEF SendsIssue, At, HasRecord, Record, IInv, QueueInv
    <2>6. ~ ToBeRead(t)
        <3>1. ASSUME NEW w \in Workers, NEW p \in pos[w] .. Len(batch[w]),
                     batch[w][p] = Traced(t)
              PROVE  FALSE
            <4>1. p \in 1 .. Len(batch[w])
                BY <1>1, BatchTypes DEF IInv, QueueInv
            <4>2. QED
                BY <2>4, <3>1, <4>1 DEF Traced
        <3>2. QED
            BY <2>3, <3>1 DEF ToBeRead
    <2>7. QED
        BY <2>2, <2>5, <2>6 DEF Pending
<1>2. IInv => LossFollowsFailure
    BY <1>1 DEF IInv, EveryDueAccountedFor, Excused, Lower, LossFollowsFailure
<1>3. QED
    BY Invariance, <1>2, PTL
=============================================================================
