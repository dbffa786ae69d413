------------------------- MODULE StreamQueueProofs -------------------------
(***************************************************************************)
(* What pipe, queue and invocations do, for any number of invocations, any *)
(* batch size, any bound on redeliveries and any set of failures: lemmas   *)
(* for the two senders that run on them.                                   *)
(***************************************************************************)
EXTENDS StreamQueue, FiniteSetTheorems, TLAPS

-----------------------------------------------------------------------------
(* Bags.                                                                   *)

LEMMA BagAddIs ==
    ASSUME NEW B, IsABag(B), NEW x
    PROVE  /\ IsABag(B (+) SetToBag({x}))
           /\ BagToSet(B (+) SetToBag({x})) = BagToSet(B) \cup {x}
           /\ \A y \in BagToSet(B) \ {x} : (B (+) SetToBag({x}))[y] = B[y]
           /\ x \notin BagToSet(B) => (B (+) SetToBag({x}))[x] = 1
BY DEF IsABag, (+), SetToBag, BagToSet

LEMMA BagUnionIs ==
    ASSUME NEW A, IsABag(A), NEW B, IsABag(B)
    PROVE  /\ IsABag(A (+) B)
           /\ BagToSet(A (+) B) = BagToSet(A) \cup BagToSet(B)
BY DEF IsABag, BagToSet, (+)

\* Taking out what is there keeps all of which there is more.
LEMMA BagMinusIs ==
    ASSUME NEW A, IsABag(A), NEW B, IsABag(B), B \sqsubseteq A
    PROVE  /\ IsABag(A (-) B)
           /\ BagToSet(A (-) B) \subseteq BagToSet(A)
           /\ BagToSet(A) \subseteq BagToSet(A (-) B) \cup BagToSet(B)
           /\ \A x \in BagToSet(A (-) B) : (A (-) B)[x] <= A[x]
           /\ \A x \in BagToSet(B) : A[x] = 1 => B[x] = 1 /\ x \notin BagToSet(A (-) B)
BY DEF IsABag, BagToSet, (-), \sqsubseteq

\* The bag of a sequence has its elements; each once if it is injective.
LEMMA ToBagIs ==
    ASSUME NEW S, NEW s \in Seq(S)
    PROVE  /\ IsABag(ToBag(s))
           /\ BagToSet(ToBag(s)) = {s[p] : p \in 1 .. Len(s)}
           /\ \A p, q \in 1 .. Len(s) :
                 s[p] = s[q] /\ ToBag(s)[s[p]] = 1 => p = q
<1> DEFINE Places(x) == {p \in DOMAIN s : s[p] = x}
<1>1. /\ DOMAIN s = 1 .. Len(s)
      /\ Len(s) \in Nat
    OBVIOUS
<1>2. IsFiniteSet(DOMAIN s)
    BY <1>1, FS_Interval
<1>3. \A x : IsFiniteSet(Places(x)) /\ Cardinality(Places(x)) \in Nat
    BY <1>2, FS_Subset, FS_CardinalityType
<1>4. \A p \in DOMAIN s : Cardinality(Places(s[p])) > 0
    <2>1. \A p \in DOMAIN s : Places(s[p]) # {}
        OBVIOUS
    <2> HIDE DEF Places
    <2>2. QED
        BY <1>3, <2>1, FS_EmptySet
<1>5. /\ BagToSet(ToBag(s)) = {s[p] : p \in DOMAIN s}
      /\ \A p \in DOMAIN s : ToBag(s)[s[p]] = Cardinality(Places(s[p]))
    BY DEF ToBag, Range, BagToSet
<1>6. IsABag(ToBag(s))
    BY <1>3, <1>4, <1>5 DEF IsABag, BagToSet, ToBag, Range
<1>7. ASSUME NEW p \in DOMAIN s, NEW q \in DOMAIN s, s[p] = s[q],
             ToBag(s)[s[p]] = 1
      PROVE  p = q
    <2>1. PICK r : Places(s[p]) = {r}
        BY <1>3, <1>5, <1>7, FS_Singleton
    <2>2. p \in Places(s[p]) /\ q \in Places(s[p])
        BY <1>7
    <2>3. QED
        BY <2>1, <2>2
<1>8. QED
    BY <1>1, <1>5, <1>6, <1>7

-----------------------------------------------------------------------------
(* Types.  S is the set of all images.                                     *)

LEMMA PipeTypes ==
    ASSUME NEW S, QueueTypeOK(S), NEW i \in S, Pipe(i, i)
    PROVE  QueueTypeOK(S)'
<1>1. PICK f \in Forms : queue' = queue (+) SetToBag({[image |-> i, form |-> f]})
    BY DEF Pipe, MessageForms, Forms
<1>2. /\ IsABag(queue')
      /\ BagToSet(queue') = BagToSet(queue) \cup {[image |-> i, form |-> f]}
    BY <1>1, BagAddIs DEF QueueTypeOK
<1>3. BagToSet(queue') \subseteq MessagesOf(S)
    BY <1>2 DEF QueueTypeOK, MessagesOf
<1>4. /\ stream' = stream /\ batch' = batch /\ pos' = pos
      /\ forwarded' \subseteq stream
      /\ redeliveries' \in 0 .. MaxRedeliveries
    BY DeliveryAssumption DEF Pipe, Redelivers, QueueTypeOK
<1>5. QED
    BY <1>2, <1>3, <1>4 DEF QueueTypeOK, Running

LEMMA SeqOfIs ==
    ASSUME NEW T, NEW n \in Nat, NEW s \in SeqOf(T, n)
    PROVE  s \in Seq(T) /\ Len(s) <= n
<1>1. PICK m \in 0 .. n : s \in [1 .. m -> T]
    BY DEF SeqOf
<1>2. m \in Nat /\ m <= n
    OBVIOUS
<1>3. s \in Seq(T) /\ Len(s) = m
    BY <1>1, <1>2
<1>4. QED
    BY <1>2, <1>3

\* What an event source hands out, and what it leaves.
LEMMA ReceiveIs ==
    ASSUME NEW S, QueueTypeOK(S), NEW w \in Workers, Poll(w)
    PROVE  \E s \in Seq(MessagesOf(S)) :
              /\ Receive(w, s)
              /\ s # <<>> /\ Len(s) <= BatchSize
              /\ \A p \in 1 .. Len(s) : s[p] \in BagToSet(queue)
              /\ IsABag(queue') /\ BagToSet(queue') \subseteq BagToSet(queue)
              /\ \A m \in BagToSet(queue) \ BagToSet(queue') :
                    \E p \in 1 .. Len(s) : s[p] = m
<1>1. PICK s \in SeqOf(BagToSet(queue), BatchSize) : Receive(w, s)
    BY DEF Poll
<1>2. /\ s \in Seq(MessagesOf(S)) /\ s \in Seq(BagToSet(queue))
      /\ Len(s) <= BatchSize
    BY <1>1, SeqOfIs, DeliveryAssumption DEF QueueTypeOK
<1>3. /\ IsABag(ToBag(s)) /\ ToBag(s) \sqsubseteq queue
      /\ BagToSet(ToBag(s)) = {s[p] : p \in 1 .. Len(s)}
    BY <1>1, <1>2, ToBagIs DEF Receive
<1>4. /\ IsABag(queue') /\ BagToSet(queue') \subseteq BagToSet(queue)
      /\ BagToSet(queue) \subseteq BagToSet(queue') \cup BagToSet(ToBag(s))
    BY <1>1, <1>3, BagMinusIs DEF Receive, QueueTypeOK
<1>5. \A p \in 1 .. Len(s) : s[p] \in BagToSet(queue)
    BY <1>2
<1>6. \A m \in BagToSet(queue) \ BagToSet(queue') : \E p \in 1 .. Len(s) : s[p] = m
    BY <1>3, <1>4
<1>7. s # <<>>
    BY <1>1 DEF Receive
<1>8. QED
    BY <1>1, <1>2, <1>4, <1>5, <1>6, <1>7

LEMMA ReceiveTypes ==
    ASSUME NEW S, QueueTypeOK(S), NEW w \in Workers, Poll(w)
    PROVE  QueueTypeOK(S)'
<1>1. PICK s \in Seq(MessagesOf(S)) :
         /\ Receive(w, s)
         /\ s # <<>> /\ Len(s) <= BatchSize
         /\ IsABag(queue') /\ BagToSet(queue') \subseteq BagToSet(queue)
    BY ReceiveIs
<1>2. /\ batch' = [batch EXCEPT ![w] = s]
      /\ pos' = [pos EXCEPT ![w] = 1]
      /\ stream' = stream /\ forwarded' = forwarded
      /\ redeliveries' \in 0 .. MaxRedeliveries
    BY <1>1, DeliveryAssumption DEF Receive, Redelivers, QueueTypeOK
<1>3. \A v \in Workers :
         /\ Len(batch'[v]) <= BatchSize
         /\ batch'[v] # <<>> => pos'[v] <= Len(batch'[v]) + 1
    BY <1>1, <1>2 DEF QueueTypeOK, Running
<1>4. QED
    BY <1>1, <1>2, <1>3 DEF QueueTypeOK, Running

LEMMA FailTypes ==
    ASSUME NEW S, QueueTypeOK(S), NEW w \in Workers, Fail(w),
           NEW kind, Redelivers(kind)
    PROVE  /\ QueueTypeOK(S)'
           /\ BagToSet(queue') =
                 BagToSet(queue) \cup {batch[w][p] : p \in 1 .. Len(batch[w])}
<1>1. /\ batch[w] \in Seq(MessagesOf(S))
      /\ IsABag(queue) /\ BagToSet(queue) \subseteq MessagesOf(S)
    BY DEF QueueTypeOK
<1>2. /\ IsABag(queue')
      /\ BagToSet(queue') =
            BagToSet(queue) \cup {batch[w][p] : p \in 1 .. Len(batch[w])}
    BY <1>1, ToBagIs, BagUnionIs DEF Fail
<1>3. BagToSet(queue') \subseteq MessagesOf(S)
    BY <1>1, <1>2
<1>4. /\ batch' = [batch EXCEPT ![w] = <<>>]
      /\ pos' = pos /\ stream' = stream /\ forwarded' = forwarded
      /\ redeliveries' \in 0 .. MaxRedeliveries
    BY DeliveryAssumption DEF Fail, Redelivers, QueueTypeOK
<1>5. batch' \in [Workers -> Seq(MessagesOf(S))]
    BY <1>4 DEF QueueTypeOK
<1>6. \A v \in Workers :
         /\ Len(batch'[v]) <= BatchSize
         /\ batch'[v] # <<>> => pos'[v] <= Len(batch'[v]) + 1
    BY <1>4, DeliveryAssumption DEF QueueTypeOK, Running
<1>7. QED
    BY <1>2, <1>3, <1>4, <1>5, <1>6 DEF QueueTypeOK, Running

LEMMA NextRecordTypes ==
    ASSUME NEW S, QueueTypeOK(S), NEW w \in Workers, NEW form,
           HasRecord(w, form), NextRecord(w)
    PROVE  QueueTypeOK(S)' /\ Record(w) \in S
<1>1. /\ pos' = [pos EXCEPT ![w] = @ + 1]
      /\ UNCHANGED <<stream, forwarded, queue, batch, redeliveries>>
    BY DEF NextRecord
<1>2. pos[w] \in 1 .. Len(batch[w]) /\ batch[w] \in Seq(MessagesOf(S))
    BY DEF QueueTypeOK, HasRecord
<1>3. batch[w][pos[w]] \in MessagesOf(S)
    BY <1>2
<1>4. /\ pos' \in [Workers -> Nat \ {0}]
      /\ \A v \in Workers : batch[v] # <<>> => pos'[v] <= Len(batch[v]) + 1
    BY <1>1, <1>2 DEF QueueTypeOK, Running
<1>5. QueueTypeOK(S)'
    BY <1>1, <1>4 DEF QueueTypeOK, Running
<1>6. QED
    BY <1>3, <1>5 DEF Record, MessagesOf

LEMMA AcknowledgeTypes ==
    ASSUME NEW S, QueueTypeOK(S), NEW w \in Workers, Acknowledge(w)
    PROVE  QueueTypeOK(S)'
<1>1. /\ batch' = [batch EXCEPT ![w] = <<>>]
      /\ UNCHANGED <<stream, forwarded, queue, pos, redeliveries>>
    BY DEF Acknowledge
<1>2. batch' \in [Workers -> Seq(MessagesOf(S))]
    BY <1>1 DEF QueueTypeOK
<1>3. QED
    BY <1>1, <1>2, DeliveryAssumption DEF QueueTypeOK, Running

-----------------------------------------------------------------------------
(* No message comes from nowhere, and none is lost: an image waits, ahead  *)
(* of the pipe, in the queue or in a batch, until its record is handled.   *)

MessagesStored ==
    /\ \A m \in BagToSet(queue) : m.image \in stream
    /\ \A w \in Workers : \A p \in 1 .. Len(batch[w]) : batch[w][p].image \in stream

Keeps ==
    /\ MessagesStored'
    /\ \A i : Waiting(i) => Waiting(i)'

LEMMA BatchTypes ==
    ASSUME NEW S, QueueTypeOK(S), NEW w \in Workers
    PROVE  /\ batch[w] \in Seq(MessagesOf(S)) /\ Len(batch[w]) \in Nat
           /\ pos[w] \in Nat /\ pos[w] >= 1
           /\ ~ Running(w) => Len(batch[w]) = 0
           /\ DOMAIN batch = Workers /\ DOMAIN pos = Workers
BY DEF QueueTypeOK, Running

LEMMA PipeKeeps ==
    ASSUME NEW S, QueueTypeOK(S), MessagesStored, NEW i \in S, Pipe(i, i)
    PROVE  Keeps
<1>1. PICK m : m.image = i /\ queue' = queue (+) SetToBag({m})
    BY DEF Pipe
<1>2. BagToSet(queue') = BagToSet(queue) \cup {m}
    BY <1>1, BagAddIs DEF QueueTypeOK
<1>3. /\ i \in stream /\ stream' = stream /\ batch' = batch /\ pos' = pos
      /\ forwarded' \subseteq forwarded \cup {i}
    BY DEF Pipe
<1>4. MessagesStored'
    BY <1>1, <1>2, <1>3 DEF MessagesStored
<1>5. ASSUME NEW j, Waiting(j)
      PROVE  Waiting(j)'
    <2>1. CASE j = i \/ Queued(j)
        BY <1>1, <1>2, <2>1 DEF Waiting, Queued
    <2>2. CASE \E w \in Workers : InBatch(j, w, pos[w])
        BY <1>3, <2>2 DEF Waiting, InBatch, Running
    <2>3. CASE j # i /\ j \in stream \ forwarded
        BY <1>3, <2>3 DEF Waiting
    <2>4. QED
        BY <1>5, <2>1, <2>2, <2>3 DEF Waiting
<1>6. QED
    BY <1>4, <1>5 DEF Keeps

LEMMA ReceiveKeeps ==
    ASSUME NEW S, QueueTypeOK(S), MessagesStored, NEW w \in Workers, Poll(w)
    PROVE  Keeps
<1>1. PICK s \in Seq(MessagesOf(S)) :
         /\ Receive(w, s)
         /\ s # <<>> /\ \A p \in 1 .. Len(s) : s[p] \in BagToSet(queue)
         /\ BagToSet(queue') \subseteq BagToSet(queue)
         /\ \A m \in BagToSet(queue) \ BagToSet(queue') :
               \E p \in 1 .. Len(s) : s[p] = m
    BY ReceiveIs
<1>2. /\ stream' = stream /\ forwarded' = forwarded /\ ~ Running(w)
      /\ batch'[w] = s /\ pos'[w] = 1
      /\ \A v \in Workers \ {w} : batch'[v] = batch[v] /\ pos'[v] = pos[v]
    BY <1>1, BatchTypes DEF Receive
<1>3. MessagesStored'
    BY <1>1, <1>2 DEF MessagesStored
<1>4. ASSUME NEW j, Waiting(j)
      PROVE  Waiting(j)'
    <2>1. CASE j \in stream \ forwarded
        BY <1>2, <2>1 DEF Waiting
    <2>2. CASE Queued(j)
        <3>1. PICK m \in BagToSet(queue) : m.image = j
            BY <2>2 DEF Queued
        <3>2. CASE m \in BagToSet(queue')
            BY <3>1, <3>2 DEF Waiting, Queued
        <3>3. CASE m \notin BagToSet(queue')
            BY <1>1, <1>2, <3>1, <3>3 DEF Waiting, InBatch, Running
        <3>4. QED
            BY <3>2, <3>3
    <2>3. CASE \E v \in Workers : InBatch(j, v, pos[v])
        BY <1>2, <2>3 DEF Waiting, InBatch, Running
    <2>4. QED
        BY <1>4, <2>1, <2>2, <2>3 DEF Waiting
<1>5. QED
    BY <1>3, <1>4 DEF Keeps

LEMMA FailKeeps ==
    ASSUME NEW S, QueueTypeOK(S), MessagesStored, NEW w \in Workers, Fail(w),
           NEW kind, Redelivers(kind)
    PROVE  Keeps
<1>1. BagToSet(queue') =
         BagToSet(queue) \cup {batch[w][p] : p \in 1 .. Len(batch[w])}
    BY FailTypes
<1>2. /\ stream' = stream /\ forwarded' = forwarded /\ pos' = pos
      /\ batch'[w] = <<>>
      /\ \A v \in Workers \ {w} : batch'[v] = batch[v]
    BY BatchTypes DEF Fail
<1>3. MessagesStored'
    BY <1>1, <1>2 DEF MessagesStored
<1>4. ASSUME NEW j, Waiting(j)
      PROVE  Waiting(j)'
    <2>1. CASE InBatch(j, w, pos[w])
        <3>1. PICK p \in 1 .. Len(batch[w]) : batch[w][p].image = j
            BY <2>1, BatchTypes DEF InBatch
        <3>2. QED
            BY <1>1, <3>1 DEF Waiting, Queued
    <2>2. CASE ~ InBatch(j, w, pos[w])
        BY <1>1, <1>2, <1>4, <2>2 DEF Waiting, Queued, InBatch, Running
    <2>3. QED
        BY <2>1, <2>2
<1>5. QED
    BY <1>3, <1>4 DEF Keeps

\* Only a record that is handled stops waiting.
LEMMA NextRecordKeeps ==
    ASSUME NEW S, QueueTypeOK(S), MessagesStored, NEW w \in Workers, NEW form,
           HasRecord(w, form), NextRecord(w)
    PROVE  /\ MessagesStored' /\ Record(w) \in stream
           /\ \A i : Waiting(i) => Waiting(i)' \/ i = Record(w)
<1>1. /\ UNCHANGED <<stream, forwarded, queue, batch>>
      /\ pos'[w] = pos[w] + 1
      /\ \A v \in Workers \ {w} : pos'[v] = pos[v]
    BY BatchTypes DEF NextRecord
<1>2. pos[w] \in 1 .. Len(batch[w])
    BY BatchTypes DEF HasRecord
<1>3. MessagesStored' /\ Record(w) \in stream
    BY <1>1, <1>2 DEF MessagesStored, Record
<1>4. ASSUME NEW j, Waiting(j), j # Record(w)
      PROVE  Waiting(j)'
    <2>1. InBatch(j, w, pos[w]) => InBatch(j, w, pos[w])'
        <3>1. ASSUME NEW p \in pos[w] .. Len(batch[w]), batch[w][p].image = j
              PROVE  p \in pos'[w] .. Len(batch[w])
            BY <1>1, <1>2, <1>4, <3>1, BatchTypes DEF Record
        <3>2. QED
            BY <1>1, <3>1 DEF InBatch, Running
    <2>2. \A v \in Workers \ {w} : InBatch(j, v, pos[v]) => InBatch(j, v, pos[v])'
        BY <1>1 DEF InBatch, Running
    <2>3. QED
        BY <1>1, <1>4, <2>1, <2>2 DEF Waiting, Queued
<1>5. QED
    BY <1>3, <1>4

LEMMA AcknowledgeKeeps ==
    ASSUME NEW S, QueueTypeOK(S), MessagesStored, NEW w \in Workers, Acknowledge(w)
    PROVE  Keeps
<1>1. /\ UNCHANGED <<stream, forwarded, queue, pos>>
      /\ batch'[w] = <<>> /\ pos[w] > Len(batch[w])
      /\ \A v \in Workers \ {w} : batch'[v] = batch[v]
    BY BatchTypes DEF Acknowledge
<1>2. MessagesStored'
    BY <1>1 DEF MessagesStored
<1>3. \A j : ~ InBatch(j, w, pos[w])
    BY <1>1, BatchTypes DEF InBatch
<1>4. ASSUME NEW j, Waiting(j)
      PROVE  Waiting(j)'
    BY <1>1, <1>3, <1>4 DEF Waiting, Queued, InBatch, Running
<1>5. QED
    BY <1>2, <1>4 DEF Keeps

\* A message that is gone waits nowhere.
LEMMA GoneIsNotWaiting ==
    ASSUME NEW S, QueueTypeOK(S), NEW i, Acknowledged(i)
    PROVE  ~ Waiting(i)
BY BatchTypes DEF Acknowledged, Waiting, InBatch

-----------------------------------------------------------------------------
(* While nothing was delivered again, an image has one message at most, in *)
(* the queue or in one place of one batch, and once its record is handled  *)
(* it waits no more.                                                       *)

Done(i) == i \in forwarded /\ ~ Waiting(i)

QueueUnique ==
    /\ \A m \in BagToSet(queue) : queue[m] = 1 /\ m.image \in forwarded
    /\ \A m, n \in BagToSet(queue) : m.image = n.image => m = n

BatchUnique ==
    /\ \A w \in Workers : \A p \in 1 .. Len(batch[w]) :
          batch[w][p].image \in forwarded /\ ~ Queued(batch[w][p].image)
    /\ \A v, w \in Workers : \A p \in 1 .. Len(batch[v]), q \in 1 .. Len(batch[w]) :
          batch[v][p].image = batch[w][q].image => v = w /\ p = q

Unique == redeliveries = 0 => QueueUnique /\ BatchUnique

StaysDone ==
    redeliveries' = 0 => redeliveries = 0 /\ \A i : Done(i) => Done(i)'

LEMMA PipeUnique ==
    ASSUME NEW S, QueueTypeOK(S), MessagesStored, Unique, NEW i \in S, Pipe(i, i)
    PROVE  Unique' /\ StaysDone
<1> SUFFICES ASSUME redeliveries' = 0
             PROVE  /\ redeliveries = 0 /\ (QueueUnique /\ BatchUnique)'
                    /\ \A j : Done(j) => Done(j)'
    BY DEF Unique, StaysDone
<1>1. /\ redeliveries = 0 /\ forwarded' = forwarded \cup {i}
      /\ QueueUnique /\ BatchUnique
    BY DEF Pipe, Redelivers, QueueTypeOK, Unique
<1>2. PICK m : m.image = i /\ queue' = queue (+) SetToBag({m})
    BY DEF Pipe
<1>3. /\ BagToSet(queue') = BagToSet(queue) \cup {m}
      /\ \A n \in BagToSet(queue) \ {m} : queue'[n] = queue[n]
      /\ m \notin BagToSet(queue) => queue'[m] = 1
    BY <1>2, BagAddIs DEF QueueTypeOK
<1>4. /\ i \in stream \ forwarded
      /\ stream' = stream /\ batch' = batch /\ pos' = pos
    BY DEF Pipe
<1>5. m \notin BagToSet(queue)
    BY <1>1, <1>2, <1>4 DEF QueueUnique
<1>6. QueueUnique'
    BY <1>1, <1>2, <1>3, <1>4, <1>5 DEF QueueUnique
<1>7. \A j : Queued(j)' => Queued(j) \/ j = i
    BY <1>2, <1>3 DEF Queued
<1>8. BatchUnique'
    BY <1>1, <1>4, <1>7 DEF BatchUnique
<1>9. ASSUME NEW j, Done(j)
      PROVE  Done(j)'
    <2>1. j # i /\ ~ Queued(j)' /\ j \notin stream' \ forwarded'
        BY <1>1, <1>4, <1>7, <1>9 DEF Done, Waiting
    <2>2. \A w \in Workers : InBatch(j, w, pos[w])' <=> InBatch(j, w, pos[w])
        BY <1>4 DEF InBatch, Running
    <2>3. QED
        BY <1>1, <1>9, <2>1, <2>2 DEF Done, Waiting
<1>10. QED
    BY <1>1, <1>6, <1>8, <1>9

LEMMA NextRecordUnique ==
    ASSUME NEW S, QueueTypeOK(S), MessagesStored, Unique, NEW w \in Workers, NEW form,
           HasRecord(w, form), NextRecord(w)
    PROVE  /\ Unique' /\ StaysDone
           /\ Waiting(Record(w))
           /\ redeliveries = 0 => \A i : i = Record(w) => Done(i)'
<1>1. /\ UNCHANGED <<stream, forwarded, queue, batch, redeliveries>>
      /\ pos'[w] = pos[w] + 1
      /\ \A v \in Workers \ {w} : pos'[v] = pos[v]
    BY BatchTypes DEF NextRecord
<1>2. /\ pos[w] \in 1 .. Len(batch[w])
      /\ Record(w) = batch[w][pos[w]].image
    BY BatchTypes DEF HasRecord, Record
<1>3. Unique'
    BY <1>1 DEF Unique, QueueUnique, BatchUnique, Queued
<1>4. Waiting(Record(w))
    BY <1>2, BatchTypes DEF Waiting, InBatch, HasRecord
<1>5. \A j : \A v \in Workers : InBatch(j, v, pos[v])' => InBatch(j, v, pos[v])
    BY <1>1, BatchTypes DEF InBatch, Running
<1>6. \A j : Waiting(j)' => Waiting(j)
    BY <1>1, <1>5 DEF Waiting, Queued
<1>7. ASSUME redeliveries = 0, NEW i, i = Record(w)
      PROVE  Done(i)'
    <2>1. QueueUnique /\ BatchUnique
        BY <1>7 DEF Unique
    <2>2. i \in forwarded /\ ~ Queued(i)
        BY <1>2, <1>7, <2>1 DEF BatchUnique
    <2>3. ASSUME NEW v \in Workers, InBatch(i, v, pos[v])'
          PROVE  FALSE
        <3>1. PICK p \in pos'[v] .. Len(batch[v]) : batch[v][p].image = i
            BY <1>1, <2>3 DEF InBatch
        <3>2. p \in 1 .. Len(batch[v]) /\ (v = w => p # pos[w])
            BY <1>1, <1>2, <3>1, BatchTypes
        <3>3. QED
            BY <1>2, <1>7, <2>1, <3>1, <3>2 DEF BatchUnique
    <2>4. QED
        BY <1>1, <2>2, <2>3 DEF Done, Waiting, Queued
<1>8. StaysDone
    BY <1>1, <1>6 DEF StaysDone, Done
<1>9. QED
    BY <1>3, <1>4, <1>7, <1>8

LEMMA ReceiveUnique ==
    ASSUME NEW S, QueueTypeOK(S), MessagesStored, Unique, NEW w \in Workers, Poll(w)
    PROVE  Unique' /\ StaysDone
<1> SUFFICES ASSUME redeliveries' = 0
             PROVE  /\ redeliveries = 0 /\ (QueueUnique /\ BatchUnique)'
                    /\ \A j : Done(j) => Done(j)'
    BY DEF Unique, StaysDone
<1>1. PICK s \in SeqOf(BagToSet(queue), BatchSize) : Receive(w, s)
    BY DEF Poll
<1>2. /\ redeliveries = 0 /\ queue' = queue (-) ToBag(s)
      /\ QueueUnique /\ BatchUnique
    BY <1>1 DEF Receive, Redelivers, QueueTypeOK, Unique
<1>3. /\ stream' = stream /\ forwarded' = forwarded /\ ~ Running(w)
      /\ batch'[w] = s /\ pos'[w] = 1
      /\ \A v \in Workers \ {w} : batch'[v] = batch[v] /\ pos'[v] = pos[v]
    BY <1>1, BatchTypes DEF Receive
<1>4. s \in Seq(BagToSet(queue)) /\ Len(s) \in Nat
    BY <1>1, SeqOfIs, DeliveryAssumption
<1>5. /\ IsABag(ToBag(s)) /\ ToBag(s) \sqsubseteq queue /\ IsABag(queue)
      /\ BagToSet(ToBag(s)) = {s[p] : p \in 1 .. Len(s)}
      /\ \A p, q \in 1 .. Len(s) : s[p] = s[q] /\ ToBag(s)[s[p]] = 1 => p = q
    BY <1>1, <1>4, ToBagIs DEF Receive, QueueTypeOK
<1>6. /\ IsABag(queue') /\ BagToSet(queue') \subseteq BagToSet(queue)
      /\ \A x \in BagToSet(queue') : queue'[x] <= queue[x]
      /\ \A x \in BagToSet(ToBag(s)) :
            queue[x] = 1 => ToBag(s)[x] = 1 /\ x \notin BagToSet(queue')
    BY <1>2, <1>5, BagMinusIs
<1>7. \A p \in 1 .. Len(s) :
         /\ s[p] \in BagToSet(queue) \ BagToSet(queue')
         /\ \A q \in 1 .. Len(s) : s[p] = s[q] => p = q
    BY <1>2, <1>4, <1>5, <1>6 DEF QueueUnique
<1>8. QueueUnique'
    <2>1. \A x \in BagToSet(queue') : queue'[x] \in Nat /\ queue'[x] > 0
        BY <1>6 DEF IsABag, BagToSet
    <2>2. \A x \in BagToSet(queue') : queue'[x] = 1
        BY <1>2, <1>6, <2>1 DEF QueueUnique
    <2>3. QED
        BY <1>2, <1>3, <1>6, <2>2 DEF QueueUnique
<1>9. \A p \in 1 .. Len(s) :
         /\ s[p].image \in forwarded /\ Queued(s[p].image) /\ ~ Queued(s[p].image)'
         /\ \A q \in 1 .. Len(s) : s[p].image = s[q].image => p = q
    <2>1. TAKE p \in 1 .. Len(s)
    <2>2. s[p].image \in forwarded /\ Queued(s[p].image)
        BY <1>2, <1>7 DEF QueueUnique, Queued
    <2>3. ASSUME NEW m \in BagToSet(queue'), m.image = s[p].image
          PROVE  FALSE
        BY <1>2, <1>6, <1>7, <2>3 DEF QueueUnique
    <2>4. ~ Queued(s[p].image)'
        BY <1>3, <2>3 DEF Queued
    <2>5. QED
        BY <1>2, <1>7, <2>2, <2>4 DEF QueueUnique
<1>10. \A j : Queued(j)' => Queued(j)
    BY <1>6 DEF Queued
<1>11. BatchUnique'
    <2>1. ASSUME NEW v \in Workers, NEW p \in 1 .. Len(batch'[v])
          PROVE  batch'[v][p].image \in forwarded' /\ ~ Queued(batch[v][p].image)'
        BY <1>2, <1>3, <1>9, <1>10 DEF BatchUnique
    <2>2. ASSUME NEW v \in Workers \ {w}, NEW p \in 1 .. Len(batch[v]),
                 NEW q \in 1 .. Len(s)
          PROVE  batch[v][p].image # s[q].image
        BY <1>2, <1>9 DEF BatchUnique
    <2>3. ASSUME NEW u \in Workers, NEW v \in Workers,
                 NEW p \in 1 .. Len(batch'[u]), NEW q \in 1 .. Len(batch'[v]),
                 batch'[u][p].image = batch'[v][q].image
          PROVE  u = v /\ p = q
        <3>1. CASE u = w /\ v = w
            BY <1>3, <1>9, <2>3, <3>1
        <3>2. CASE (u = w /\ v # w) \/ (u # w /\ v = w)
            BY <1>3, <2>2, <2>3, <3>2
        <3>3. CASE u # w /\ v # w
            BY <1>2, <1>3, <2>3, <3>3 DEF BatchUnique
        <3>4. QED
            BY <3>1, <3>2, <3>3
    <2>4. QED
        BY <2>1, <2>3 DEF BatchUnique
<1>12. ASSUME NEW j, Done(j)
       PROVE  Done(j)'
    <2>1. ~ InBatch(j, w, pos[w])'
        BY <1>3, <1>9, <1>12 DEF Done, Waiting, InBatch
    <2>2. \A v \in Workers \ {w} : InBatch(j, v, pos[v])' <=> InBatch(j, v, pos[v])
        BY <1>3 DEF InBatch, Running
    <2>3. QED
        BY <1>3, <1>10, <1>12, <2>1, <2>2 DEF Done, Waiting
<1>13. QED
    BY <1>2, <1>8, <1>11, <1>12

LEMMA FailUnique ==
    ASSUME NEW S, QueueTypeOK(S), NEW kind, Redelivers(kind)
    PROVE  Unique' /\ StaysDone
BY DEF Redelivers, QueueTypeOK, Unique, StaysDone

LEMMA AcknowledgeUnique ==
    ASSUME NEW S, QueueTypeOK(S), MessagesStored, Unique, NEW w \in Workers,
           Acknowledge(w)
    PROVE  Unique' /\ StaysDone
<1>1. /\ UNCHANGED <<stream, forwarded, queue, pos, redeliveries>>
      /\ batch'[w] = <<>>
      /\ \A v \in Workers \ {w} : batch'[v] = batch[v]
    BY BatchTypes DEF Acknowledge
<1>2. Unique'
    BY <1>1 DEF Unique, QueueUnique, BatchUnique, Queued
<1>3. \A j : \A v \in Workers : InBatch(j, v, pos[v])' => InBatch(j, v, pos[v])
    BY <1>1 DEF InBatch, Running
<1>4. QED
    BY <1>1, <1>2, <1>3 DEF StaysDone, Done, Waiting, Queued

\* An image that passes the pipe's filter waits for the pipe.
LEMMA StreamGrows ==
    ASSUME NEW S, QueueTypeOK(S), MessagesStored, Unique,
           stream \subseteq stream', stream' \subseteq S,
           UNCHANGED <<forwarded, queue, batch, pos, redeliveries>>
    PROVE  /\ QueueTypeOK(S)' /\ Keeps /\ Unique' /\ StaysDone
           /\ \A i \in stream' \ stream : Waiting(i)'
<1>1. QueueTypeOK(S)'
    BY DEF QueueTypeOK, Running
<1>2. MessagesStored'
    BY DEF MessagesStored
<1>3. Unique'
    BY DEF Unique, QueueUnique, BatchUnique, Queued
<1>4. \A i : (Queued(i)' <=> Queued(i))
    BY DEF Queued
<1>5. \A i : \A w \in Workers : InBatch(i, w, pos[w])' <=> InBatch(i, w, pos[w])
    BY DEF InBatch, Running
<1>6. \A i \in stream' \ stream : Waiting(i)'
    BY DEF Waiting, QueueTypeOK
<1>7. \A i : Waiting(i) => Waiting(i)'
    BY <1>4, <1>5 DEF Waiting
<1>8. \A i : Done(i) => Done(i)'
    BY <1>4, <1>5 DEF Done, Waiting
<1>9. QED
    BY <1>1, <1>2, <1>3, <1>6, <1>7, <1>8 DEF Keeps, StaysDone

LEMMA InitQueue ==
    ASSUME NEW S, QueueInit
    PROVE  QueueTypeOK(S) /\ MessagesStored /\ Unique
<1>1. IsABag(queue) /\ BagToSet(queue) = {}
    BY DEF QueueInit, IsABag, BagToSet, EmptyBag, SetToBag
<1>2. QueueTypeOK(S)
    BY <1>1, DeliveryAssumption DEF QueueInit, QueueTypeOK, Running
<1>3. QED
    BY <1>1, <1>2 DEF QueueInit, MessagesStored, Unique, QueueUnique, BatchUnique
=============================================================================
