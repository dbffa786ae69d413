---------------------------- MODULE StreamQueue ----------------------------
(***************************************************************************)
(* What both mail senders run on: the DynamoDB stream, an EventBridge pipe *)
(* that turns the images it lets through into messages, an SQS queue, and  *)
(* Lambda invocations that are handed the messages in batches.             *)
(*                                                                         *)
(* Pipe and queue deliver at least once and in any order.  An invocation   *)
(* handles its batch record by record.  If it returns, the messages of its *)
(* batch are deleted; if it fails, they all become visible again.          *)
(***************************************************************************)
EXTENDS Naturals, SequencesExt, Bags

CONSTANTS
    Workers,            \* concurrent invocations of the Lambda function
    BatchSize,          \* records per invocation, 10 in the stacks
    DeliveryFaults,     \* the failures that may happen
    MaxRedeliveries     \* bound on crashes, panics and duplications

DeliveryFaultKinds == {
    "send_error",       \* the mail provider refuses a mail
    "send_timeout",     \* it takes the mail, but the client sees an error
    "untraced",         \* an item without TraceParent and ParentSpan: the env
                        \* filter of the API that stored it let no span through
    "read_error",       \* the bucket or the table cannot be read
    "crash",            \* an invocation ends early: a timeout or a crash
    "duplicate" }       \* pipe or queue delivers again what it delivered

ASSUME DeliveryAssumption ==
    /\ BatchSize \in Nat \ {0}
    /\ DeliveryFaults \subseteq DeliveryFaultKinds
    /\ MaxRedeliveries \in Nat

VARIABLES
    stream,         \* all images that ever passed the pipe's filter
    forwarded,      \* those the pipe has read past
    queue,          \* the bag of visible messages
    batch,          \* batch[w]: the messages invocation w was given
    pos,            \* pos[w]: the one it handles next
    redeliveries    \* crashes, panics and duplications so far

queueVars == <<stream, forwarded, queue, batch, pos, redeliveries>>

(* A message is the image with what the pipe's template makes of its trace *)
(* attributes.  Where one is missing the template leaves a hole: the text  *)
(* may not parse as JSON, or have an empty string that from_hex rejects.   *)
Forms == {"traced", "unparsable", "untraced"}
MessagesOf(Images) == [image: Images, form: Forms]

QueueInit ==
    /\ stream = {}
    /\ forwarded = {}
    /\ queue = EmptyBag
    /\ batch = [w \in Workers |-> <<>>]
    /\ pos = [w \in Workers |-> 1]
    /\ redeliveries = 0

Redelivers(kind) ==
    /\ kind \in DeliveryFaults
    /\ redeliveries < MaxRedeliveries
    /\ redeliveries' = redeliveries + 1

MessageForms ==
    IF "untraced" \in DeliveryFaults THEN Forms ELSE {"traced"}

\* The pipe reads image i and puts on the queue what the template makes of it.
Pipe(i, body) ==
    /\ i \in stream \ forwarded
    /\ \E f \in MessageForms :
          queue' = queue (+) SetToBag({[image |-> body, form |-> f]})
    /\ \/ forwarded' = forwarded \cup {i} /\ UNCHANGED redeliveries
       \/ Redelivers("duplicate") /\ UNCHANGED forwarded
    /\ UNCHANGED <<stream, batch, pos>>

Running(w) == batch[w] # <<>>

\* The event source hands a free instance some of the visible messages; a
\* message received may, all the same, be delivered again.
Receive(w, s) ==
    /\ ~ Running(w)
    /\ s # <<>>
    /\ ToBag(s) \sqsubseteq queue
    /\ batch' = [batch EXCEPT ![w] = s]
    /\ pos' = [pos EXCEPT ![w] = 1]
    /\ \/ queue' = queue (-) ToBag(s) /\ UNCHANGED redeliveries
       \/ Redelivers("duplicate") /\ UNCHANGED queue
    /\ UNCHANGED <<stream, forwarded>>

Poll(w) == \E s \in SeqOf(BagToSet(queue), BatchSize) : Receive(w, s)

HasRecord(w, form) ==
    /\ Running(w)
    /\ pos[w] <= Len(batch[w])
    /\ batch[w][pos[w]].form = form

Record(w) == batch[w][pos[w]].image

NextRecord(w) ==
    /\ pos' = [pos EXCEPT ![w] = @ + 1]
    /\ UNCHANGED <<stream, forwarded, queue, batch, redeliveries>>

\* The invocation fails: its messages become visible again, the ones handled
\* before included.
Fail(w) ==
    /\ queue' = queue (+) ToBag(batch[w])
    /\ batch' = [batch EXCEPT ![w] = <<>>]
    /\ UNCHANGED <<stream, forwarded, pos>>

\* parse_context_from unwraps what from_hex makes of an empty string; it will
\* do so again whenever the record is delivered again.
Panic(w) ==
    /\ HasRecord(w, "untraced")
    /\ Redelivers("untraced")
    /\ Fail(w)

Crash(w) ==
    /\ Running(w)
    /\ Redelivers("crash")
    /\ Fail(w)

\* Mutants: the batch is answered for before its records are handled; and
\* every record of it is reported as a batch item failure.
AcknowledgeEarly(w) ==
    /\ Running(w)
    /\ batch' = [batch EXCEPT ![w] = <<>>]
    /\ UNCHANGED <<stream, forwarded, queue, pos, redeliveries>>

ReportAllFailed(w) ==
    /\ Running(w)
    /\ pos[w] > Len(batch[w])
    /\ Fail(w)
    /\ UNCHANGED redeliveries

\* Both handlers end with Ok(SqsBatchResponse::default()): no record is
\* reported as failed, so every message of the batch is deleted.
Acknowledge(w) ==
    /\ Running(w)
    /\ pos[w] > Len(batch[w])
    /\ batch' = [batch EXCEPT ![w] = <<>>]
    /\ UNCHANGED <<stream, forwarded, queue, pos, redeliveries>>

QueueTypeOK(Images) ==
    /\ stream \subseteq Images
    /\ forwarded \subseteq stream
    /\ IsABag(queue) /\ BagToSet(queue) \subseteq MessagesOf(Images)
    /\ batch \in [Workers -> Seq(MessagesOf(Images))]
    /\ pos \in [Workers -> Nat \ {0}]
    /\ \A w \in Workers :
          /\ Len(batch[w]) <= BatchSize
          /\ Running(w) => pos[w] <= Len(batch[w]) + 1
    /\ redeliveries \in 0 .. MaxRedeliveries

-----------------------------------------------------------------------------
(* Where the message about an image may be.                                *)

Queued(i) == \E m \in BagToSet(queue) : m.image = i

\* In a batch, at position n or after it.
InBatch(i, w, n) ==
    /\ Running(w)
    /\ \E p \in n .. Len(batch[w]) : batch[w][p].image = i

Waiting(i) ==
    \/ i \in stream \ forwarded
    \/ Queued(i)
    \/ \E w \in Workers : InBatch(i, w, pos[w])

Acknowledged(i) ==
    /\ i \in forwarded
    /\ ~ Queued(i)
    /\ \A w \in Workers : ~ InBatch(i, w, 1)
=============================================================================
