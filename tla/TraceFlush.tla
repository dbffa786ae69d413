----------------------------- MODULE TraceFlush -----------------------------
(***************************************************************************)
(* One execution environment of a Lambda function, from its start to its   *)
(* end: the process with its handler and its internal extension            *)
(* TraceFlushExtension, which shall export the spans of an invocation      *)
(* before the environment is frozen.  The handler tells the extension over *)
(* an unbounded channel that it is done.                                   *)
(*                                                                         *)
(* The three functions differ in how they register the extension and in    *)
(* the signals they send.  Lambda itself, and the web adapter in front of  *)
(* the API, are modelled from how the code uses them.                      *)
(***************************************************************************)
EXTENDS Naturals

CONSTANTS
    Functions,      \* the functions considered
    MaxInvocations, \* bound: invocations of one environment
    MaxRecords,     \* bound: records of one invocation
    FlushFaults     \* the failures that may happen

FlushFaultKinds == {
    "send_error",       \* a mail is refused
    "panic",            \* the handler panics
    "service_error",    \* a middleware of the API returns Err
    "late_register" }   \* the API's extension registers after the start

ASSUME FlushAssumption ==
    /\ Functions \subseteq {"api", "send_confirmation", "send_newsletter"}
    /\ MaxInvocations \in Nat
    /\ MaxRecords \in Nat \ {0}
    /\ FlushFaults \subseteq FlushFaultKinds

VARIABLES
    function,   \* the function this environment is of
    env,        \* starting, idle (frozen), or invoked
    invocation, \* the number of the current or last invocation
    handler,    \* none, running, returned, or over without a last signal
    left,       \* the records the handler has not come to
    extension,  \* unregistered, next (waiting for an event), receiving
                \* (waiting for a signal), flushing, or failed
    signals,    \* the signals in the channel
    buffered    \* the invocations with ended spans of records or requests
                \* that are not exported

flushVars ==
    <<function, env, invocation, handler, left, extension, signals, buffered>>

FlushInit ==
    /\ function \in Functions
    /\ env = "starting"
    /\ invocation = 0
    /\ handler = "none"
    /\ left = 0
    /\ extension = "unregistered"
    /\ signals = 0
    /\ buffered = {}

-----------------------------------------------------------------------------
(* Start, freeze and end of the environment.                               *)

Register ==
    /\ env = "starting" /\ extension = "unregistered"
    /\ extension' = "next"
    /\ UNCHANGED <<function, env, invocation, handler, left, signals, buffered>>

\* Mutant: the backends' extension registered in a task, as the API's is.
ReadyUnregistered ==
    /\ env = "starting"
    /\ env' = "idle"
    /\ UNCHANGED <<function, invocation, handler, left, extension, signals, buffered>>

\* The backends register before run().  The API registers in a task of its
\* own, and the adapter's probe of GET / is a request that sends a signal.
Ready ==
    /\ env = "starting"
    /\ extension = "next" \/ (function = "api" /\ "late_register" \in FlushFaults)
    /\ env' = "idle"
    /\ signals' = signals + IF function = "api" THEN 1 ELSE 0
    /\ UNCHANGED <<function, invocation, handler, left, extension, buffered>>

\* `extension.unwrap()` panics in the task, and nobody waits for the task.
RegisterLate ==
    /\ env = "invoked" /\ extension = "unregistered"
    /\ extension' = "failed"
    /\ UNCHANGED <<function, env, invocation, handler, left, signals, buffered>>

\* Handler and extension are given the event at once.
Invoke ==
    /\ env = "idle" /\ invocation < MaxInvocations
    /\ env' = "invoked"
    /\ invocation' = invocation + 1
    /\ handler' = "running"
    /\ left' \in IF function = "api" THEN {1} ELSE 1..MaxRecords
    /\ extension' = IF extension = "next" THEN "receiving" ELSE extension
    /\ UNCHANGED <<function, signals, buffered>>

\* Lambda ends an invocation when all parties ask for the next event.
Complete ==
    /\ env = "invoked"
    /\ handler # "running" /\ extension \notin {"receiving", "flushing"}
    /\ env' = "idle"
    /\ handler' = "none"
    /\ left' = 0
    /\ UNCHANGED <<function, invocation, extension, signals, buffered>>

\* A timeout, or an environment no longer needed: what is buffered is lost.
Kill ==
    /\ env # "starting"
    /\ env' = "starting"
    /\ invocation' = 0
    /\ handler' = "none"
    /\ left' = 0
    /\ extension' = "unregistered"
    /\ signals' = 0
    /\ buffered' = {}
    /\ UNCHANGED function

-----------------------------------------------------------------------------
(* The handlers.                                                           *)

\* One record, or the request: its spans end, whether or not it succeeds.
EndSpans(n) ==
    /\ handler = "running" /\ left > 0
    /\ left' = left - 1
    /\ buffered' = buffered \cup {invocation}
    /\ signals' = signals + n
    /\ UNCHANGED <<function, env, invocation, handler, extension>>

Skip ==
    /\ function # "api"
    /\ handler = "running" /\ left > 0
    /\ left' = left - 1
    /\ UNCHANGED <<function, env, invocation, handler, extension, signals, buffered>>

\* send_confirmation sends a signal with each mail that is sent.
handle ==
    /\ function = "send_confirmation"
    /\ EndSpans(1) \/ ("send_error" \in FlushFaults /\ EndSpans(0))

\* Mutant: a signal with each record, as in send_confirmation.
handle_record_signalling == function = "send_newsletter" /\ EndSpans(1)

handle_record == function = "send_newsletter" /\ EndSpans(0)

request == function = "api" /\ EndSpans(0)

\* Mutant: no signal at the end, those of the records being enough.
invoke_silently ==
    /\ handler = "running" /\ left = 0
    /\ handler' = "returned"
    /\ UNCHANGED <<function, env, invocation, left, extension, signals, buffered>>

\* The last signal; `call` sends the API's when the service returns Ok.
invoke ==
    /\ handler = "running" /\ left = 0
    /\ handler' = "returned"
    /\ signals' = signals + 1
    /\ UNCHANGED <<function, env, invocation, left, extension, buffered>>

\* An Err passes `call` by; a panic ends the invocation with a function error.
EndSilently ==
    /\ handler = "running"
    /\ IF function = "api" THEN left = 0 /\ "service_error" \in FlushFaults
       ELSE left > 0 /\ "panic" \in FlushFaults
    /\ handler' = "failed"
    /\ buffered' \in {buffered, buffered \cup {invocation}}
    /\ UNCHANGED <<function, env, invocation, left, extension, signals>>

Handler == handle \/ handle_record \/ request \/ Skip \/ invoke \/ EndSilently

-----------------------------------------------------------------------------
(* TraceFlushExtension, and the exporter's own schedule.                   *)

Receive ==
    /\ extension = "receiving" /\ signals > 0
    /\ extension' = "flushing"
    /\ signals' = signals - 1
    /\ UNCHANGED <<function, env, invocation, handler, left, buffered>>

\* Mutant: the provider is not flushed.
no_flush ==
    /\ extension = "flushing"
    /\ extension' = "next"
    /\ UNCHANGED <<function, env, invocation, handler, left, signals, buffered>>

\* What was buffered leaves the process, exported or given up.
force_flush ==
    /\ extension = "flushing"
    /\ extension' = "next"
    /\ buffered' = {}
    /\ UNCHANGED <<function, env, invocation, handler, left, signals>>

\* The batch exporter runs every few seconds, unless frozen.
Export ==
    /\ env = "invoked"
    /\ buffered # {}
    /\ buffered' = {}
    /\ UNCHANGED <<function, env, invocation, handler, left, extension, signals>>

Flush == Receive \/ force_flush

FlushNext ==
    \/ Register \/ Ready \/ RegisterLate \/ Invoke \/ Complete \/ Kill
    \/ Handler
    \/ Flush
    \/ Export

FlushSpec == FlushInit /\ [][FlushNext]_flushVars

\* Lambda runs both tasks of an invoked environment, and ends an invocation.
FairFlushSpec ==
    FlushSpec /\ WF_flushVars(Flush) /\ WF_flushVars(Handler) /\ WF_flushVars(Complete)

-----------------------------------------------------------------------------
(* Properties.                                                             *)

\* The extension is in an event, and the handler at work, only while the
\* environment is invoked; spans are of an invocation that took place; only
\* the API may run without its extension.
FlushTypeOK ==
    /\ function \in Functions
    /\ env \in {"starting", "idle", "invoked"}
    /\ invocation \in 0..MaxInvocations
    /\ handler \in {"none", "running", "returned", "failed"}
    /\ left \in 0..MaxRecords
    /\ extension \in {"unregistered", "next", "receiving", "flushing", "failed"}
    /\ signals \in Nat
    /\ buffered \subseteq 1..invocation
    /\ handler = "none" <=> env # "invoked"
    /\ extension \in {"receiving", "flushing"} => env = "invoked"
    /\ extension \in {"unregistered", "failed"} /\ env # "starting" => function = "api"

Frozen == env = "idle" /\ extension = "next"

\* send_newsletter is never frozen with spans of records that are not exported:
\* its one signal comes after its last record.  (The span of the invocation
\* itself ends after the signal and may stay; it is not counted here.)
NewsletterFlushed == function = "send_newsletter" /\ Frozen => buffered = {}

\* However many signals are left over, spans of records and requests wait for
\* one more invocation at most: each invocation is completed by a flush of all
\* that went before it.
LagsByOne == Frozen => buffered \subseteq {invocation}

\* An invocation whose handler has returned is completed: the extension never
\* waits for a signal that was used already.
ReturnedCompletes == handler = "returned" ~> env # "invoked"
=============================================================================
