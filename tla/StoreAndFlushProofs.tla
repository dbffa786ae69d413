------------------------ MODULE StoreAndFlushProofs ------------------------
(***************************************************************************)
(* The two components that stand on their own proved: SessionStore for any *)
(* number of clients, keys and states, then TraceFlush for any number of   *)
(* invocations and records, both for any set of failures.                  *)
(***************************************************************************)
EXTENDS SessionStore, TraceFlush, TLAPS

-----------------------------------------------------------------------------
(* What a call may do to the table.                                        *)

\* A session is opened under a fresh key, or changed while it is there.
Stores(k, d) ==
    /\ Present(k) \/ k \in Fresh
    /\ Put(k, d)
    /\ issued' \in {issued, issued \cup {k}}

Removes(k) == k \in issued /\ Remove(k) /\ UNCHANGED <<versions, issued>>

TableStep ==
    \/ UNCHANGED tableVars
    \/ \E k \in Keys, d \in Data : Stores(k, d)
    \/ \E k \in Keys : Removes(k)

\* A save opens a session under a fresh key, even when its key collides.
LEMMA SaveStores ==
    ASSUME NEW k \in Keys, NEW d, NEW o \in Outcomes, save(k, d, o)
    PROVE  \/ o = "failed" /\ UNCHANGED tableVars
           \/ o = "failed" /\ k \in Fresh /\ Put(k, d) /\ UNCHANGED issued
           \/ o = "ok" /\ k \in Fresh /\ Put(k, d) /\ issued' = issued \cup {k}
<1>1. ~ Present(k) => k \in Fresh
    BY DEF save, generate_session_key, Present
<1>2. QED
    BY <1>1 DEF save, PutIf

\* An update stores under a key that has a session, whatever its caller hears.
LEMMA UpdateStores ==
    ASSUME NEW k \in issued, NEW d, NEW o, update(k, d, o)
    PROVE  \/ o # "ok" /\ UNCHANGED tableVars
           \/ Present(k) /\ Put(k, d) /\ issued' = issued
BY DEF update, PutIf, tableVars

-----------------------------------------------------------------------------
(* The inductive invariant.                                                *)

\* A call that is over names the key it was about, and an update awaiting its
\* fallback the state it is to store.
CallsOK ==
    \A c \in Clients :
        /\ call[c].op # "none" => call[c].key \in Keys
        /\ call[c].op \in {"save", "update"} => call[c].data \in Data
        /\ call[c].op = "delete" => call[c].key \in issued

TypeInv == TypeOK /\ CallsOK

IInv == TypeInv /\ OkIsStored /\ KeysAreUnique /\ DeletedIsGone

LEMMA InitInv == Init => IInv
BY DEF Init, IInv, TypeInv, TypeOK, TableTypeOK, TableInit, CallsOK, OkIsStored,
       KeysAreUnique, DeletedIsGone, Succeeded, Calls, NoCall, Free, Fresh,
       Operations

\* What a step does to the table and to the call of one client.
LEMMA StepReturns ==
    ASSUME TypeInv, NEW c \in Clients, Step(c)
    PROVE  \E op \in Operations \ {"none"}, k \in Keys,
              d \in Data \cup {NoSession}, o \in Outcomes \cup {"garbled"} :
              /\ Return(c, op, k, d, o)
              /\ o = "garbled" => op = "update"
              /\ op \in {"save", "update"} => d \in Data
              /\ \/ UNCHANGED tableVars
                 \/ d \in Data /\ Stores(k, d) /\ op \in {"save", "update"}
                 \/ Removes(k)
              /\ op \in {"save", "update"} /\ o = "ok" =>
                    Stores(k, d) /\ (op = "save" => k \in Fresh)
              /\ op = "delete" =>
                    k \in issued /\ issued' = issued /\ (o = "ok" => Remove(k))
<1> USE DEF TypeInv, TypeOK, TableTypeOK, Operations, Outcomes
<1>1. CASE Load(c)
    BY <1>1 DEF Load, load
<1>2. ASSUME NEW d \in Data, NEW op \in {"save", "update"}, SaveAs(c, op, d)
      PROVE  \E k \in Keys, o \in Outcomes :
                /\ Return(c, op, k, d, o)
                /\ UNCHANGED tableVars \/ Stores(k, d)
                /\ o = "ok" => k \in Fresh /\ Stores(k, d)
    BY <1>2, SaveStores DEF SaveAs, Stores
<1>3. CASE Save(c)
    BY <1>2, <1>3 DEF Save
<1>4. CASE Update(c)
    BY <1>4, UpdateStores DEF Update, Stores
<1>5. CASE ~ Free(c) /\ UpdateSaves(c)
    <2>1. call[c].data \in Data
        BY <1>5 DEF CallsOK
    <2>2. QED
        BY <1>2, <1>5, <2>1 DEF UpdateSaves
<1>6. CASE UpdateTtl(c)
    BY <1>6 DEF UpdateTtl, update_ttl
<1>7. CASE Delete(c)
    BY <1>7 DEF Delete, delete, Removes, tableVars
<1>8. QED
    BY <1>1, <1>3, <1>4, <1>5, <1>6, <1>7 DEF Step

-----------------------------------------------------------------------------
(* Each part of the invariant is kept.                                     *)

\* What was stored under a key stays in its history, and what was issued stays
\* issued.
LEMMA TableStepKeeps ==
    ASSUME TypeInv, TableStep
    PROVE  /\ TableTypeOK'
           /\ \A k \in Keys : versions[k] \subseteq versions'[k]
           /\ issued \subseteq issued'
<1> USE StoreAssumption DEF TypeInv, TypeOK, TableTypeOK, Fresh, Present
<1>1. CASE UNCHANGED tableVars
    BY <1>1 DEF tableVars
<1>2. ASSUME NEW k \in Keys, NEW d \in Data, Stores(k, d)
      PROVE  /\ TableTypeOK'
             /\ \A j \in Keys : versions[j] \subseteq versions'[j]
             /\ issued \subseteq issued'
    BY <1>2 DEF Stores, Put
<1>3. ASSUME NEW k \in Keys, Removes(k)
      PROVE  /\ TableTypeOK'
             /\ \A j \in Keys : versions[j] \subseteq versions'[j]
             /\ issued \subseteq issued'
    BY <1>3 DEF Removes, Remove
<1>4. QED
    BY <1>1, <1>2, <1>3 DEF TableStep

LEMMA StepTableStep ==
    ASSUME TypeInv, [Next]_vars
    PROVE  TableStep
<1>1. CASE UNCHANGED vars
    BY <1>1 DEF vars, TableStep
<1>2. ASSUME NEW c \in Clients, Step(c)
      PROVE  TableStep
    BY <1>2, StepReturns DEF TableStep
<1>3. QED
    BY <1>1, <1>2 DEF Next

LEMMA StepInv == IInv /\ [Next]_vars => IInv'
<1> SUFFICES ASSUME IInv, [Next]_vars
             PROVE  IInv'
    OBVIOUS
<1> USE StoreAssumption
    DEF IInv, TypeInv, TypeOK, TableTypeOK, CallsOK, Calls, Free, Succeeded
<1>1. CASE UNCHANGED vars
    BY <1>1 DEF vars, tableVars, OkIsStored, KeysAreUnique, DeletedIsGone,
                Fresh, Present
<1>2. ASSUME NEW c \in Clients, Step(c)
      PROVE  IInv'
    <2>1. PICK op \in Operations \ {"none"}, k \in Keys,
               d \in Data \cup {NoSession}, o \in Outcomes \cup {"garbled"} :
              /\ Return(c, op, k, d, o)
              /\ o = "garbled" => op = "update"
              /\ op \in {"save", "update"} => d \in Data
              /\ \/ UNCHANGED tableVars
                 \/ d \in Data /\ Stores(k, d) /\ op \in {"save", "update"}
                 \/ Removes(k)
              /\ op \in {"save", "update"} /\ o = "ok" =>
                    Stores(k, d) /\ (op = "save" => k \in Fresh)
              /\ op = "delete" =>
                    k \in issued /\ issued' = issued /\ (o = "ok" => Remove(k))
        BY <1>2, StepReturns
    <2>2. /\ call'[c] = [op |-> op, key |-> k, data |-> d, outcome |-> o]
          /\ \A b \in Clients \ {c} : call'[b] = call[b]
          /\ call' \in [Clients -> Calls]
        BY <2>1 DEF Return, Outcomes
    <2>3. TableStep
        BY <1>2, StepTableStep DEF Next
    <2>4. /\ TableTypeOK'
          /\ \A j \in Keys : versions[j] \subseteq versions'[j]
          /\ issued \subseteq issued'
        BY <2>3, TableStepKeeps
    <2>5. TypeInv'
        BY <2>1, <2>2, <2>4
    <2>6. OkIsStored'
        BY <2>1, <2>2, <2>4 DEF OkIsStored, Stores, Put
    <2>7. KeysAreUnique'
        BY <2>1, <2>2 DEF KeysAreUnique, OkIsStored, Fresh
    <2>8. DeletedIsGone'
        BY <2>1, <2>2, <2>3
        DEF DeletedIsGone, TableStep, tableVars, Stores, Removes, Put, Remove,
            Fresh, Present
    <2>9. QED
        BY <2>5, <2>6, <2>7, <2>8
<1>3. QED
    BY <1>1, <1>2 DEF Next

LEMMA Invariance == Spec => []IInv
<1>1. QED
    BY InitInv, StepInv, PTL DEF Spec

\* Every reachable state is well typed: no key is handed out under which
\* nothing was ever stored.
THEOREM TypeCorrect == Spec => []TypeOK
<1>1. IInv => TypeOK
    BY DEF IInv, TypeInv
<1>2. QED
    BY Invariance, <1>1, PTL

\* A state reported as stored was stored under the key reported.
THEOREM ReportsAreTrue == Spec => []OkIsStored
<1>1. IInv => OkIsStored
    BY DEF IInv
<1>2. QED
    BY Invariance, <1>1, PTL

\* No two clients are given one key.
THEOREM NoSharedKeys == Spec => []KeysAreUnique
<1>1. IInv => KeysAreUnique
    BY DEF IInv
<1>2. QED
    BY Invariance, <1>1, PTL

\* What a delete reported as gone never comes back.
THEOREM DeletionLasts == Spec => []DeletedIsGone
<1>1. IInv => DeletedIsGone
    BY DEF IInv
<1>2. QED
    BY Invariance, <1>1, PTL

-----------------------------------------------------------------------------
(* The lifecycle of a key.                                                 *)

StateOf(k) ==
    IF Present(k) THEN sessions[k] ELSE IF k \in Fresh THEN "unused" ELSE "ended"

States == [k \in Keys |-> StateOf(k)]

LEMMA InitLifecycle == Init => Lifecycle!Init
BY DEF Init, TableInit, Lifecycle!Init, Present, Fresh

LEMMA StepLifecycle == IInv /\ [Next]_vars => [Lifecycle!Next]_States
<1> SUFFICES ASSUME IInv, [Next]_vars
             PROVE  [Lifecycle!Next]_States
    OBVIOUS
<1> USE StoreAssumption DEF IInv, TypeInv, TypeOK, TableTypeOK, Present, Fresh
<1>1. TableStep
    BY StepTableStep
<1>2. CASE UNCHANGED tableVars
    BY <1>2 DEF tableVars, States, StateOf
<1>3. ASSUME NEW k \in Keys, NEW d \in Data, Stores(k, d)
      PROVE  Lifecycle!Open(k, d) \/ Lifecycle!Change(k, d)
    <2>1. States' = [States EXCEPT ![k] = d]
        BY <1>3 DEF Stores, Put, States, StateOf
    <2>2. States[k] = "unused" \/ States[k] \in Data
        BY <1>3 DEF Stores, States, StateOf
    <2>3. QED
        BY <2>1, <2>2 DEF Lifecycle!Open, Lifecycle!Change, States, StateOf
<1>4. ASSUME NEW k \in Keys, Removes(k)
      PROVE  Lifecycle!End(k) \/ UNCHANGED States
    <2>1. CASE Present(k)
        <3>1. States' = [States EXCEPT ![k] = "ended"]
            BY <1>4, <2>1 DEF Removes, Remove, States, StateOf
        <3>2. States[k] \in Data
            BY <2>1 DEF States, StateOf
        <3>3. QED
            BY <3>1, <3>2 DEF Lifecycle!End, States, StateOf
    <2>2. CASE ~ Present(k)
        BY <1>4, <2>2 DEF Removes, Remove, States, StateOf
    <2>3. QED
        BY <2>1, <2>2
<1>5. QED
    BY <1>1, <1>2, <1>3, <1>4 DEF TableStep, Lifecycle!Next

\* The store implements SessionLifecycle: whatever fails, is lost or collides,
\* a key is opened once, and what has ended stays so.
THEOREM RefinesLifecycle == Spec => ImplementsLifecycle
<1>1. QED
    BY Invariance, InitLifecycle, StepLifecycle, PTL
       DEF Spec, ImplementsLifecycle, Lifecycle!Spec, States, StateOf

-----------------------------------------------------------------------------
(* TraceFlush.  The invariants relate what is buffered and what is in the  *)
(* channel to where the handler and the extension are.                     *)

\* An invocation has a number of its own; nothing is buffered at the start,
\* and when the extension is not in an event only the spans of the last
\* invocation can be, for the others were there when it flushed.
SpansInv ==
    /\ env = "invoked" => invocation >= 1
    /\ env = "starting" => buffered = {}
    /\ extension = "next" => buffered \subseteq {invocation}

\* The one signal of send_newsletter is sent when the handler returns and is
\* used before the environment is frozen, or the handler never returns.
SignalsInv ==
    function = "send_newsletter" =>
        /\ env # "invoked" => signals = 0 /\ buffered = {}
        /\ handler \in {"running", "failed"} =>
              signals = 0 /\ extension = "receiving"
        /\ handler = "returned" =>
              /\ extension = "receiving" => signals = 1
              /\ extension = "flushing" => signals = 0
              /\ extension = "next" => signals = 0 /\ buffered = {}

FlushInv == FlushTypeOK /\ SpansInv /\ SignalsInv

LEMMA InitFlushInv == FlushInit => FlushInv
BY FlushAssumption DEF FlushInit, FlushInv, FlushTypeOK, SpansInv, SignalsInv

LEMMA StepFlushType == FlushInv /\ [FlushNext]_flushVars => FlushTypeOK'
<1> SUFFICES ASSUME FlushInv, [FlushNext]_flushVars
             PROVE  FlushTypeOK'
    OBVIOUS
<1> USE FlushAssumption DEF FlushInv, FlushTypeOK, SpansInv
<1>1. CASE Register
    BY <1>1 DEF Register
<1>2. CASE Ready
    BY <1>2 DEF Ready
<1>3. CASE RegisterLate
    BY <1>3 DEF RegisterLate
<1>4. CASE Invoke
    BY <1>4 DEF Invoke
<1>5. CASE Complete
    BY <1>5 DEF Complete
<1>6. CASE Kill
    BY <1>6 DEF Kill
<1>7. ASSUME NEW n \in {0, 1}, EndSpans(n)
      PROVE  FlushTypeOK'
    BY <1>7 DEF EndSpans
<1>8. CASE Skip
    BY <1>8 DEF Skip
<1>9. CASE invoke
    BY <1>9 DEF invoke
<1>10. CASE EndSilently
    BY <1>10 DEF EndSilently
<1>11. CASE Receive
    BY <1>11 DEF Receive
<1>12. CASE force_flush \/ Export
    BY <1>12 DEF force_flush, Export
<1>13. CASE UNCHANGED flushVars
    BY <1>13 DEF flushVars
<1>14. QED
    BY <1>1, <1>2, <1>3, <1>4, <1>5, <1>6, <1>7, <1>8, <1>9, <1>10, <1>11,
       <1>12, <1>13
    DEF FlushNext, Handler, handle, handle_record, request, Flush

LEMMA StepSpans == FlushInv /\ [FlushNext]_flushVars => SpansInv'
<1> SUFFICES ASSUME FlushInv, [FlushNext]_flushVars
             PROVE  SpansInv'
    OBVIOUS
<1> USE FlushAssumption DEF FlushInv, FlushTypeOK, SpansInv
<1>1. CASE Register \/ Ready \/ RegisterLate
    BY <1>1 DEF Register, Ready, RegisterLate
<1>2. CASE Invoke
    BY <1>2 DEF Invoke
<1>3. CASE Complete \/ Kill
    BY <1>3 DEF Complete, Kill
<1>4. ASSUME NEW n \in {0, 1}, EndSpans(n)
      PROVE  SpansInv'
    BY <1>4 DEF EndSpans
<1>5. CASE Skip \/ invoke \/ EndSilently
    BY <1>5 DEF Skip, invoke, EndSilently
<1>6. CASE Flush \/ Export
    BY <1>6 DEF Flush, Receive, force_flush, Export
<1>7. CASE UNCHANGED flushVars
    BY <1>7 DEF flushVars
<1>8. QED
    BY <1>1, <1>2, <1>3, <1>4, <1>5, <1>6, <1>7
    DEF FlushNext, Handler, handle, handle_record, request

LEMMA StepSignals == FlushInv /\ [FlushNext]_flushVars => SignalsInv'
<1> SUFFICES ASSUME FlushInv, [FlushNext]_flushVars, function' = "send_newsletter"
             PROVE  SignalsInv'
    BY DEF SignalsInv
<1>1. function = "send_newsletter"
    BY DEF FlushNext, flushVars, Register, Ready, RegisterLate, Invoke, Complete,
           Kill, Handler, handle, handle_record, request, EndSpans, Skip, invoke,
           EndSilently, Flush, Receive, force_flush, Export
<1> USE <1>1, FlushAssumption DEF FlushInv, FlushTypeOK, SpansInv, SignalsInv
<1>2. CASE Register \/ RegisterLate
    BY <1>2 DEF Register, RegisterLate
<1>3. CASE Ready
    <2>1. signals' = signals
        BY <1>3 DEF Ready
    <2>2. QED
        BY <1>3, <2>1 DEF Ready
<1>4. CASE Invoke
    BY <1>4 DEF Invoke
<1>5. CASE Complete \/ Kill
    BY <1>5 DEF Complete, Kill
<1>6. CASE handle_record
    BY <1>6 DEF handle_record, EndSpans
<1>7. CASE Skip \/ invoke \/ EndSilently
    BY <1>7 DEF Skip, invoke, EndSilently
<1>8. CASE Flush \/ Export
    BY <1>8 DEF Flush, Receive, force_flush, Export
<1>9. CASE UNCHANGED flushVars
    BY <1>9 DEF flushVars
<1>10. QED
    BY <1>2, <1>3, <1>4, <1>5, <1>6, <1>7, <1>8, <1>9
    DEF FlushNext, Handler, handle, request

LEMMA FlushInvariance == FlushSpec => []FlushInv
<1>1. FlushInv /\ [FlushNext]_flushVars => FlushInv'
    BY StepFlushType, StepSpans, StepSignals DEF FlushInv
<1>2. QED
    BY <1>1, InitFlushInv, PTL DEF FlushSpec

-----------------------------------------------------------------------------
(* Theorems.                                                               *)

\* The extension is in an event only while its environment is invoked, and
\* no function but the API runs without its extension.
THEOREM FlushTyped == FlushSpec => []FlushTypeOK
<1>1. FlushInv => FlushTypeOK
    BY DEF FlushInv
<1>2. QED
    BY <1>1, FlushInvariance, PTL

\* send_newsletter is never frozen with spans of records that are not exported,
\* however many records fail, and whether its handler panics or is killed.
THEOREM FlushedWhenFrozen == FlushSpec => []NewsletterFlushed
<1>1. FlushInv => NewsletterFlushed
    BY DEF FlushInv, SignalsInv, NewsletterFlushed, Frozen
<1>2. QED
    BY <1>1, FlushInvariance, PTL

\* In all functions the spans of records and requests wait for one more
\* invocation at most, although signals are left over from those before.
THEOREM SpansWaitOnce == FlushSpec => []LagsByOne
<1>1. FlushInv => LagsByOne
    BY DEF FlushInv, SpansInv, LagsByOne, Frozen
<1>2. QED
    BY <1>1, FlushInvariance, PTL
=============================================================================
