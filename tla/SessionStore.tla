---------------------------- MODULE SessionStore ----------------------------
(***************************************************************************)
(* The session store on its own: any number of clients, each calling any   *)
(* operation at any time.  An update whose response cannot be read makes a *)
(* second call, and others come in between.                                *)
(***************************************************************************)
EXTENDS SessionTable

CONSTANTS
    Clients,    \* callers, each making one call at a time
    NoKey       \* no key

ASSUME ClientAssumption == NoKey \notin Keys

VARIABLE call   \* call[c]: the last operation of c, with its key and state,
                \* and its outcome

vars == <<tableVars, call>>

NoCall == [op |-> "none", key |-> NoKey, data |-> NoSession, outcome |-> "none"]

Init == TableInit /\ call = [c \in Clients |-> NoCall]

Free(c) == call[c].outcome # "garbled"

Return(c, op, k, d, outcome) ==
    call' = [call EXCEPT
                ![c] = [op |-> op, key |-> k, data |-> d, outcome |-> outcome]]

\* Bound: keys do not run out.  One is left for each fallback under way.
KeyLeft == Cardinality(Fresh) > Cardinality({c \in Clients : ~ Free(c)})

Load(c) ==
    \E k \in Keys, d \in Data \cup {NoSession}, o \in Outcomes :
        load(k, d, o) /\ Return(c, "load", k, d, o)

SaveAs(c, op, d) ==
    \E k \in Keys, o \in Outcomes : save(k, d, o) /\ Return(c, op, k, d, o)

Save(c) == KeyLeft /\ \E d \in Data : SaveAs(c, "save", d)

Update(c) ==
    \E k \in issued, d \in Data, o \in Outcomes \cup {"garbled"} :
        /\ o = "garbled" => KeyLeft
        /\ update(k, d, o) /\ Return(c, "update", k, d, o)

\* The fallback of update to save, with the same state and another key.
UpdateSaves(c) == SaveAs(c, "update", call[c].data)

UpdateTtl(c) ==
    \E k \in issued, o \in Outcomes :
        update_ttl(k, o) /\ Return(c, "update_ttl", k, NoSession, o)

Delete(c) ==
    \E k \in issued, o \in Outcomes :
        delete(k, o) /\ Return(c, "delete", k, NoSession, o)

Step(c) ==
    \/ Free(c) /\ (Load(c) \/ Save(c) \/ Update(c) \/ UpdateTtl(c) \/ Delete(c))
    \/ ~ Free(c) /\ UpdateSaves(c)

Next == \E c \in Clients : Step(c)

Spec == Init /\ [][Next]_vars

-----------------------------------------------------------------------------
(* Properties.                                                             *)

Operations == {"none", "load", "save", "update", "update_ttl", "delete"}

Calls == [op : Operations, key : Keys \cup {NoKey}, data : Data \cup {NoSession},
          outcome : {"none", "ok", "failed", "garbled"}]

\* The table is well formed and a call that awaits its fallback is an update.
TypeOK ==
    /\ TableTypeOK
    /\ call \in [Clients -> Calls]
    /\ \A c \in Clients : ~ Free(c) => call[c].op = "update"

Succeeded(c, op) == call[c].op = op /\ call[c].outcome = "ok"

\* A client that was told its state is stored under a key finds it there, or
\* a later one, or nothing if the session was deleted, but never only states
\* that others stored: the result of the put, and of the fallback's put, is
\* never lost.
OkIsStored ==
    \A c \in Clients :
        Succeeded(c, "save") \/ Succeeded(c, "update")
            => call[c].data \in versions[call[c].key]

\* No two clients are given one key for the sessions they open, even when
\* their keys collide: the condition of save's put.
KeysAreUnique ==
    \A c, d \in Clients :
        Succeeded(c, "save") /\ Succeeded(d, "save") /\ c # d
            => call[c].key # call[d].key

\* A session that a delete reported as gone is gone and stays so, although
\* others still update it: the condition of update, and delete's own result.
DeletedIsGone ==
    \A c \in Clients : Succeeded(c, "delete") => ~ Present(call[c].key)

Lifecycle == INSTANCE SessionLifecycle WITH
    Unused <- "unused",
    Ended <- "ended",
    session <- [k \in Keys |->
                    IF Present(k) THEN sessions[k]
                    ELSE IF k \in Fresh THEN "unused" ELSE "ended"]

\* The store implements SessionLifecycle: whatever fails, is lost or read
\* stale, no call brings a session back, and no save touches another's.
ImplementsLifecycle == Lifecycle!Spec
=============================================================================
