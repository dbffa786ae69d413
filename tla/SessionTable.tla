---------------------------- MODULE SessionTable ----------------------------
(***************************************************************************)
(* DynamoDbSessionStore: the operations that actix-session calls on the    *)
(* table of sessions.  Each makes one call to DynamoDB and is one step,    *)
(* with its outcome as the last argument.                                  *)
(*                                                                         *)
(* Nothing expires: the `ttl` attribute is written in milliseconds, which  *)
(* DynamoDB reads as a time thousands of years away, and the table of the  *)
(* CDK stack has no TTL attribute.                                         *)
(***************************************************************************)
EXTENDS FiniteSets, Naturals

CONSTANTS
    Keys,           \* session keys
    Data,           \* states of a session
    NoSession,      \* no item under a key
    StoreFaults     \* the failures that may happen

StoreFaultKinds == {
    "db_error",         \* the call fails and changes nothing
    "lost_response",    \* the call is applied and reported as failed
    "garbled_response", \* an update's response that cannot be parsed
    "stale_read",       \* get_item is not a consistent read
    "key_collision" }   \* generate_session_key returns the key of an item

ASSUME StoreAssumption ==
    /\ NoSession \notin Data
    /\ StoreFaults \subseteq StoreFaultKinds

VARIABLES
    sessions,   \* sessions[k]: the session in the table under key k
    versions,   \* versions[k]: every state ever stored under k
    issued      \* the keys callers were given: those a cookie may carry

tableVars == <<sessions, versions, issued>>

Outcomes == {"ok", "failed"}

Present(k) == sessions[k] # NoSession
Fresh == {k \in Keys : versions[k] = {}}

TableInit ==
    /\ sessions = [k \in Keys |-> NoSession]
    /\ versions = [k \in Keys |-> {}]
    /\ issued = {}

-----------------------------------------------------------------------------

\* What a read of k may see.
Visible(k) ==
    {sessions[k]} \cup
        IF "stale_read" \in StoreFaults THEN versions[k] \cup {NoSession} ELSE {}

\* load returns d, if it succeeds.
load(k, d, outcome) ==
    /\ \/ outcome = "ok" /\ d \in Visible(k)
       \/ outcome = "failed" /\ d = NoSession /\ "db_error" \in StoreFaults
    /\ UNCHANGED tableVars

Put(k, d) ==
    /\ sessions' = [sessions EXCEPT ![k] = d]
    /\ versions' = [versions EXCEPT ![k] = @ \cup {d}]

\* put_item with a condition.
PutIf(condition, k, d, outcome) ==
    \/ outcome = "ok" /\ condition /\ Put(k, d) /\ issued' = issued \cup {k}
    \/ /\ outcome = "failed" /\ condition /\ "lost_response" \in StoreFaults
       /\ Put(k, d) /\ UNCHANGED issued
    \/ /\ outcome = "failed" /\ (~ condition \/ "db_error" \in StoreFaults)
       /\ UNCHANGED tableVars

\* 64 random characters: a key nothing was stored under, or that of an item.
generate_session_key ==
    Fresh \cup
        IF "key_collision" \in StoreFaults THEN {k \in Keys : Present(k)} ELSE {}

\* Mutant: save without its condition.
save_unconditionally(k, d, outcome) ==
    k \in generate_session_key /\ PutIf(TRUE, k, d, outcome)

\* Mutant: save returning its key whatever the put returned.
save_ignoring_result(k, d, outcome) ==
    /\ k \in generate_session_key
    /\ outcome = "ok" /\ issued' = issued \cup {k}
    /\ IF Present(k) THEN UNCHANGED <<sessions, versions>>
       ELSE Put(k, d) \/ UNCHANGED <<sessions, versions>>

\* `attribute_not_exists`: save puts d under a key k of its own.
save(k, d, outcome) ==
    k \in generate_session_key /\ PutIf(~ Present(k), k, d, outcome)

\* Mutant: update without its condition.
update_unconditionally(k, d, outcome) == PutIf(TRUE, k, d, outcome)

\* `attribute_exists`.  A put that the condition refuses is a service error,
\* not the ResponseError after which the code falls back to save, so update
\* fails then.  A garbled response is one, whether the put was applied or not.
update(k, d, outcome) ==
    \/ PutIf(Present(k), k, d, outcome)
    \/ /\ outcome = "garbled" /\ "garbled_response" \in StoreFaults
       /\ (Present(k) /\ Put(k, d)) \/ UNCHANGED <<sessions, versions>>
       /\ UNCHANGED issued

\* "SET ttl = :value" names an attribute by a reserved word: always refused.
update_ttl(k, outcome) == outcome = "failed" /\ UNCHANGED tableVars

Remove(k) == sessions' = [sessions EXCEPT ![k] = NoSession]

\* Mutant: delete without the `?` on its result.
delete_ignoring_result(k, outcome) ==
    /\ outcome = "ok"
    /\ Remove(k) \/ UNCHANGED sessions
    /\ UNCHANGED <<versions, issued>>

\* Deleting what is not there succeeds.
delete(k, outcome) ==
    /\ \/ outcome = "ok" /\ Remove(k)
       \/ outcome = "failed" /\ "lost_response" \in StoreFaults /\ Remove(k)
       \/ outcome = "failed" /\ "db_error" \in StoreFaults /\ UNCHANGED sessions
    /\ UNCHANGED <<versions, issued>>

-----------------------------------------------------------------------------

\* A session that is there has a history and its state is part of it; a key
\* is handed out only after something was stored under it.
TableTypeOK ==
    /\ versions \in [Keys -> SUBSET Data]
    /\ DOMAIN sessions = Keys
    /\ \A k \in Keys : sessions[k] \in versions[k] \cup {NoSession}
    /\ issued \subseteq Keys \ Fresh
=============================================================================
