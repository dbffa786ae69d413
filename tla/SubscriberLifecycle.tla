------------------------ MODULE SubscriberLifecycle ------------------------
(***************************************************************************)
(* What the subscription service promises about each email address,        *)
(* without requests, failures or a table: an address is registered once,   *)
(* gets at most one confirmation link, whose token no other address has,   *)
(* and, once confirmed, stays confirmed.                                   *)
(***************************************************************************)
CONSTANTS Emails, Tokens

VARIABLES
    phase,      \* phase[e]: how far address e has come
    links       \* links[e]: the tokens ever issued for e

vars == <<phase, links>>

Phases == {"unknown", "pending", "confirmed"}

TypeOK ==
    /\ phase \in [Emails -> Phases]
    /\ links \in [Emails -> SUBSET Tokens]

Init ==
    /\ phase = [e \in Emails |-> "unknown"]
    /\ links = [e \in Emails |-> {}]

Register(e) ==
    /\ phase[e] = "unknown"
    /\ phase' = [phase EXCEPT ![e] = "pending"]
    /\ UNCHANGED links

IssueLink(e, t) ==
    /\ phase[e] # "unknown"
    /\ links[e] = {}
    /\ \A f \in Emails : t \notin links[f]
    /\ links' = [links EXCEPT ![e] = {t}]
    /\ UNCHANGED phase

Confirm(e) ==
    /\ phase[e] = "pending"
    /\ phase' = [phase EXCEPT ![e] = "confirmed"]
    /\ UNCHANGED links

Next ==
    \E e \in Emails :
        \/ Register(e)
        \/ \E t \in Tokens : IssueLink(e, t)
        \/ Confirm(e)

Spec == Init /\ [][Next]_vars
=============================================================================
