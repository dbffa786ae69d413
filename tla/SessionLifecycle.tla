-------------------------- MODULE SessionLifecycle --------------------------
(***************************************************************************)
(* What a session store promises about each session key, without clients,  *)
(* calls or failures: a key is opened once, the session under it changes   *)
(* only while it is open, and what has ended never comes back.             *)
(***************************************************************************)
CONSTANTS Keys, Data, Unused, Ended

VARIABLE session    \* session[k]: the state under key k, or Unused or Ended

Open(k, d) == session[k] = Unused /\ session' = [session EXCEPT ![k] = d]

Change(k, d) == session[k] \in Data /\ session' = [session EXCEPT ![k] = d]

End(k) == session[k] \in Data /\ session' = [session EXCEPT ![k] = Ended]

Init == session = [k \in Keys |-> Unused]

Next ==
    \E k \in Keys :
        \/ \E d \in Data : Open(k, d) \/ Change(k, d)
        \/ End(k)

Spec == Init /\ [][Next]_session
=============================================================================
