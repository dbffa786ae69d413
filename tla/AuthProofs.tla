----------------------------- MODULE AuthProofs -----------------------------
(***************************************************************************)
(* Auth proved for any number of requests, keys, users and passwords, and  *)
(* for any set of failures.                                                *)
(***************************************************************************)
EXTENDS Auth, TLAPS

-----------------------------------------------------------------------------
(* What the session store's calls may do to the sessions.                  *)

Fresh == {k \in Keys : versions[k] = {}}

Opens(k, u) ==
    /\ k \in Fresh
    /\ sessions' = [sessions EXCEPT ![k] = u]
    /\ versions' = [versions EXCEPT ![k] = @ \cup {u}]
    /\ issued' \in {issued, issued \cup {k}}

Ends(k) ==
    /\ sessions' = [sessions EXCEPT ![k] = Nobody]
    /\ UNCHANGED <<versions, issued>>

\* A load changes nothing, and sees a state that was once stored, or none.
LEMMA LoadReads ==
    ASSUME NEW k, NEW u, NEW o, Store!load(k, u, o), Store!TableTypeOK, k \in Keys
    PROVE  UNCHANGED store /\ u \in versions[k] \cup {Nobody}
BY DEF Store!load, Store!Visible, Store!TableTypeOK, Store!tableVars, store

\* A save opens a session under a fresh key, even when its key collides.
LEMMA SaveOpens ==
    ASSUME NEW k \in Keys, NEW u, NEW o, Store!save(k, u, o)
    PROVE  \/ o # "ok" /\ UNCHANGED store
           \/ Opens(k, u)
<1>1. ~ Store!Present(k) => k \in Fresh
    BY DEF Store!save, Store!generate_session_key, Store!Fresh, Store!Present, Fresh
<1>2. QED
    BY <1>1 DEF Store!save, Store!PutIf, Store!Put, Store!tableVars, store, Opens

\* A delete that succeeds ends the session, and one that fails may.
LEMMA DeleteEnds ==
    ASSUME NEW k, NEW o, Store!delete(k, o)
    PROVE  \/ o # "ok" /\ UNCHANGED store
           \/ Ends(k)
BY DEF Store!delete, Store!Remove, store, Ends

-----------------------------------------------------------------------------
(* The inductive invariant.  What a request may do depends on what it has  *)
(* established at its earlier calls, while others went on.                 *)

\* The part of TypeOK that no request's state is in.
TablesOK ==
    /\ Store!TableTypeOK
    /\ everStored \in [Users -> SUBSET Passwords]
    /\ DOMAIN password = Users
    /\ \A u \in Users : password[u] \in everStored[u] \cup {NoPassword}
    /\ offered \subseteq Users \X Passwords
    /\ retired \subseteq issued

\* A password about to be verified came with a login, or with the change of a
\* logged-in user's; one that was verified is, or was, that user's.
RequestOK(r) ==
    /\ request[r] \in Contexts
    /\ At(r, "put") \/ At(r, "purge") => request[r].user # Nobody
    /\ At(r, "purge") \/ At(r, "renew") => request[r].key # NoKey
    /\ At(r, "credentials") =>
          \/ Form(r) \in Logins /\ <<Form(r).name, Form(r).given>> \in offered
          \/ Form(r) \in Changes /\ request[r].user # Nobody
    /\ At(r, "renew") \/ At(r, "save") =>
          /\ Form(r) \in Logins
          /\ <<Form(r).name, Form(r).given>> \in offered
          /\ Form(r).given \in everStored[Form(r).name]
    /\ At(r, "put") =>
          Form(r) \in Changes /\ Form(r).given \in everStored[request[r].user]

TypeInv ==
    /\ TablesOK
    /\ request = [r \in Requests |-> request[r]]
    /\ \A r \in Requests : RequestOK(r)

\* A stale read, too, shows only what was earned.
HistoryEarned == \A k \in Keys : \A u \in versions[k] : Earned(u)

\* A login about to save its new session has ended its old one.
OldIsGone ==
    \A r \in Requests :
        At(r, "save") /\ request[r].key # NoKey => sessions[request[r].key] = Nobody

EarnedInv == HistoryEarned /\ SessionsAreEarned

GoneInv == OldIsGone /\ RetiredIsGone

IInv == TypeInv /\ EarnedInv /\ GoneInv

LEMMA Types == TypeInv => TypeOK
BY DEF TypeInv, TablesOK, RequestOK, TypeOK

LEMMA InitInv == Init => IInv
<1> SUFFICES ASSUME Init
             PROVE  IInv
    OBVIOUS
<1> USE AuthAssumption
    DEF Init, Idle, At, Form, Store!TableInit, Store!TableTypeOK, Store!Fresh
<1>1. Idle \in Contexts /\ issued = {}
    BY DEF Contexts, Forms, Plain
<1>2. TypeInv
    BY <1>1 DEF TypeInv, TablesOK, RequestOK
<1>3. EarnedInv /\ GoneInv
    BY DEF EarnedInv, GoneInv, HistoryEarned, SessionsAreEarned, OldIsGone,
           RetiredIsGone
<1>4. QED
    BY <1>2, <1>3 DEF IInv

-----------------------------------------------------------------------------
(* Types, and what each request has verified.                              *)

\* What only grows, and requests rely on.
Grows ==
    /\ issued \subseteq issued'
    /\ offered \subseteq offered'
    /\ \A u \in Users : everStored[u] \subseteq everStored'[u]

LEMMA FormsByRoute ==
    ASSUME NEW f \in Forms
    PROVE  /\ f.route \in {"page", "mismatch", "log_out", "migrate", "login",
                           "change_password"}
           /\ f.route = "login" <=> f \in Logins
           /\ f.route = "change_password" <=> f \in Changes
BY DEF Forms, Plain, Logins, Changes

LEMMA UnchangedTables ==
    ASSUME TablesOK, UNCHANGED <<store, userTable, offered, retired>>
    PROVE  TablesOK' /\ Grows
BY DEF TablesOK, Grows, store, userTable, Store!TableTypeOK, Store!Fresh

\* A request keeps what it verified while the tables change.
LEMMA OthersKeep ==
    ASSUME NEW q, RequestOK(q), Grows, request'[q] = request[q]
    PROVE  RequestOK(q)'
<1>1. request[q] \in Contexts /\ request[q] \in Contexts'
    BY DEF Contexts, Grows, RequestOK
<1>2. request[q].user # Nobody => request[q].user \in Users
    BY <1>1 DEF Contexts
<1>3. Form(q) \in Logins => Form(q).name \in Users
    BY DEF Logins
<1>4. QED
    BY <1>1, <1>2, <1>3 DEF RequestOK, Grows, At, Form

\* A request that is answered is no longer anybody's.
LEMMA AnswerKeeps ==
    ASSUME TypeInv, TablesOK', Grows, NEW r \in Requests, Answer(r)
    PROVE  TypeInv'
<1>1. /\ request' = [q \in Requests |-> request'[q]]
      /\ request'[r] = Idle
      /\ \A q \in Requests \ {r} : request'[q] = request[q]
    BY DEF TypeInv, Answer
<1>2. RequestOK(r)'
    BY <1>1 DEF RequestOK, Idle, At, Contexts, Forms, Plain
<1>3. QED
    BY <1>1, <1>2, OthersKeep DEF TypeInv

\* GoTo changes nothing but the call the request is about to make.
LEMMA GoToMoves ==
    ASSUME TypeInv, NEW r \in Requests, NEW where \in {"renew", "save", "put"},
           GoTo(r, where)
    PROVE  /\ request' = [q \in Requests |-> request'[q]]
           /\ \A q \in Requests \ {r} : request'[q] = request[q]
           /\ request'[r] \in [pc : {where}, form : {request[r].form},
                               key : {request[r].key}, user : {request[r].user}]
<1>1. request[r] \in Contexts
    BY DEF TypeInv, RequestOK
<1>2. QED
    BY <1>1 DEF GoTo, Contexts, TypeInv

\* A request goes on to a call once it has verified what that call needs.
LEMMA GoToKeeps ==
    ASSUME TypeInv, TablesOK', Grows, NEW r \in Requests,
           NEW where \in {"renew", "save", "put"}, GoTo(r, where),
           where = "put" =>
               /\ Form(r) \in Changes /\ request[r].user # Nobody
               /\ Form(r).given \in everStored[request[r].user],
           where # "put" =>
               /\ Form(r) \in Logins
               /\ <<Form(r).name, Form(r).given>> \in offered
               /\ Form(r).given \in everStored[Form(r).name],
           where = "renew" => request[r].key # NoKey
    PROVE  TypeInv'
<1>1. request[r] \in Contexts
    BY DEF TypeInv, RequestOK
<1>2. request'[r] \in Contexts'
    BY <1>1, GoToMoves DEF Contexts, Grows
<1>3. request[r].user # Nobody => request[r].user \in Users
    BY <1>1 DEF Contexts
<1>4. Form(r) \in Logins => Form(r).name \in Users
    BY DEF Logins
<1>5. RequestOK(r)'
    BY <1>2, <1>3, <1>4, GoToMoves DEF RequestOK, At, Form, Grows
<1>6. QED
    BY <1>5, GoToMoves, OthersKeep DEF TypeInv

\* A request enters with the user its cookie's session has or had, or none.
LEMMA ReceiveEnters ==
    ASSUME TypeInv, NEW r \in Requests, NEW f \in Forms,
           NEW k \in issued \cup {NoKey}, receive(r, f, k)
    PROVE  /\ UNCHANGED <<store, userTable, retired>>
           /\ \/ Answer(r)
              \/ Enter(r, f, NoKey, Nobody)
              \/ k \in Keys /\ \E u \in versions[k] : Enter(r, f, k, u)
<1> USE DEF TypeInv, TablesOK, Store!TableTypeOK
<1>1. CASE k = NoKey
    BY <1>1 DEF receive
<1>2. CASE k # NoKey
    <2>1. PICK u \in Users \cup {Nobody}, o \in {"ok", "failed"} :
             /\ Store!load(k, u, o)
             /\ \/ Enter(r, f, IF u = Nobody THEN NoKey ELSE k, u)
                \/ Answer(r)
        BY <1>2 DEF receive
    <2>2. UNCHANGED store /\ u \in versions[k] \cup {Nobody}
        BY <1>2, <2>1, LoadReads
    <2>3. QED
        BY <1>2, <2>1, <2>2 DEF receive
<1>3. QED
    BY <1>1, <1>2

LEMMA ReceiveTypeInv ==
    ASSUME TypeInv, NEW r \in Requests, NEW f \in Forms,
           NEW k \in issued \cup {NoKey}, receive(r, f, k)
    PROVE  TypeInv'
<1>1. UNCHANGED <<store, userTable, retired>>
    BY ReceiveEnters
<1>2. /\ offered' \subseteq Users \X Passwords
      /\ offered \subseteq offered'
      /\ f \in Logins => <<f.name, f.given>> \in offered'
    BY FormsByRoute DEF receive, Logins, TypeInv, TablesOK
<1>3. TablesOK' /\ Grows
    BY <1>1, <1>2
    DEF TypeInv, TablesOK, Grows, store, userTable, Store!TableTypeOK, Store!Fresh
<1>4. ASSUME NEW j \in issued \cup {NoKey}, NEW u \in Users \cup {Nobody},
             Enter(r, f, j, u), u # Nobody => j # NoKey
      PROVE  TypeInv'
    <2>1. CASE Answer(r)
        BY <1>3, <2>1, AnswerKeeps
    <2>2. CASE ~ Answer(r)
        <3>1. /\ request' = [q \in Requests |-> request'[q]]
              /\ request'[r] = [pc |-> FirstCall(f), form |-> f, key |-> j, user |-> u]
              /\ \A q \in Requests \ {r} : request'[q] = request[q]
            BY <1>4, <2>2 DEF Enter, TypeInv
        <3>2. /\ f.route \in {"log_out", "migrate", "login", "change_password"}
              /\ f.route \notin {"login", "migrate"} => u # Nobody
            BY <1>4, <2>2, FormsByRoute DEF Enter, reject_anonymous_users
        <3>3. RequestOK(r)'
            BY <1>2, <1>3, <1>4, <3>1, <3>2, FormsByRoute
            DEF RequestOK, At, Form, FirstCall, Contexts, Grows
        <3>4. QED
            BY <1>3, <3>1, <3>3, OthersKeep DEF TypeInv
    <2>3. QED
        BY <2>1, <2>2
<1>5. CASE Answer(r)
    BY <1>3, <1>5, AnswerKeeps
<1>6. CASE Enter(r, f, NoKey, Nobody)
    BY <1>4, <1>6
<1>7. ASSUME k \in Keys, NEW u \in versions[k], Enter(r, f, k, u)
      PROVE  TypeInv'
    <2>1. u \in Users
        BY <1>7 DEF TypeInv, TablesOK, Store!TableTypeOK
    <2>2. k # NoKey
        BY <1>7, AuthAssumption
    <2>3. QED
        BY <1>4, <1>7, <2>1, <2>2
<1>8. QED
    BY <1>5, <1>6, <1>7, ReceiveEnters

\* A password accepted is, or was, that of the user the request is about.
LEMMA AcceptedIsVerified ==
    ASSUME TypeInv, NEW r \in Requests, At(r, "credentials"),
           Form(r).given \in Visible(Name(r))
    PROVE  /\ Form(r) \in Changes => request[r].user # Nobody
           /\ Form(r) \notin Changes =>
                 /\ Form(r) \in Logins
                 /\ <<Form(r).name, Form(r).given>> \in offered
           /\ Name(r) \in Users
           /\ Form(r).given \in everStored[Name(r)]
<1>1. /\ Form(r) \in Forms
      /\ request[r].user # Nobody => request[r].user \in Users
      /\ \/ Form(r) \in Logins /\ <<Form(r).name, Form(r).given>> \in offered
         \/ Form(r) \in Changes /\ request[r].user # Nobody
    BY DEF TypeInv, RequestOK, Contexts, Form
<1>2. Form(r).given \in Passwords
    BY <1>1 DEF Logins, Changes
<1>3. Name(r) \in Users
    BY <1>1, FormsByRoute DEF Name, Logins
<1>4. Form(r).given \in everStored[Name(r)]
    BY <1>2, <1>3, AuthAssumption DEF Visible, TypeInv, TablesOK
<1>5. Form(r) \in Logins => Form(r) \notin Changes
    BY <1>1, FormsByRoute
<1>6. QED
    BY <1>1, <1>3, <1>4, <1>5

LEMMA CredentialsTypeInv ==
    ASSUME TypeInv, NEW r \in Requests, validate_credentials(r)
    PROVE  TypeInv'
<1>1. TablesOK' /\ Grows
    BY UnchangedTables DEF validate_credentials, TypeInv
<1>2. CASE Answer(r)
    BY <1>1, <1>2, AnswerKeeps
<1>3. CASE Form(r).given \in Visible(Name(r)) /\ Accept(r)
    <2>1. Form(r) \in Forms
        BY DEF TypeInv, RequestOK, Contexts, Form
    <2>2. CASE Form(r) \in Changes
        <3>1. /\ request[r].user # Nobody
              /\ Form(r).given \in everStored[request[r].user]
              /\ GoTo(r, "put")
            BY <1>3, <2>1, <2>2, AcceptedIsVerified, FormsByRoute
            DEF validate_credentials, Accept, Name
        <3>2. QED
            BY <1>1, <2>2, <3>1, GoToKeeps
    <2>3. CASE Form(r) \notin Changes
        <3>1. /\ Form(r) \in Logins
              /\ <<Form(r).name, Form(r).given>> \in offered
              /\ Form(r).given \in everStored[Form(r).name]
            BY <1>3, <2>1, <2>3, AcceptedIsVerified, FormsByRoute
            DEF validate_credentials, Name
        <3>2. PICK where \in {"renew", "save"} :
                 GoTo(r, where) /\ (where = "renew" => request[r].key # NoKey)
            BY <1>3, <2>1, <2>3, FormsByRoute DEF Accept
        <3>3. QED
            BY <1>1, <3>1, <3>2, GoToKeeps
    <2>4. QED
        BY <2>2, <2>3
<1>4. QED
    BY <1>2, <1>3 DEF validate_credentials

LEMMA PutTypeInv ==
    ASSUME TypeInv, NEW r \in Requests, NEW u \in Users, NEW p \in Passwords,
           PutPassword(r, u, p)
    PROVE  TypeInv'
<1>1. TablesOK' /\ Grows
    <2>1. CASE UNCHANGED userTable
        BY <2>1, UnchangedTables DEF PutPassword, TypeInv
    <2>2. CASE Put(u, p)
        BY <2>2 DEF PutPassword, Put, TypeInv, TablesOK, Grows, store,
            Store!TableTypeOK, Store!Fresh
    <2>3. QED
        BY <2>1, <2>2 DEF PutPassword
<1>2. QED
    BY <1>1, AnswerKeeps DEF PutPassword

\* What the middleware does on the way out keeps the tables' types.
LEMMA StoreTypes ==
    ASSUME TablesOK, NEW k \in Keys, NEW u \in Users,
           Ends(k) \/ Opens(k, u) \/ UNCHANGED store,
           UNCHANGED <<userTable, offered>>,
           retired' \subseteq issued'
    PROVE  TablesOK' /\ Grows
<1> USE DEF TablesOK, Grows, userTable
<1>1. CASE UNCHANGED store
    BY <1>1 DEF store, Store!TableTypeOK, Store!Fresh
<1>2. CASE Ends(k)
    BY <1>2 DEF Ends, Store!TableTypeOK, Store!Fresh
<1>3. CASE Opens(k, u)
    BY <1>3 DEF Opens, Fresh, Store!TableTypeOK, Store!Fresh
<1>4. QED
    BY <1>1, <1>2, <1>3

\* A request that purges or renews does so under a key that was issued.
LEMMA KeyIssued ==
    ASSUME TypeInv, NEW r \in Requests
    PROVE  /\ At(r, "purge") \/ At(r, "renew") => request[r].key \in issued
           /\ request[r].key \in issued \cup {NoKey}
           /\ issued \subseteq Keys
BY DEF TypeInv, RequestOK, Contexts, TablesOK, Store!TableTypeOK

LEMMA StepTypeInv == TypeInv /\ [Next]_vars => TypeInv'
<1> SUFFICES ASSUME TypeInv, [Next]_vars
             PROVE  TypeInv'
    OBVIOUS
<1>1. ASSUME NEW r \in Requests, change_password(r)
      PROVE  TypeInv'
    <2>1. request[r].user \in Users /\ Form(r).new \in Passwords
        BY <1>1 DEF change_password, TypeInv, RequestOK, Changes, Contexts
    <2>2. QED
        BY <1>1, <2>1, PutTypeInv DEF change_password
<1>2. ASSUME NEW r \in Requests, migrate_db(r)
      PROVE  TypeInv'
    BY <1>2, PutTypeInv, AuthAssumption DEF migrate_db, seed
<1>3. ASSUME NEW r \in Requests, renew(r)
      PROVE  TypeInv'
    <2>1. request[r].key \in Keys /\ request[r].key # NoKey
        BY <1>3, KeyIssued, AuthAssumption DEF renew
    <2>2. Ends(request[r].key) \/ UNCHANGED store
        BY <1>3, DeleteEnds DEF renew
    <2>3. TablesOK' /\ Grows
        BY <1>3, <2>1, <2>2, StoreTypes, AuthAssumption
        DEF renew, TypeInv, TablesOK, Ends, store
    <2>4. CASE Answer(r)
        BY <2>3, <2>4, AnswerKeeps
    <2>5. CASE GoTo(r, "save")
        BY <1>3, <2>3, <2>5, GoToKeeps DEF renew, TypeInv, RequestOK
    <2>6. QED
        BY <1>3, <2>4, <2>5 DEF renew
<1>4. ASSUME NEW r \in Requests, save(r)
      PROVE  TypeInv'
    <2>1. Form(r).name \in Users
        BY <1>4 DEF save, TypeInv, RequestOK, Logins
    <2>2. PICK k \in Keys : Opens(k, Form(r).name) \/ UNCHANGED store
        BY <1>4, SaveOpens DEF save
    <2>3. issued \subseteq issued'
        BY <2>2 DEF Opens, store
    <2>4. retired' \subseteq issued'
        BY <1>4, <2>3, KeyIssued DEF save, Retire, TypeInv, TablesOK
    <2>5. TablesOK' /\ Grows
        BY <1>4, <2>1, <2>2, <2>4, StoreTypes DEF save, TypeInv
    <2>6. QED
        BY <1>4, <2>5, AnswerKeeps DEF save
<1>5. ASSUME NEW r \in Requests, log_out(r)
      PROVE  TypeInv'
    <2>1. request[r].key \in issued /\ request[r].key \in Keys
        BY <1>5, KeyIssued DEF log_out
    <2>2. Ends(request[r].key) \/ UNCHANGED store
        BY <1>5, DeleteEnds DEF log_out
    <2>3. retired' \subseteq issued'
        BY <1>5, <2>1, <2>2 DEF log_out, Retire, TypeInv, TablesOK, Ends, store
    <2>4. TablesOK' /\ Grows
        BY <1>5, <2>1, <2>2, <2>3, StoreTypes, AuthAssumption DEF log_out, TypeInv
    <2>5. QED
        BY <1>5, <2>4, AnswerKeeps DEF log_out
<1>6. ASSUME NEW r \in Requests, Crash(r)
      PROVE  TypeInv'
    BY <1>6, UnchangedTables, AnswerKeeps DEF Crash, TypeInv
<1>7. CASE UNCHANGED vars
    <2>1. TablesOK' /\ Grows
        BY <1>7, UnchangedTables DEF vars, TypeInv
    <2>2. QED
        BY <1>7, <2>1, OthersKeep DEF vars, TypeInv
<1>8. QED
    BY <1>1, <1>2, <1>3, <1>4, <1>5, <1>6, <1>7, ReceiveTypeInv, CredentialsTypeInv
    DEF Next, Step

-----------------------------------------------------------------------------
(* What a step does to the sessions and to the request that takes it.      *)

\* The sessions stay as they are, or the one of the request's key ends, or one
\* is opened for a user that logged in.
StoreMoves(r) ==
    \/ UNCHANGED store /\ UNCHANGED retired
    \/ /\ request[r].key \in issued /\ Ends(request[r].key)
       /\ retired' \subseteq retired \cup {request[r].key}
    \/ /\ At(r, "save") /\ \E k \in Keys : Opens(k, Form(r).name)
       /\ retired' \subseteq retired \cup ({request[r].key} \ {NoKey})

\* The request ends; or enters with what its session was; or goes on, to a
\* save only if its old session is gone.
RequestMoves(r) ==
    /\ \A q \in Requests \ {r} : request'[q] = request[q]
    /\ \/ request'[r] = Idle
       \/ /\ request'[r].pc # "save"
          /\ request'[r].user # Nobody =>
                \E k \in Keys : request'[r].user \in versions[k]
       \/ /\ request'[r].user = request[r].user
          /\ request'[r].key = request[r].key
          /\ request'[r].pc = "save" =>
                \/ request[r].key = NoKey
                \/ request[r].key \in issued /\ Ends(request[r].key)

LEMMA StepMoves ==
    ASSUME TypeInv, NEW r \in Requests,
           \/ \E f \in Forms, k \in issued \cup {NoKey} : receive(r, f, k)
           \/ Step(r)
           \/ Crash(r)
    PROVE  StoreMoves(r) /\ RequestMoves(r)
<1>1. Answer(r) => RequestMoves(r)
    BY DEF Answer, RequestMoves, TypeInv
<1>2. CASE \E f \in Forms, k \in issued \cup {NoKey} : receive(r, f, k)
    <2>1. PICK f \in Forms, k \in issued \cup {NoKey} : receive(r, f, k)
        BY <1>2
    <2>2. /\ UNCHANGED <<store, retired>>
          /\ \/ Answer(r)
             \/ Enter(r, f, NoKey, Nobody)
             \/ k \in Keys /\ \E u \in versions[k] : Enter(r, f, k, u)
        BY <2>1, ReceiveEnters
    <2>3. ASSUME NEW j, NEW u, Enter(r, f, j, u),
                 u # Nobody => \E i \in Keys : u \in versions[i]
          PROVE  RequestMoves(r)
        BY <1>1, <2>3 DEF Enter, FirstCall, RequestMoves, TypeInv
    <2>4. QED
        BY <1>1, <2>2, <2>3 DEF StoreMoves
<1>3. CASE validate_credentials(r)
    <2>1. Accept(r) => RequestMoves(r)
        BY GoToMoves DEF Accept, RequestMoves
    <2>2. QED
        BY <1>1, <1>3, <2>1 DEF validate_credentials, StoreMoves
<1>4. CASE change_password(r) \/ migrate_db(r) \/ Crash(r)
    BY <1>1, <1>4
    DEF change_password, migrate_db, seed, PutPassword, Crash, StoreMoves
<1>5. CASE renew(r)
    <2>1. request[r].key \in issued
        BY <1>5, KeyIssued DEF renew
    <2>2. StoreMoves(r)
        BY <1>5, <2>1, DeleteEnds DEF renew, StoreMoves
    <2>3. GoTo(r, "save") /\ Ends(request[r].key) => RequestMoves(r)
        BY <2>1, GoToMoves DEF RequestMoves
    <2>4. QED
        BY <1>1, <1>5, <2>2, <2>3, DeleteEnds DEF renew
<1>6. CASE save(r)
    BY <1>1, <1>6, SaveOpens DEF save, Retire, StoreMoves
<1>7. CASE log_out(r)
    <2>1. request[r].key \in issued
        BY <1>7, KeyIssued DEF log_out
    <2>2. QED
        BY <1>1, <1>7, <2>1, DeleteEnds DEF log_out, Retire, StoreMoves
<1>8. QED
    BY <1>2, <1>3, <1>4, <1>5, <1>6, <1>7 DEF Step

\* Whatever happens, what was offered, stored or issued once stays so.
LEMMA StepGrows ==
    ASSUME TypeInv, [Next]_vars
    PROVE  Grows
<1> USE DEF Grows
<1>1. CASE UNCHANGED vars
    BY <1>1 DEF vars, store, userTable
<1>2. ASSUME NEW r \in Requests, NEW f \in Forms, NEW k \in issued \cup {NoKey},
             receive(r, f, k)
      PROVE  Grows
    BY <1>2, ReceiveEnters DEF receive, store, userTable
<1>3. ASSUME NEW r \in Requests, StoreMoves(r)
      PROVE  issued \subseteq issued'
    BY <1>3 DEF StoreMoves, store, Ends, Opens
<1>4. ASSUME NEW r \in Requests, Step(r) \/ Crash(r)
      PROVE  UNCHANGED offered /\ \A u \in Users : everStored[u] \subseteq everStored'[u]
    BY <1>4 DEF Step, Crash, validate_credentials, change_password, migrate_db, seed,
       PutPassword, Put, renew, save, log_out, userTable, TypeInv, TablesOK
<1>5. QED
    BY <1>1, <1>2, <1>3, <1>4, StepMoves DEF Next

-----------------------------------------------------------------------------
(* Who acts as whom.                                                       *)

LEMMA EarnedGrows ==
    ASSUME Grows, NEW u \in Users, Earned(u)
    PROVE  Earned(u)'
BY DEF Earned, Grows

LEMMA StepEarned == TypeInv /\ EarnedInv /\ [Next]_vars => EarnedInv'
<1> SUFFICES ASSUME TypeInv, EarnedInv, [Next]_vars
             PROVE  EarnedInv'
    OBVIOUS
<1>1. Grows /\ TypeInv'
    BY StepGrows, StepTypeInv
<1>2. /\ \A k \in Keys : versions[k] \subseteq Users
      /\ \A q \in Requests : request[q].user \in Users \cup {Nobody}
      /\ \A k \in Keys : sessions'[k] \in versions'[k] \cup {Nobody}
    BY <1>1 DEF TypeInv, TablesOK, RequestOK, Contexts, Store!TableTypeOK
<1>3. ASSUME NEW r \in Requests, StoreMoves(r), NEW k \in Keys, NEW u \in versions'[k]
      PROVE  Earned(u)'
    <2>1. CASE u \in versions[k]
        BY <1>1, <1>2, <2>1, EarnedGrows DEF EarnedInv, HistoryEarned
    <2>2. CASE u \notin versions[k]
        <3>1. At(r, "save") /\ u = Form(r).name
            BY <1>3, <2>2 DEF StoreMoves, Opens, Ends, store, TypeInv, TablesOK,
               Store!TableTypeOK
        <3>2. u \in Users /\ Earned(u)
            BY <3>1 DEF TypeInv, RequestOK, Logins, Earned
        <3>3. QED
            BY <1>1, <3>2, EarnedGrows
    <2>3. QED
        BY <2>1, <2>2
<1>4. ASSUME NEW r \in Requests, RequestMoves(r), NEW q \in Requests,
             request'[q].user # Nobody
      PROVE  Earned(request[q].user)'
    <2>1. CASE request'[q].user = request[q].user
        BY <1>1, <1>2, <1>4, <2>1, EarnedGrows DEF EarnedInv, SessionsAreEarned
    <2>2. CASE \E k \in Keys : request'[q].user \in versions[k]
        BY <1>1, <1>2, <2>2, EarnedGrows DEF EarnedInv, HistoryEarned
    <2>3. QED
        BY <1>4, <2>1, <2>2 DEF RequestMoves, Idle
<1>5. CASE UNCHANGED vars
    BY <1>5 DEF vars, store, userTable, EarnedInv, HistoryEarned, SessionsAreEarned,
       Earned
<1>6. ASSUME NEW r \in Requests, StoreMoves(r), RequestMoves(r)
      PROVE  EarnedInv'
    BY <1>2, <1>3, <1>4, <1>6 DEF EarnedInv, HistoryEarned, SessionsAreEarned
<1>7. QED
    BY <1>5, <1>6, StepMoves DEF Next

-----------------------------------------------------------------------------
(* What is gone stays gone.                                                *)

\* A save opens a key that was never issued: no session that ended comes back.
LEMMA EndedStays ==
    ASSUME TypeInv, NEW r \in Requests, StoreMoves(r), NEW k \in issued,
           sessions[k] = Nobody
    PROVE  sessions'[k] = Nobody
BY DEF StoreMoves, Opens, Ends, Fresh, store, TypeInv, TablesOK, Store!TableTypeOK,
   Store!Fresh

LEMMA StepGone == TypeInv /\ GoneInv /\ [Next]_vars => GoneInv'
<1> SUFFICES ASSUME TypeInv, GoneInv, [Next]_vars
             PROVE  GoneInv'
    OBVIOUS
<1>1. CASE UNCHANGED vars
    BY <1>1 DEF vars, store, GoneInv, OldIsGone, RetiredIsGone, At
<1>2. ASSUME NEW r \in Requests, StoreMoves(r), RequestMoves(r)
      PROVE  GoneInv'
    <2>1. ASSUME NEW k \in issued, Ends(k)
          PROVE  sessions'[k] = Nobody
        BY <2>1 DEF Ends, TypeInv, TablesOK, Store!TableTypeOK
    <2>2. ASSUME NEW q \in Requests, request'[q] = request[q],
                 At(q, "save"), request[q].key # NoKey
          PROVE  sessions'[request'[q].key] = Nobody
        BY <1>2, <2>2, EndedStays, KeyIssued DEF GoneInv, OldIsGone
    <2>3. ASSUME request'[r].pc = "save", request'[r].key # NoKey,
                 request'[r] # request[r]
          PROVE  sessions'[request'[r].key] = Nobody
        BY <1>2, <2>1, <2>3 DEF RequestMoves, Idle
    <2>4. OldIsGone'
        BY <1>2, <2>2, <2>3 DEF OldIsGone, At, RequestMoves
    <2>5. ASSUME NEW k \in retired'
          PROVE  sessions'[k] = Nobody
        <3>1. CASE k \in retired
            <4>1. k \in issued /\ sessions[k] = Nobody
                BY <3>1 DEF GoneInv, RetiredIsGone, TypeInv, TablesOK
            <4>2. QED
                BY <1>2, <4>1, EndedStays
        <3>2. CASE k \notin retired
            <4>1. /\ k = request[r].key
                  /\ \/ k \in issued /\ Ends(k)
                     \/ At(r, "save") /\ k # NoKey
                BY <1>2, <2>5, <3>2 DEF StoreMoves
            <4>2. CASE k \in issued /\ Ends(k)
                BY <2>1, <4>2
            <4>3. CASE At(r, "save") /\ k # NoKey
                <5>1. k \in issued /\ sessions[k] = Nobody
                    BY <4>1, <4>3, KeyIssued DEF GoneInv, OldIsGone
                <5>2. QED
                    BY <1>2, <5>1, EndedStays
            <4>4. QED
                BY <4>1, <4>2, <4>3
        <3>3. QED
            BY <3>1, <3>2
    <2>6. QED
        BY <2>4, <2>5 DEF GoneInv, RetiredIsGone
<1>3. QED
    BY <1>1, <1>2, StepMoves DEF Next

-----------------------------------------------------------------------------
(* Theorems.                                                               *)

LEMMA Invariance == Spec => []IInv
<1>1. IInv /\ [Next]_vars => IInv'
    BY StepTypeInv, StepEarned, StepGone DEF IInv
<1>2. QED
    BY InitInv, <1>1, PTL DEF Spec

\* Every reachable state is well-typed, in particular: a request that changes
\* a password or logs out is past reject_anonymous_users and has a user.
THEOREM TypeCorrect == Spec => []TypeOK
<1>1. IInv => TypeOK
    BY Types DEF IInv
<1>2. QED
    BY Invariance, <1>1, PTL

\* Nobody acts as a user, and no session is a user's, unless someone logged in
\* with a password that user has or had: login and change_password.
THEOREM NobodyUnearned == Spec => []SessionsAreEarned
<1>1. IInv => SessionsAreEarned
    BY DEF IInv, EarnedInv
<1>2. QED
    BY Invariance, <1>1, PTL

\* A session that log_out or a renewing login ended is in the table no more,
\* whatever requests still hold its key.
THEOREM LogoutLasts == Spec => []RetiredIsGone
<1>1. IInv => RetiredIsGone
    BY DEF IInv, GoneInv
<1>2. QED
    BY Invariance, <1>1, PTL

\* A session never passes from one user to another: a login renews.
THEOREM SessionsStayWithUsers == Spec => SessionKeepsItsUser
<1>1. ASSUME TypeInv, [Next]_vars, NEW k \in Keys,
             {sessions[k], sessions'[k]} \subseteq Users
      PROVE  sessions'[k] = sessions[k]
    <2>1. CASE UNCHANGED vars
        BY <2>1 DEF vars, store
    <2>2. ASSUME NEW r \in Requests, StoreMoves(r)
          PROVE  sessions'[k] = sessions[k]
        BY <1>1, <2>2, AuthAssumption
        DEF StoreMoves, Opens, Ends, Fresh, store, TypeInv, TablesOK, Store!TableTypeOK
    <2>3. QED
        BY <1>1, <2>1, <2>2, StepMoves DEF Next
<1>2. IInv /\ [Next]_vars =>
        [\A k \in Keys : {sessions[k], sessions'[k]} \subseteq Users =>
             sessions'[k] = sessions[k]]_vars
    BY <1>1 DEF IInv
<1>3. QED
    BY Invariance, <1>2, PTL DEF Spec, SessionKeepsItsUser

\* A password changes by migrate_db, to the seeded one, or by a change_password
\* of the user that knew a password of theirs and asked for this one.
THEOREM PasswordsAreTheirUsers == Spec => PasswordsChangeHands
<1> DEFINE Allowed(u) ==
        \/ u = Admin /\ password'[u] = SeedPassword
        \/ \E r \in Requests :
              /\ At(r, "put") /\ request[r].user = u
              /\ Form(r).given \in everStored[u]
              /\ Form(r).new = password'[u]
<1>1. ASSUME NEW r \in Requests, NEW u \in Users, NEW v, NEW p, TypeInv,
             PutPassword(r, v, p), password'[u] # password[u]
      PROVE  u = v /\ password'[u] = p
    BY <1>1 DEF PutPassword, Put, userTable, TypeInv, TablesOK
<1>2. ASSUME TypeInv, [Next]_vars, NEW u \in Users, password'[u] # password[u]
      PROVE  Allowed(u)
    <2>1. ASSUME NEW r \in Requests, change_password(r)
          PROVE  Allowed(u)
        <3>1. /\ u = request[r].user /\ password'[u] = Form(r).new
              /\ At(r, "put")
            BY <1>1, <1>2, <2>1 DEF change_password
        <3>2. QED
            BY <1>2, <3>1 DEF TypeInv, RequestOK
    <2>2. ASSUME NEW r \in Requests, migrate_db(r)
          PROVE  Allowed(u)
        BY <1>1, <1>2, <2>2 DEF migrate_db, seed
    <2>3. ASSUME NEW r \in Requests,
                 \/ \E f \in Forms, k \in issued \cup {NoKey} : receive(r, f, k)
                 \/ validate_credentials(r) \/ renew(r) \/ save(r) \/ log_out(r)
                 \/ Crash(r)
          PROVE  UNCHANGED userTable
        BY <2>3 DEF receive, validate_credentials, renew, save, log_out, Crash
    <2>4. CASE UNCHANGED userTable \/ UNCHANGED vars
        BY <1>2, <2>4 DEF vars, userTable
    <2>5. QED
        BY <1>2, <2>1, <2>2, <2>3, <2>4 DEF Next, Step
<1>3. IInv /\ [Next]_vars =>
        [\A u \in Users : password'[u] # password[u] => Allowed(u)]_vars
    BY <1>2 DEF IInv
<1>4. QED
    BY Invariance, <1>3, PTL DEF Spec, PasswordsChangeHands
=============================================================================
