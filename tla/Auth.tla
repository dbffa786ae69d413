-------------------------------- MODULE Auth --------------------------------
(***************************************************************************)
(* Authors and their sessions: login, logout, the change of a password,    *)
(* the migration that seeds the first user, and the guard of every page    *)
(* under /admin, over the session middleware, the session store and the    *)
(* table of users.                                                         *)
(*                                                                         *)
(* A request is interrupted at its calls to DynamoDB: the middleware loads *)
(* the session of its cookie, the guard and the handler run, and the       *)
(* middleware writes what the handler did to the session.  A step is one   *)
(* call and all that follows it up to the next.  A slot in Requests serves *)
(* any number of requests in sequence.                                     *)
(***************************************************************************)
EXTENDS FiniteSets, Naturals

CONSTANTS
    Requests,       \* slots, each serving one request at a time
    Keys,           \* session keys
    Users,          \* names, which are also the users' ids
    Admin,          \* the user the migration seeds
    Passwords,
    SeedPassword,   \* the password it is given
    FirstPassword,  \* the password all others have at first
    Nobody,         \* no user, and no session
    NoKey,          \* no cookie
    NoPassword,     \* no item in the table of users
    StoreFaults,    \* the failures of the session store that may happen
    AuthFaults      \* and those of the table of users and the instance

AuthFaultKinds == {
    "db_error",         \* the call fails and changes nothing
    "stale_read",       \* get_item is not a consistent read
    "crash" }           \* the instance stops, or the client goes away

ASSUME AuthAssumption ==
    /\ Admin \in Users
    /\ {SeedPassword, FirstPassword} \subseteq Passwords
    /\ Nobody \notin Users
    /\ NoKey \notin Keys
    /\ NoPassword \notin Passwords
    /\ AuthFaults \subseteq AuthFaultKinds

VARIABLES
    sessions, versions, issued,     \* the session store
    password,   \* password[u]: the password whose hash u's item has
    everStored, \* everStored[u]: every password u's item ever had
    request,    \* request[r]: the call it is about to make, its route and the
                \* fields posted, the session key the middleware holds for
                \* it, and the session's user
    offered,    \* every name and password a login came with
    retired     \* the keys that authors who logged out or in again had

Store == INSTANCE SessionTable WITH Data <- Users, NoSession <- Nobody

store == <<sessions, versions, issued>>
userTable == <<password, everStored>>
vars == <<store, userTable, request, offered, retired>>

\* Admin pages: admin_dashboard and the forms for an issue and a password.
\* A mismatch is a change of password whose two new passwords differ.
Plain == [route : {"page", "mismatch", "log_out", "migrate"}]
Logins == [route : {"login"}, name : Users, given : Passwords]
Changes == [route : {"change_password"}, given : Passwords, new : Passwords]
Forms == Plain \cup Logins \cup Changes

Idle == [pc |-> "idle", form |-> [route |-> "page"],
         key |-> NoKey, user |-> Nobody]

Init ==
    /\ Store!TableInit
    /\ password = [u \in Users |->
                     IF u = Admin THEN NoPassword ELSE FirstPassword]
    /\ everStored = [u \in Users |-> {password[u]} \ {NoPassword}]
    /\ request = [r \in Requests |-> Idle]
    /\ offered = {}
    /\ retired = {}

-----------------------------------------------------------------------------
(* The middleware on the way in, the guard, and the handlers up to their   *)
(* first call.                                                             *)

At(r, where) == request[r].pc = where
Form(r) == request[r].form

GoTo(r, where) == request' = [request EXCEPT ![r].pc = where]

\* Whatever the answer says, the slot is free again.
Answer(r) == request' = [request EXCEPT ![r] = Idle]

\* Mutant: the scope without its guard.
admit_all(f, u) == FALSE

\* The routes under /admin; login and migration have no guard.
reject_anonymous_users(f, u) ==
    f.route \notin {"login", "migrate"} /\ u = Nobody

\* The call that the route's handler makes first, if it makes any.
FirstCall(f) ==
    IF f.route = "log_out" THEN "purge"
    ELSE IF f.route = "migrate" THEN "seed"
    ELSE "credentials"

\* Form f, with the session of u under key k.
Enter(r, f, k, u) ==
    IF reject_anonymous_users(f, u) \/ f.route \in {"page", "mismatch"}
    THEN Answer(r)
    ELSE request' = [request EXCEPT ![r] =
                        [pc |-> FirstCall(f), form |-> f, key |-> k, user |-> u]]

\* Bound: each login under way finds a key.
KeyLeft ==
    Cardinality({k \in Keys : versions[k] = {}})
        > Cardinality({r \in Requests : Form(r).route = "login"})

\* A request arrives with cookie k, and its session is loaded; a key without
\* a session is dropped.
receive(r, f, k) ==
    /\ At(r, "idle")
    /\ f.route = "login" => KeyLeft
    /\ offered' = offered \cup
                  IF f.route = "login" THEN {<<f.name, f.given>>} ELSE {}
    /\ \/ k = NoKey /\ Enter(r, f, NoKey, Nobody) /\ UNCHANGED store
       \/ /\ k # NoKey
          /\ \E u \in Users \cup {Nobody} :
                \/ /\ Store!load(k, u, "ok")
                   /\ Enter(r, f, IF u = Nobody THEN NoKey ELSE k, u)
                \/ Store!load(k, u, "failed") /\ Answer(r)
    /\ UNCHANGED <<userTable, retired>>

-----------------------------------------------------------------------------
(* The table of users.                                                     *)

\* What a read of u's item may see.
Visible(u) ==
    {password[u]} \cup
        IF "stale_read" \in AuthFaults THEN everStored[u] \cup {NoPassword} ELSE {}

Name(r) == IF Form(r).route = "login" THEN Form(r).name ELSE request[r].user

\* Mutant: the password of any user will do.
Verified(r) == \E u \in Users : Form(r).given \in Visible(u)

Accept(r) ==
    GoTo(r, IF Form(r).route = "change_password" THEN "put"
            ELSE IF request[r].key = NoKey THEN "save" ELSE "renew")

\* Mutant: the credentials of any user accepted.
validate_credentials_of_anyone(r) ==
    /\ At(r, "credentials")
    /\ IF Verified(r) THEN Accept(r) ELSE Answer(r)
    /\ UNCHANGED <<store, userTable, offered, retired>>

\* A user that is not found, a password that differs and a table that cannot
\* be read are one: InvalidCredentials.
validate_credentials(r) ==
    /\ At(r, "credentials")
    /\ \/ Form(r).given \in Visible(Name(r)) /\ Accept(r)
       \/ /\ Visible(Name(r)) # {Form(r).given} \/ "db_error" \in AuthFaults
          /\ Answer(r)
    /\ UNCHANGED <<store, userTable, offered, retired>>

Put(u, p) ==
    /\ password' = [password EXCEPT ![u] = p]
    /\ everStored' = [everStored EXCEPT ![u] = @ \cup {p}]

\* An unconditional put_item, and the answer to its outcome.
PutPassword(r, u, p) ==
    /\ Put(u, p) \/ ("db_error" \in AuthFaults /\ UNCHANGED userTable)
    /\ Answer(r)
    /\ UNCHANGED <<store, offered, retired>>

\* Mutant: the password of the form stored for the administrator.
change_password_of_admin(r) ==
    At(r, "put") /\ PutPassword(r, Admin, Form(r).new)

change_password(r) ==
    At(r, "put") /\ PutPassword(r, request[r].user, Form(r).new)

\* The initial user is put without a condition, however often.
seed(r) == PutPassword(r, Admin, SeedPassword)

migrate_db(r) == At(r, "seed") /\ seed(r)

-----------------------------------------------------------------------------
(* The middleware on the way out: renewed by a login, purged by a logout,  *)
(* unchanged by all others.                                                *)

\* Mutant: no session.renew(): the state of the session in place is changed.
renew_in_place(r) ==
    /\ At(r, "renew")
    /\ \/ Store!update(request[r].key, Form(r).name, "ok") /\ Answer(r)
       \/ Store!update(request[r].key, Form(r).name, "failed") /\ Answer(r)
    /\ UNCHANGED <<userTable, offered, retired>>

\* Mutant: the old session left where it is.
renew_without_delete(r) ==
    /\ At(r, "renew")
    /\ GoTo(r, "save")
    /\ UNCHANGED <<store, userTable, offered, retired>>

\* The session a login comes with is deleted before another is saved.
renew(r) ==
    /\ At(r, "renew")
    /\ \/ Store!delete(request[r].key, "ok") /\ GoTo(r, "save")
       \/ Store!delete(request[r].key, "failed") /\ Answer(r)
    /\ UNCHANGED <<userTable, offered, retired>>

\* The client is told the new key, and that its old one, if any, is void.
Retire(r) == retired' = retired \cup ({request[r].key} \ {NoKey})

save(r) ==
    /\ At(r, "save")
    /\ \E k \in Keys :
          \/ Store!save(k, Form(r).name, "ok") /\ Answer(r) /\ Retire(r)
          \/ /\ Store!save(k, Form(r).name, "failed")
             /\ Answer(r) /\ UNCHANGED retired
    /\ UNCHANGED <<userTable, offered>>

log_out(r) ==
    /\ At(r, "purge")
    /\ \/ Store!delete(request[r].key, "ok") /\ Answer(r) /\ Retire(r)
       \/ /\ Store!delete(request[r].key, "failed")
          /\ Answer(r) /\ UNCHANGED retired
    /\ UNCHANGED <<userTable, offered>>

Crash(r) ==
    /\ "crash" \in AuthFaults
    /\ ~ At(r, "idle")
    /\ Answer(r)
    /\ UNCHANGED <<store, userTable, offered, retired>>

Step(r) ==
    \/ validate_credentials(r)
    \/ change_password(r)
    \/ migrate_db(r)
    \/ renew(r)
    \/ save(r)
    \/ log_out(r)

Next ==
    \E r \in Requests :
        \/ \E f \in Forms, k \in issued \cup {NoKey} : receive(r, f, k)
        \/ Step(r)
        \/ Crash(r)

Spec == Init /\ [][Next]_vars

-----------------------------------------------------------------------------
(* Properties.                                                             *)

Contexts ==
    [pc : {"idle", "credentials", "put", "seed", "renew", "save", "purge"},
     form : Forms, key : issued \cup {NoKey}, user : Users \cup {Nobody}]

\* A stored password is one of those ever stored; a request that is past the
\* guard has a user, and one that purges or renews has a session key.
TypeOK ==
    /\ Store!TableTypeOK
    /\ everStored \in [Users -> SUBSET Passwords]
    /\ DOMAIN password = Users
    /\ \A u \in Users : password[u] \in everStored[u] \cup {NoPassword}
    /\ request \in [Requests -> Contexts]
    /\ \A r \in Requests : At(r, "put") \/ At(r, "purge") => request[r].user # Nobody
    /\ \A r \in Requests :
          At(r, "purge") \/ At(r, "renew") => request[r].key # NoKey
    /\ offered \subseteq Users \X Passwords
    /\ retired \subseteq issued

Earned(u) == \E p \in everStored[u] : <<u, p>> \in offered

\* Nobody acts as a user, and no session is a user's, unless someone logged in
\* with a password that user has or had: however requests interleave, fail,
\* read a stale item or present a cookie of a session that ended or that
\* another login renewed.
SessionsAreEarned ==
    /\ \A k \in Keys : sessions[k] # Nobody => Earned(sessions[k])
    /\ \A r \in Requests : request[r].user # Nobody => Earned(request[r].user)

\* A session whose author was told "You have successfully logged out.", or
\* logged in anew in its place, is in the table no more, whatever the requests
\* do that still hold its key, and whatever of the two calls fails.
RetiredIsGone == \A k \in retired : sessions[k] = Nobody

\* A session never passes from one user to another.
SessionKeepsItsUser ==
    [][\A k \in Keys :
         {sessions[k], sessions'[k]} \subseteq Users => sessions'[k] = sessions[k]]_vars

\* A password changes by the migration, to the seeded one, or by a request of
\* the user that knew a password of theirs and asked for this one.  Of two
\* changes at once both may take place, although the second one's current
\* password is no longer current: "ever" is all the check promises.
PasswordsChangeHands ==
    [][\A u \in Users : password'[u] # password[u] =>
         \/ u = Admin /\ password'[u] = SeedPassword
         \/ \E r \in Requests :
              /\ At(r, "put") /\ request[r].user = u
              /\ Form(r).given \in everStored[u]
              /\ Form(r).new = password'[u]]_vars
=============================================================================
