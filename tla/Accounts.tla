------------------------------ MODULE Accounts ------------------------------
(***************************************************************************)
(* The account endpoints of src/src/auth.rs over the users table: requests *)
(* to register, to log in, to change a password and for one's own profile  *)
(* run side by side, each with several queries, while accounts are         *)
(* deactivated, tokens expire and statements fail or lose their reply.     *)
(* The last two kinds go through RequireAuth.  A hash stands for its       *)
(* password, a token for its claims.                                       *)
(***************************************************************************)
EXTENDS Integers, FiniteSets

CONSTANTS Requests,     \* one call of a handler each; also the id of the
                        \* account that a call of register creates
          Accounts0,    \* accounts that exist at the start
          Emails, Passwords,
          Roles,        \* roles a request asks for
          RequiredRole, \* RequireAuth.required_role
          Configs,      \* which parts a configuration sets up
          MaxFaults     \* bound: statements that fail or lose their reply

ASSUME IdsAssumption == Requests \intersect Accounts0 = {}
ASSUME ConfigsAssumption == Configs \subseteq [database : BOOLEAN, secret : BOOLEAN]
ASSUME FaultsAssumption == MaxFaults \in Nat

VARIABLES users,   \* the table: id -> row
          handles, \* the parts every request is given
          tokens,  \* the tokens that were ever handed out
          expired, \* those that have expired
          pc,      \* where each handler is
          args,    \* what its request asks for
          local,   \* the row it has read
          answer,  \* the status it returned
          held,    \* history: what was true of the token and of the account
                   \* a request names, at each moment since it began
          faults

vars == <<users, handles, tokens, expired, pc, args, local, answer, held, faults>>

issued == <<tokens, expired>>

Ids == Requests \union Accounts0
AllRoles == Roles \union {"user", "admin"}
Row == [email : Emails, password : Passwords, role : AllRoles, active : BOOLEAN]

Found(i, row) == [id |-> i, row |-> row]
NoRow == [id |-> "none"]
NoArgs == [kind |-> "none"]

Row0(e, p) == [email |-> e, password |-> p, role |-> "user", active |-> TRUE]

\* The claims of create_token, without the times: those are in `expired`.
Claims(i, row) == [sub |-> i, email |-> row.email, role |-> row.role]

\* LimeBuilder::build: a database host and a JWT secret that are not empty.
Built(config) == [pool |-> config.database, auth |-> config.secret]

Init ==
    /\ \E e \in [Accounts0 -> Emails], p \in [Accounts0 -> Passwords] :
          /\ \A i, j \in Accounts0 : e[i] = e[j] => i = j
          /\ users = [i \in Accounts0 |-> Row0(e[i], p[i])]
    /\ \E config \in Configs : handles = Built(config)
    /\ tokens = {Claims(i, users[i]) : i \in Accounts0} /\ expired = {}
    /\ pc = [r \in Requests |-> "idle"]
    /\ args = [r \in Requests |-> NoArgs]
    /\ local = [r \in Requests |-> NoRow]
    /\ answer = [r \in Requests |-> 0]
    /\ held = [r \in Requests |-> {}]
    /\ faults = 0

Goto(r, place) == pc' = [pc EXCEPT ![r] = place]

\* A handler's local variables end with it.
Answer(r, status) ==
    /\ Goto(r, "done") /\ answer' = [answer EXCEPT ![r] = status]
    /\ local' = [local EXCEPT ![r] = NoRow]

\* It goes on with what it knows.
Continue(r, place) == Goto(r, place) /\ UNCHANGED <<local, answer>>

At(r, kind, place) == pc[r] = place /\ args[r].kind = kind

Guarded(kind) == kind \in {"me", "change"}

(***************************************************************************)
(* The queries of User                                                     *)
(***************************************************************************)
\* Seeded fault for LoginTells and ChangeTells: deactivated accounts are found.
VisibleAlways(i) == TRUE

\* "AND is_active = true"
Visible(i) == users[i].active

ByEmail(e) == {i \in DOMAIN users : users[i].email = e /\ Visible(i)}

ById(id) == {i \in DOMAIN users : i = id /\ Visible(i)}

\* Seeded fault for RegisteredOnce: the index covers active accounts only.
TakenActive(e) == \E i \in DOMAIN users : users[i].email = e /\ users[i].active

\* email UNIQUE: of all rows, deactivated ones included.
Taken(e) == \E i \in DOMAIN users : users[i].email = e

(***************************************************************************)
(* The handlers.  Requests that fail validation touch nothing and are left *)
(* out.                                                                    *)
(***************************************************************************)
Begin(r, what) ==
    /\ pc[r] = "idle"
    /\ args' = [args EXCEPT ![r] = what]
    /\ Goto(r, IF Guarded(what.kind) THEN "authenticate" ELSE "find")
    /\ UNCHANGED <<users, handles, issued, local, answer, faults>>

StartRegister(r) ==
    \E e \in Emails, p \in Passwords, role \in Roles :
        Begin(r, [kind |-> "register", email |-> e, password |-> p, role |-> role])

StartLogin(r) ==
    \E e \in Emails, p \in Passwords :
        Begin(r, [kind |-> "login", email |-> e, password |-> p])

\* Whoever has a token, expired or not, may send it.  A change to the same
\* password, which changes nothing, is left out.
StartChange(r) ==
    \E t \in tokens, p \in Passwords : \E new \in Passwords \ {p} :
        Begin(r, [kind |-> "change", token |-> t, password |-> p, new |-> new])

StartMe(r) == \E t \in tokens : Begin(r, [kind |-> "me", token |-> t])

\* Seeded fault for MeTells: exp is not validated.
FreshAlways(t) == TRUE

\* verify_token
Fresh(t) == t \notin expired

Permitted(role) == role \in {RequiredRole, "admin"}

\* RequireAuth::authenticate, in front of the handler.
Authenticate(r) ==
    /\ pc[r] = "authenticate"
    /\ IF ~Fresh(args[r].token) THEN Answer(r, 401)
       ELSE IF ~Permitted(args[r].token.role) THEN Answer(r, 403)
       ELSE Continue(r, "find")
    /\ UNCHANGED <<users, handles, issued, args, faults>>

\* "Database not configured"
NoPool(r) ==
    /\ pc[r] = "find" /\ ~handles.pool
    /\ Answer(r, 500)
    /\ UNCHANGED <<users, handles, issued, args, faults>>

\* "Email already registered" comes before "Cannot register as admin".
FindForRegister(r) ==
    /\ At(r, "register", "find") /\ handles.pool
    /\ IF ByEmail(args[r].email) # {} THEN Answer(r, 400)
       ELSE IF args[r].role = "admin" THEN Answer(r, 403)
       ELSE Continue(r, "write")
    /\ UNCHANGED <<users, handles, issued, args, faults>>

\* Seeded fault for TypeOK: two parameters of the INSERT are bound in the wrong order.
NewRowSwapped(r) == [email |-> args[r].password, password |-> args[r].email,
                     role |-> args[r].role, active |-> TRUE]

NewRow(r) == [email |-> args[r].email, password |-> args[r].password,
              role |-> args[r].role, active |-> TRUE]

Inserted(r) == users' = [i \in DOMAIN users \union {r} |-> IF i = r THEN NewRow(r) ELSE users[i]]

\* Seeded fault for ClaimsTrue: the token is made before the row is inserted.
RegisteredTokensEarly(r) == IF handles.auth THEN {Claims(r, NewRow(r))} ELSE {}

RegisteredTokens(r) ==
    IF handles.auth /\ ~Taken(args[r].email) THEN {Claims(r, NewRow(r))} ELSE {}

\* The token is created after the row: without an AuthContext the row stays.
Insert(r) ==
    /\ At(r, "register", "write")
    /\ IF Taken(args[r].email)
       THEN Answer(r, 500) /\ UNCHANGED users
       ELSE Inserted(r) /\ Answer(r, IF handles.auth THEN 201 ELSE 500)
    /\ tokens' = tokens \union RegisteredTokens(r)
    /\ UNCHANGED <<handles, expired, args, faults>>

Looked(r) ==
    IF args[r].kind = "login" THEN ByEmail(args[r].email) ELSE ById(args[r].token.sub)

\* Login answers 401 to an unknown email, the others 404 to an unknown id.
\* The profile is all that me_handler wants.
FindForCheck(r) ==
    /\ pc[r] = "find" /\ args[r].kind # "register" /\ handles.pool
    /\ \/ /\ Looked(r) = {}
          /\ Answer(r, IF args[r].kind = "login" THEN 401 ELSE 404)
       \/ \E i \in Looked(r) :
             IF args[r].kind = "me" THEN Answer(r, 200)
             ELSE /\ local' = [local EXCEPT ![r] = Found(i, users[i])]
                  /\ Goto(r, "verify") /\ UNCHANGED answer
    /\ UNCHANGED <<users, handles, issued, args, faults>>

\* verify_password works on the row that was read.
Verified(r) == local[r].row.password = args[r].password

LoginTokens(r) ==
    IF Verified(r) /\ args[r].kind = "login" /\ handles.auth
    THEN {Claims(local[r].id, local[r].row)} ELSE {}

Verify(r) ==
    /\ pc[r] = "verify"
    /\ IF ~Verified(r) THEN Answer(r, 401)
       ELSE IF args[r].kind = "change" THEN Continue(r, "write")
       ELSE Answer(r, IF handles.auth THEN 200 ELSE 500)
    /\ tokens' = tokens \union LoginTokens(r)
    /\ UNCHANGED <<users, handles, expired, args, faults>>

\* UPDATE .. WHERE id = $3, whatever the row holds by now.
Updated(r) == users' = [users EXCEPT ![args[r].token.sub].password = args[r].new]

UpdatePassword(r) ==
    /\ At(r, "change", "write")
    /\ Updated(r)
    /\ Answer(r, 200)
    /\ UNCHANGED <<handles, issued, args, faults>>

\* Any query may return Err, and a write may have happened nevertheless.
QueryFails(r) ==
    /\ pc[r] \in {"find", "write"} /\ handles.pool
    /\ faults < MaxFaults /\ faults' = faults + 1
    /\ Answer(r, 500)
    /\ \/ UNCHANGED users
       \/ At(r, "register", "write") /\ ~Taken(args[r].email) /\ Inserted(r)
       \/ At(r, "change", "write") /\ Updated(r)
    /\ UNCHANGED <<handles, issued, args>>

\* User::deactivate, called by the application; nothing activates again.
Deactivate(i) ==
    /\ users[i].active
    /\ users' = [users EXCEPT ![i].active = FALSE]
    /\ UNCHANGED <<handles, issued, pc, args, local, answer, faults>>

\* exp passes, with its leeway.
Expire(t) ==
    /\ t \notin expired
    /\ expired' = expired \union {t}
    /\ UNCHANGED <<users, handles, tokens, pc, args, local, answer, faults>>

-----------------------------------------------------------------------------
\* What a request has to be right about: it names an active account and, but
\* for me, that account's password.
Right(r) ==
    \E i \in DOMAIN users :
        /\ users[i].active
        /\ IF args[r].kind = "login" THEN users[i].email = args[r].email
           ELSE i = args[r].token.sub
        /\ args[r].kind # "me" => users[i].password = args[r].password

Observations == {"fresh", "expired", "right", "wrong"}

Observed(r) ==
    (IF Guarded(args[r].kind) THEN {IF args[r].token \in expired THEN "expired" ELSE "fresh"} ELSE {})
    \union {IF Right(r) THEN "right" ELSE "wrong"}

Checks(r) == args[r].kind = "login" \/ Guarded(args[r].kind)

Observe ==
    held' = [r \in Requests |->
                IF pc[r] = "done" \/ ~Checks(r)' THEN held[r]
                ELSE held[r] \union Observed(r)']

Step ==
    \/ \E r \in Requests :
          \/ StartRegister(r) \/ StartLogin(r) \/ StartChange(r) \/ StartMe(r)
          \/ Authenticate(r) \/ NoPool(r)
          \/ FindForRegister(r) \/ Insert(r)
          \/ FindForCheck(r) \/ Verify(r) \/ UpdatePassword(r)
          \/ QueryFails(r)
    \/ \E i \in DOMAIN users : Deactivate(i)
    \/ \E t \in tokens : Expire(t)

Next == Step /\ Observe

Spec == Init /\ [][Next]_vars

-----------------------------------------------------------------------------
TypeOK ==
    /\ DOMAIN users \subseteq Ids /\ \A i \in DOMAIN users : users[i] \in Row
    /\ handles \in [pool : BOOLEAN, auth : BOOLEAN]
    /\ expired \subseteq tokens
    /\ pc \in [Requests -> {"idle", "authenticate", "find", "verify", "write", "done"}]
    /\ answer \in [Requests -> {0, 200, 201, 400, 401, 403, 404, 500}]
    /\ held \in [Requests -> SUBSET Observations]
    /\ faults \in 0..MaxFaults

Told(r, kind, status) == args[r].kind = kind /\ answer[r] = status

\* However registrations of one email overlap, fail or lose their replies,
\* the email has one account for ever, whose creator alone may be told so.
RegisteredOnce ==
    /\ \A i, j \in DOMAIN users : users[i].email = users[j].email => i = j
    /\ \A r \in Requests : Told(r, "register", 201) =>
          /\ r \in DOMAIN users
          /\ \A q \in Requests \ {r} :
                Told(q, "register", 201) => args[q].email # args[r].email

\* A token is good for a day without another look at the table: whatever
\* happens to accounts and requests, it names an account there is, with the
\* email and the role of that account, and never an administrator who
\* registered here.
ClaimsTrue ==
    \A t \in tokens :
        /\ t.sub \in DOMAIN users
        /\ t.email = users[t.sub].email /\ t.role = users[t.sub].role
        /\ t.sub \in Requests => t.role # "admin"

\* Login gives what a check at a single moment would have given: a token only
\* if at some moment of the request the account was active with that
\* password, "Invalid credentials" only if at some moment it was not.
LoginTells ==
    \A r \in Requests :
        /\ Told(r, "login", 200) => "right" \in held[r]
        /\ Told(r, "login", 401) => "wrong" \in held[r]

\* So does the change of a password, whose check and update are two queries.
ChangeTells ==
    \A r \in Requests :
        /\ Told(r, "change", 200) => {"fresh", "right"} \subseteq held[r]
        /\ Told(r, "change", 401) => {"expired", "wrong"} \intersect held[r] # {}
        /\ Told(r, "change", 404) => "wrong" \in held[r]

\* And the profile: a token outlives its account, but shows a profile only if
\* at some moment of the request the token had not expired, and at some moment
\* the account was active; the refusals were right at some moment as well.
MeTells ==
    \A r \in Requests :
        /\ Told(r, "me", 200) => {"fresh", "right"} \subseteq held[r]
        /\ Told(r, "me", 401) => "expired" \in held[r]
        /\ Told(r, "me", 404) => "wrong" \in held[r]
=============================================================================
