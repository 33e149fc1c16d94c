--------------------------- MODULE AccountsProofs ---------------------------
(***************************************************************************)
(* Accounts: an email has one account for ever and a token never lies      *)
(* about its account, for any number of requests, accounts, emails,        *)
(* tokens and faults.                                                      *)
(*                                                                         *)
(* RegisteredOnce needs to know whose row is whose: a request inserts at   *)
(* most one row, under its own id, with the email it asked for, and is     *)
(* over when it has.  ClaimsTrue needs the same of everything a token is   *)
(* made from: the row a login has read, and the role a registration has    *)
(* been let through with.  The answers were true because what a request    *)
(* has seen so far, and decides by, is in `held`.                          *)
(***************************************************************************)
EXTENDS Accounts, TLAPS

Codes == {0, 200, 201, 400, 401, 403, 404, 500}
Places == {"idle", "authenticate", "find", "verify", "write", "done"}

Typed ==
    /\ DOMAIN users \subseteq Ids /\ \A i \in DOMAIN users : users[i] \in Row
    /\ handles \in [pool : BOOLEAN, auth : BOOLEAN]
    /\ expired \subseteq tokens
    /\ pc \in [Requests -> Places]
    /\ answer \in [Requests -> Codes]
    /\ DOMAIN args = Requests /\ DOMAIN local = Requests
    /\ faults \in 0..MaxFaults

\* What a request asks for makes sense: emails, passwords and roles, and a
\* token that was handed out.
AsksForRow(what) ==
    what.email \in Emails /\ what.password \in Passwords /\ what.role \in Roles

Asks(what) ==
    /\ what.kind = "register" => AsksForRow(what)
    /\ Guarded(what.kind) => what.token \in tokens
    /\ what.kind = "change" => what.new \in Passwords

Asked == \A r \in Requests : Asks(args[r])

Unique == \A i, j \in DOMAIN users : users[i].email = users[j].email => i = j

\* A request whose id has a row inserted it, and is over.
Own ==
    \A r \in Requests : r \in DOMAIN users =>
        args[r].kind = "register" /\ users[r].email = args[r].email /\ pc[r] = "done"

Unanswered == \A r \in Requests : pc[r] # "done" => answer[r] = 0

Promised == \A r \in Requests : Told(r, "register", 201) => r \in DOMAIN users

\* What x says of account i is so in a table, and nobody registered there as
\* an administrator.
Matches(table, i, x) ==
    /\ i \in DOMAIN table
    /\ x.email = table[i].email /\ x.role = table[i].role
    /\ i \in Requests => x.role # "admin"

TokensMatch == \A t \in tokens : Matches(users, t.sub, t)

RowsMatch == \A r \in Requests : pc[r] = "verify" => Matches(users, local[r].id, local[r].row)

LetThrough == \A r \in Requests : At(r, "register", "write") => args[r].role # "admin"

NoAdmins == \A r \in Requests : r \in DOMAIN users => users[r].role # "admin"

Truthful == TokensMatch /\ RowsMatch /\ LetThrough /\ NoAdmins

Core == Typed /\ Asked /\ Unique /\ Own /\ Unanswered /\ Promised /\ Truthful

Inv == Core /\ held \in [Requests -> SUBSET Observations]

LEMMA InitInv == Init => Inv
  <1> SUFFICES ASSUME Init PROVE Inv
    OBVIOUS
  <1>1. PICK e \in [Accounts0 -> Emails], p \in [Accounts0 -> Passwords] :
          /\ \A i, j \in Accounts0 : e[i] = e[j] => i = j
          /\ users = [i \in Accounts0 |-> Row0(e[i], p[i])]
    BY DEF Init
  <1>2. DOMAIN users = Accounts0
    BY <1>1
  <1>3. \A i \in Accounts0 : users[i] \in Row /\ users[i].email = e[i]
    BY <1>1 DEF Row0, Row, AllRoles
  <1>4. Typed
    <2>1. handles \in [pool : BOOLEAN, auth : BOOLEAN]
      BY ConfigsAssumption DEF Init, Built
    <2> QED  BY <1>2, <1>3, <2>1, FaultsAssumption DEF Init, Typed, Ids, Codes, Places
  <1>5. Asked
    BY DEF Init, Asked, Asks, NoArgs, Guarded
  <1>6. Unique
    BY <1>1, <1>2, <1>3 DEF Unique
  <1>7. Own
    BY <1>2, IdsAssumption DEF Own
  <1>8. Unanswered /\ Promised
    BY DEF Init, Unanswered, Promised, Told
  <1>9. Truthful
    <2>1. TokensMatch
      BY <1>2, IdsAssumption DEF Init, TokensMatch, Matches, Claims
    <2>2. RowsMatch /\ LetThrough
      BY DEF Init, RowsMatch, LetThrough, At
    <2>3. NoAdmins
      BY <1>2, IdsAssumption DEF NoAdmins
    <2> QED  BY <2>1, <2>2, <2>3 DEF Truthful
  <1>10. held \in [Requests -> SUBSET Observations]
    BY DEF Init
  <1> QED  BY <1>4, <1>5, <1>6, <1>7, <1>8, <1>9, <1>10 DEF Inv, Core

-----------------------------------------------------------------------------
\* The accounts keep their emails and roles, and the tokens that are added
\* match.
Kept ==
    /\ DOMAIN users \subseteq DOMAIN users'
    /\ \A i \in DOMAIN users : users'[i].email = users[i].email /\ users'[i].role = users[i].role
    /\ tokens \subseteq tokens'
    /\ \A t \in tokens' \ tokens : Matches(users', t.sub, t)

LEMMA KeptMatches ==
  ASSUME Kept, NEW i, NEW x, Matches(users, i, x)
  PROVE  Matches(users', i, x)
  BY DEF Kept, Matches

LEMMA KeptTokens == ASSUME Kept, TokensMatch PROVE TokensMatch'
  <1> SUFFICES ASSUME NEW t \in tokens' PROVE Matches(users', t.sub, t)
    BY DEF TokensMatch
  <1>1. CASE t \in tokens
    BY <1>1, KeptMatches DEF TokensMatch
  <1>2. CASE t \notin tokens
    BY <1>2 DEF Kept
  <1> QED  BY <1>1, <1>2

\* One lemma per way a step can change the table and the requests.

\* A request begins: the table stays.
LEMMA BeginCore ==
  ASSUME Core, NEW r \in Requests, NEW what, Begin(r, what), Asks(what)
  PROVE  Core'
  <1>1. /\ pc[r] = "idle" /\ users' = users /\ handles' = handles
        /\ tokens' = tokens /\ expired' = expired /\ local' = local
        /\ answer' = answer /\ faults' = faults
        /\ args' = [args EXCEPT ![r] = what]
    BY DEF Begin, issued
  <1>2. PICK place \in {"authenticate", "find"} : pc' = [pc EXCEPT ![r] = place]
    BY DEF Begin, Goto
  <1>3. r \notin DOMAIN users /\ answer[r] = 0
    BY <1>1 DEF Core, Own, Unanswered
  <1>4. Typed'
    BY <1>1, <1>2 DEF Core, Typed, Places
  <1>5. Asked'
    BY <1>1 DEF Core, Typed, Asked, Asks, AsksForRow
  <1>6. Unique'
    BY <1>1 DEF Core, Unique
  <1>7. Own' /\ Unanswered' /\ Promised'
    BY <1>1, <1>2, <1>3 DEF Core, Typed, Own, Unanswered, Promised, Told
  <1>8. Truthful'
    <2>1. TokensMatch' /\ NoAdmins'
      BY <1>1 DEF Core, Truthful, TokensMatch, NoAdmins
    <2>2. RowsMatch' /\ LetThrough'
      BY <1>1, <1>2 DEF Core, Typed, Truthful, RowsMatch, LetThrough, At
    <2> QED  BY <2>1, <2>2 DEF Truthful
  <1> QED  BY <1>4, <1>5, <1>6, <1>7, <1>8 DEF Core

\* What a request may go on with.
GoesOn(r, place) ==
    /\ Goto(r, place) /\ UNCHANGED answer
    /\ \A q \in Requests \ {r} : local'[q] = local[q]
    /\ DOMAIN local' = Requests
    /\ place = "verify" => Matches(users, local'[r].id, local'[r].row)
    /\ place = "write" /\ args[r].kind = "register" => args[r].role # "admin"

\* A request goes on or answers anything but 201: the table stays.
LEMMA ReadCore ==
  ASSUME Core, NEW r \in Requests, pc[r] \notin {"idle", "done"},
         UNCHANGED <<users, handles, expired, args>>, Kept, faults' \in 0..MaxFaults,
         \/ \E status \in Codes \ {201} : Answer(r, status)
         \/ \E place \in {"find", "verify", "write"} : GoesOn(r, place)
  PROVE  Core'
  <1>1. r \notin DOMAIN users /\ answer[r] = 0
    BY DEF Core, Own, Unanswered
  <1>2. /\ pc' \in [Requests -> Places] /\ answer' \in [Requests -> Codes]
        /\ DOMAIN local' = Requests
        /\ \A q \in Requests \ {r} : pc'[q] = pc[q] /\ answer'[q] = answer[q] /\ local'[q] = local[q]
        /\ answer'[r] # 201
        /\ pc'[r] # "done" => answer'[r] = 0
    BY <1>1 DEF Core, Typed, Answer, GoesOn, Goto, Places, Codes
  <1>3. /\ pc'[r] = "verify" => Matches(users, local'[r].id, local'[r].row)
        /\ pc'[r] = "write" /\ args[r].kind = "register" => args[r].role # "admin"
    BY DEF Core, Typed, Answer, GoesOn, Goto
  <1>4. Typed'
    BY <1>2 DEF Core, Typed, Kept
  <1>5. Asked' /\ Unique'
    BY DEF Core, Asked, Asks, AsksForRow, Unique, Kept
  <1>6. Own' /\ Unanswered' /\ Promised'
    BY <1>1, <1>2 DEF Core, Own, Unanswered, Promised, Told
  <1>7. Truthful'
    <2>1. TokensMatch' /\ NoAdmins'
      BY KeptTokens DEF Core, Truthful, NoAdmins
    <2>2. RowsMatch'
      BY <1>2, <1>3 DEF Core, Truthful, RowsMatch
    <2>3. LetThrough'
      BY <1>2, <1>3 DEF Core, Truthful, LetThrough, At
    <2> QED  BY <2>1, <2>2, <2>3 DEF Truthful
  <1> QED  BY <1>4, <1>5, <1>6, <1>7 DEF Core

\* A row is inserted that the UNIQUE column lets in, and the request answers.
LEMMA InsertedCore ==
  ASSUME Core, NEW r \in Requests, At(r, "register", "write"), ~Taken(args[r].email),
         Inserted(r), NEW status \in {201, 500}, Answer(r, status),
         tokens' = tokens \/ tokens' = tokens \union {Claims(r, NewRow(r))},
         UNCHANGED <<handles, expired, args>>, faults' \in 0..MaxFaults
  PROVE  Core'
  <1>1. /\ r \notin DOMAIN users /\ AsksForRow(args[r]) /\ args[r].role # "admin"
        /\ args[r].kind = "register" /\ pc[r] = "write"
    BY DEF At, Core, Own, Asked, Asks, Truthful, LetThrough
  <1>2. /\ NewRow(r) \in Row
        /\ NewRow(r).email = args[r].email /\ NewRow(r).role # "admin"
    BY <1>1 DEF NewRow, Row, AsksForRow, AllRoles
  <1>3. /\ DOMAIN users' = DOMAIN users \union {r}
        /\ users'[r] = NewRow(r)
        /\ \A i \in DOMAIN users : users'[i] = users[i]
    BY <1>1 DEF Inserted
  <1>4. /\ pc' = [pc EXCEPT ![r] = "done"] /\ answer' = [answer EXCEPT ![r] = status]
        /\ local' = [local EXCEPT ![r] = NoRow]
    BY DEF Answer, Goto
  <1>5. Kept
    <2>1. Matches(users', r, NewRow(r))
      BY <1>2, <1>3 DEF Matches
    <2>2. LET t == Claims(r, NewRow(r)) IN Matches(users', t.sub, t)
      BY <2>1 DEF Matches, Claims
    <2> QED  BY <1>3, <2>2 DEF Kept
  <1>6. Typed'
    BY <1>2, <1>3, <1>4 DEF Core, Typed, Ids, Places, Codes
  <1>7. Asked'
    BY <1>5 DEF Core, Asked, Asks, AsksForRow, Kept
  <1>8. Unique'
    <2>1. \A i \in DOMAIN users : users'[i].email # users'[r].email
      BY <1>2, <1>3 DEF Taken
    <2> QED  BY <1>3, <2>1 DEF Core, Unique
  <1>9. Own'
    BY <1>1, <1>2, <1>3, <1>4 DEF Core, Typed, Own
  <1>10. Unanswered' /\ Promised'
    BY <1>3, <1>4 DEF Core, Typed, Unanswered, Promised, Told
  <1>11. Truthful'
    <2>1. TokensMatch'
      BY <1>5, KeptTokens DEF Core, Truthful
    <2>2. RowsMatch'
      <3> SUFFICES ASSUME NEW q \in Requests, pc'[q] = "verify"
                   PROVE  Matches(users', local'[q].id, local'[q].row)
        BY DEF RowsMatch
      <3>1. pc[q] = "verify" /\ local'[q] = local[q]
        BY <1>4 DEF Core, Typed
      <3> QED  BY <1>5, <3>1, KeptMatches DEF Core, Truthful, RowsMatch
    <2>3. LetThrough' /\ NoAdmins'
      BY <1>2, <1>3, <1>4 DEF Core, Typed, Truthful, LetThrough, NoAdmins, At
    <2> QED  BY <2>1, <2>2, <2>3 DEF Truthful
  <1> QED  BY <1>6, <1>7, <1>8, <1>9, <1>10, <1>11 DEF Core

\* Rows change, but no email and no role; nobody is added.
SameAccounts ==
    /\ DOMAIN users' = DOMAIN users
    /\ \A i \in DOMAIN users :
          users'[i] \in Row /\ users'[i].email = users[i].email /\ users'[i].role = users[i].role

LEMMA SameTable ==
  ASSUME Core, SameAccounts, tokens' = tokens, UNCHANGED args
  PROVE  Asked' /\ Unique' /\ TokensMatch' /\ NoAdmins' /\ Kept
  <1>1. Kept
    BY DEF Kept, SameAccounts
  <1>2. Asked' /\ Unique'
    BY DEF Core, Asked, Asks, AsksForRow, Unique, SameAccounts
  <1>3. TokensMatch' /\ NoAdmins'
    BY <1>1, KeptTokens DEF Core, Truthful, NoAdmins, SameAccounts
  <1> QED  BY <1>1, <1>2, <1>3

LEMMA DeactivateCore ==
  ASSUME Core, SameAccounts, UNCHANGED <<handles, tokens, args, pc, answer, local>>,
         expired' \subseteq tokens, faults' \in 0..MaxFaults
  PROVE  Core'
  <1>1. Asked' /\ Unique' /\ TokensMatch' /\ NoAdmins' /\ Kept
    BY SameTable
  <1>2. Typed'
    BY DEF Core, Typed, SameAccounts
  <1>3. Own' /\ Unanswered' /\ Promised'
    BY DEF Core, Own, Unanswered, Promised, Told, SameAccounts
  <1>4. RowsMatch' /\ LetThrough'
    BY <1>1, KeptMatches DEF Core, Truthful, RowsMatch, LetThrough, At
  <1> QED  BY <1>1, <1>2, <1>3, <1>4 DEF Core, Truthful

\* A password is updated and the request answers.
LEMMA UpdatedCore ==
  ASSUME Core, NEW r \in Requests, At(r, "change", "write"), Updated(r),
         NEW status \in {200, 500}, Answer(r, status),
         UNCHANGED <<handles, tokens, expired, args>>, faults' \in 0..MaxFaults
  PROVE  Core'
  <1>1. /\ r \notin DOMAIN users /\ args[r].kind = "change" /\ pc[r] = "write"
        /\ args[r].new \in Passwords
    BY DEF At, Core, Own, Asked, Asks
  <1>2. SameAccounts
    <2>1. DOMAIN users' = DOMAIN users
      BY DEF Updated
    <2> QED  BY <1>1, <2>1 DEF Updated, Core, Typed, Row, SameAccounts
  <1>3. /\ pc' = [pc EXCEPT ![r] = "done"] /\ answer' = [answer EXCEPT ![r] = status]
        /\ local' = [local EXCEPT ![r] = NoRow]
    BY DEF Answer, Goto
  <1>4. Asked' /\ Unique' /\ TokensMatch' /\ NoAdmins' /\ Kept
    BY <1>2, SameTable
  <1>5. Typed'
    BY <1>2, <1>3 DEF Core, Typed, Places, Codes, SameAccounts
  <1>6. Own' /\ Unanswered' /\ Promised'
    BY <1>1, <1>2, <1>3 DEF Core, Typed, Own, Unanswered, Promised, Told, SameAccounts
  <1>7. RowsMatch'
    <2> SUFFICES ASSUME NEW q \in Requests, pc'[q] = "verify"
                 PROVE  Matches(users', local'[q].id, local'[q].row)
      BY DEF RowsMatch
    <2>1. pc[q] = "verify" /\ local'[q] = local[q]
      BY <1>3 DEF Core, Typed
    <2> QED  BY <1>4, <2>1, KeptMatches DEF Core, Truthful, RowsMatch
  <1>8. LetThrough'
    BY <1>3 DEF Core, Typed, Truthful, LetThrough, At
  <1> QED  BY <1>4, <1>5, <1>6, <1>7, <1>8 DEF Core, Truthful

-----------------------------------------------------------------------------
LEMMA FaultsTyped == ASSUME Core, faults < MaxFaults PROVE faults + 1 \in 0..MaxFaults
  BY FaultsAssumption DEF Core, Typed

\* The steps that read.
LEMMA RequestStep ==
  ASSUME Core, NEW r \in Requests,
         Authenticate(r) \/ NoPool(r) \/ FindForRegister(r) \/ FindForCheck(r) \/ Verify(r)
  PROVE  Core'
  <1>0. faults \in 0..MaxFaults
    BY DEF Core, Typed
  <1>1. pc[r] \notin {"idle", "done"}
    BY DEF Authenticate, NoPool, FindForRegister, FindForCheck, Verify, At
  <1>2. UNCHANGED <<users, handles, expired, args, faults>>
    BY DEF Authenticate, NoPool, FindForRegister, FindForCheck, Verify, issued
  <1>3. Kept
    <2>1. CASE Verify(r)
      <3>1. Matches(users, local[r].id, local[r].row)
        BY <2>1 DEF Verify, Core, Truthful, RowsMatch
      <3>2. LET t == Claims(local[r].id, local[r].row) IN Matches(users, t.sub, t)
        BY <3>1 DEF Matches, Claims
      <3>3. tokens' = tokens \/ tokens' = tokens \union {Claims(local[r].id, local[r].row)}
        BY <2>1 DEF Verify, LoginTokens
      <3> QED  BY <1>2, <3>2, <3>3 DEF Kept
    <2>2. CASE ~Verify(r)
      BY <1>2, <2>2 DEF Authenticate, NoPool, FindForRegister, FindForCheck, issued, Kept
    <2> QED  BY <2>1, <2>2
  <1>4. \/ \E status \in Codes \ {201} : Answer(r, status)
        \/ \E place \in {"find", "verify", "write"} : GoesOn(r, place)
    <2>0. DOMAIN local = Requests
      BY DEF Core, Typed
    <2>1. CASE Authenticate(r)
      BY <2>0, <2>1 DEF Authenticate, Codes, Continue, GoesOn
    <2>2. CASE NoPool(r)
      BY <2>2 DEF NoPool, Codes
    <2>3. CASE FindForRegister(r)
      BY <2>0, <2>3 DEF FindForRegister, Codes, Continue, GoesOn
    <2>4. CASE FindForCheck(r)
      <3>1. CASE Looked(r) = {}
        BY <2>4, <3>1 DEF FindForCheck, Codes
      <3>2. ASSUME NEW i \in Looked(r), local' = [local EXCEPT ![r] = Found(i, users[i])],
                   Goto(r, "verify"), UNCHANGED answer
            PROVE  GoesOn(r, "verify")
        <4>1. i \in DOMAIN users
          BY DEF Looked, ByEmail, ById
        <4>2. Matches(users, i, users[i])
          BY <4>1 DEF Core, Truthful, NoAdmins, Matches
        <4>3. local'[r].id = i /\ local'[r].row = users[i]
          BY <2>0, <3>2 DEF Found
        <4> QED  BY <2>0, <3>2, <4>2, <4>3 DEF GoesOn
      <3>3. CASE Looked(r) # {}
        <4>1. PICK i \in Looked(r) :
                 \/ Answer(r, 200)
                 \/ /\ local' = [local EXCEPT ![r] = Found(i, users[i])]
                    /\ Goto(r, "verify") /\ UNCHANGED answer
          BY <2>4, <3>3 DEF FindForCheck
        <4> QED  BY <3>2, <4>1 DEF Codes
      <3> QED  BY <3>1, <3>3
    <2>5. CASE Verify(r)
      BY <2>0, <2>5 DEF Verify, Codes, Continue, GoesOn
    <2> QED  BY <2>1, <2>2, <2>3, <2>4, <2>5
  <1> QED  BY <1>0, <1>1, <1>2, <1>3, <1>4, ReadCore

LEMMA StartStep ==
  ASSUME Core, NEW r \in Requests,
         StartRegister(r) \/ StartLogin(r) \/ StartChange(r) \/ StartMe(r)
  PROVE  Core'
  <1>1. CASE StartRegister(r)
    BY <1>1, BeginCore DEF StartRegister, Asks, AsksForRow, Guarded
  <1>2. CASE StartLogin(r)
    BY <1>2, BeginCore DEF StartLogin, Asks, Guarded
  <1>3. CASE StartChange(r)
    BY <1>3, BeginCore DEF StartChange, Asks, Guarded
  <1>4. CASE StartMe(r)
    <2>1. PICK t \in tokens : Begin(r, [kind |-> "me", token |-> t])
      BY <1>4 DEF StartMe
    <2>2. Asks([kind |-> "me", token |-> t])
      BY DEF Asks
    <2> QED  BY <2>1, <2>2, BeginCore
  <1> QED  BY <1>1, <1>2, <1>3, <1>4

LEMMA InsertStep == ASSUME Core, NEW r \in Requests, Insert(r) PROVE Core'
  <1>0. faults \in 0..MaxFaults
    BY DEF Core, Typed
  <1>1. CASE Taken(args[r].email)
    <2>1. /\ Answer(r, 500) /\ UNCHANGED <<users, handles, expired, args, faults>>
          /\ tokens' = tokens /\ pc[r] = "write"
      BY <1>1 DEF Insert, At, RegisteredTokens
    <2>2. 500 \in Codes \ {201} /\ Kept
      BY <2>1 DEF Codes, Kept
    <2> QED  BY <1>0, <2>1, <2>2, ReadCore
  <1>2. CASE ~Taken(args[r].email)
    <2>1. PICK status \in {201, 500} : Answer(r, status)
      BY <1>2 DEF Insert
    <2>2. /\ At(r, "register", "write") /\ Inserted(r)
          /\ UNCHANGED <<handles, expired, args, faults>>
          /\ tokens' = tokens \/ tokens' = tokens \union {Claims(r, NewRow(r))}
      BY <1>2 DEF Insert, RegisteredTokens
    <2> QED  BY <1>0, <1>2, <2>1, <2>2, InsertedCore
  <1> QED  BY <1>1, <1>2

LEMMA FailStep == ASSUME Core, NEW r \in Requests, QueryFails(r) PROVE Core'
  <1>1. /\ faults' \in 0..MaxFaults /\ Answer(r, 500)
        /\ UNCHANGED <<handles, tokens, expired, args>>
        /\ pc[r] \notin {"idle", "done"}
    BY FaultsTyped DEF QueryFails, issued
  <1>2. CASE UNCHANGED users
    <2>1. 500 \in Codes \ {201} /\ Kept
      BY <1>1, <1>2 DEF Codes, Kept
    <2> QED  BY <1>1, <1>2, <2>1, ReadCore
  <1>3. CASE At(r, "register", "write") /\ ~Taken(args[r].email) /\ Inserted(r)
    BY <1>1, <1>3, InsertedCore
  <1>4. CASE At(r, "change", "write") /\ Updated(r)
    BY <1>1, <1>4, UpdatedCore
  <1> QED  BY <1>2, <1>3, <1>4 DEF QueryFails

LEMMA StepCore == ASSUME Core, Step PROVE Core'
  <1>0. faults \in 0..MaxFaults
    BY DEF Core, Typed
  <1>1. ASSUME NEW r \in Requests,
               StartRegister(r) \/ StartLogin(r) \/ StartChange(r) \/ StartMe(r)
        PROVE  Core'
    BY <1>1, StartStep
  <1>2. ASSUME NEW r \in Requests,
               Authenticate(r) \/ NoPool(r) \/ FindForRegister(r) \/ FindForCheck(r) \/ Verify(r)
        PROVE  Core'
    BY <1>2, RequestStep
  <1>3. ASSUME NEW r \in Requests, UpdatePassword(r)
        PROVE  Core'
    <2>1. /\ At(r, "change", "write") /\ Updated(r) /\ Answer(r, 200)
          /\ UNCHANGED <<handles, tokens, expired, args, faults>>
      BY <1>3 DEF UpdatePassword, issued
    <2> QED  BY <1>0, <2>1, UpdatedCore
  <1>4. ASSUME NEW i \in DOMAIN users, Deactivate(i)
        PROVE  Core'
    <2>1. SameAccounts
      BY <1>4 DEF Deactivate, Core, Typed, Row, SameAccounts
    <2>2. UNCHANGED <<handles, tokens, expired, args, pc, answer, local, faults>>
      BY <1>4 DEF Deactivate, issued
    <2>3. expired' \subseteq tokens
      BY <2>2 DEF Core, Typed
    <2> QED  BY <1>0, <2>1, <2>2, <2>3, DeactivateCore
  <1>5. ASSUME NEW t \in tokens, Expire(t)
        PROVE  Core'
    <2>1. SameAccounts /\ expired' \subseteq tokens
      BY <1>5 DEF Expire, Core, Typed, SameAccounts
    <2>2. UNCHANGED <<handles, tokens, args, pc, answer, local, faults>>
      BY <1>5 DEF Expire
    <2> QED  BY <1>0, <2>1, <2>2, DeactivateCore
  <1> QED  BY <1>1, <1>2, <1>3, <1>4, <1>5, InsertStep, FailStep DEF Step

LEMMA NextInv == Inv /\ [Next]_vars => Inv'
  <1> SUFFICES ASSUME Inv, [Next]_vars PROVE Inv'
    OBVIOUS
  <1>1. CASE Next
    <2>1. Core'
      BY <1>1, StepCore DEF Next, Inv
    <2>2. \A r \in Requests : Observed(r)' \subseteq Observations
      BY DEF Observed, Observations
    <2>3. held' \in [Requests -> SUBSET Observations]
      BY <1>1, <2>2 DEF Next, Observe, Inv
    <2> QED  BY <2>1, <2>3 DEF Inv
  <1>2. CASE UNCHANGED vars
    BY <1>2 DEF vars, Inv, Core, Typed, Asked, Asks, AsksForRow, Unique, Own, Unanswered,
                Promised, Told, Truthful, TokensMatch, RowsMatch, LetThrough, NoAdmins, At
  <1> QED  BY <1>1, <1>2

LEMMA InvHolds == Spec => []Inv
  BY InitInv, NextInv, PTL DEF Spec

\* Every row of the table is one the INSERT and the UPDATEs of User can have
\* written, and every handler answers with one of the statuses in the code.
THEOREM TypeCorrect == Spec => []TypeOK
  <1>1. Inv => TypeOK
    BY DEF Inv, Core, Typed, TypeOK, Places, Codes
  <1> QED  BY <1>1, InvHolds, PTL

\* However many registrations of one email overlap, fail or lose their reply,
\* one account has it and at most one request was told that it created it.
THEOREM RegisteredOnceCorrect == Spec => []RegisteredOnce
  <1>1. Inv => RegisteredOnce
    <2> SUFFICES ASSUME Inv PROVE RegisteredOnce
      OBVIOUS
    <2>1. \A r \in Requests : Told(r, "register", 201) =>
             r \in DOMAIN users /\ users[r].email = args[r].email
      BY DEF Inv, Core, Promised, Own
    <2>2. \A i, j \in DOMAIN users : users[i].email = users[j].email => i = j
      BY DEF Inv, Core, Unique
    <2> QED  BY <2>1, <2>2 DEF RegisteredOnce
  <1> QED  BY <1>1, InvHolds, PTL

\* Whatever happens to accounts and requests, a token names an account there
\* is, with that account's email and role, and no administrator who
\* registered here.
THEOREM ClaimsTrueCorrect == Spec => []ClaimsTrue
  <1>1. Inv => ClaimsTrue
    BY DEF Inv, Core, Truthful, TokensMatch, Matches, ClaimsTrue
  <1> QED  BY <1>1, InvHolds, PTL

(***************************************************************************)
(* Answers.  What a request has seen so far was true at a moment of it.    *)
(***************************************************************************)
\* It is one of the four handlers, and RequireAuth is in front of two.
Known(r) ==
    /\ pc[r] # "idle" => args[r].kind \in {"register", "login", "change", "me"}
    /\ pc[r] = "authenticate" => Guarded(args[r].kind)

\* RequireAuth let it in with a token that had not expired.
Entered(r) ==
    pc[r] \in {"find", "verify", "write"} /\ Guarded(args[r].kind) => "fresh" \in held[r]

\* The password matches the row that was read, or not, as it did then.
Compared(r) ==
    pc[r] = "verify" =>
        /\ args[r].kind \in {"login", "change"}
        /\ Verified(r) => "right" \in held[r]
        /\ ~Verified(r) => "wrong" \in held[r]

MayChange(r) == At(r, "change", "write") => {"fresh", "right"} \subseteq held[r]

LoginTold(r) ==
    /\ Told(r, "login", 200) => "right" \in held[r]
    /\ Told(r, "login", 401) => "wrong" \in held[r]

ChangeTold(r) ==
    /\ Told(r, "change", 200) => {"fresh", "right"} \subseteq held[r]
    /\ Told(r, "change", 401) => {"expired", "wrong"} \intersect held[r] # {}
    /\ Told(r, "change", 404) => "wrong" \in held[r]

MeTold(r) ==
    /\ Told(r, "me", 200) => {"fresh", "right"} \subseteq held[r]
    /\ Told(r, "me", 401) => "expired" \in held[r]
    /\ Told(r, "me", 404) => "wrong" \in held[r]

Honest(r) ==
    /\ Known(r) /\ Entered(r) /\ Compared(r) /\ MayChange(r)
    /\ LoginTold(r) /\ ChangeTold(r) /\ MeTold(r)

\* What a request has seen stays seen, and it sees the state after each step.
LEMMA HeldGrows ==
  ASSUME Inv, Observe, NEW r \in Requests
  PROVE  /\ held[r] \subseteq held'[r]
         /\ pc[r] # "done" /\ Checks(r)' => Observed(r)' \subseteq held'[r]
  BY DEF Inv, Observe

\* A step that does not touch a request, or answers it with what says nothing.
LEMMA SameHonest ==
  ASSUME NEW q, Honest(q), held[q] \subseteq held'[q],
         pc'[q] = pc[q], args'[q] = args[q], local'[q] = local[q], answer'[q] = answer[q]
  PROVE  Honest(q)'
  BY DEF Honest, Known, Entered, Compared, MayChange, LoginTold, ChangeTold, MeTold, Told,
         Verified, At, Guarded

LEMMA SilentHonest ==
  ASSUME Inv, NEW r \in Requests, Honest(r), pc[r] # "idle", UNCHANGED args,
         NEW status \in {201, 400, 403, 500}, Answer(r, status)
  PROVE  Honest(r)'
  <1>1. pc'[r] = "done" /\ answer'[r] = status
    BY DEF Answer, Goto, Inv, Core, Typed
  <1> QED
    BY <1>1 DEF Honest, Known, Entered, Compared, MayChange, LoginTold, ChangeTold, MeTold, Told, At

\* Every other request is as it was.
LEMMA OthersSame ==
  ASSUME Inv, NEW r \in Requests, NEW q \in Requests \ {r},
         \/ \E what : Begin(r, what)
         \/ /\ UNCHANGED args
            /\ \/ \E status : Answer(r, status)
               \/ \E place : Goto(r, place) /\ UNCHANGED answer
                             /\ (UNCHANGED local \/ \E x : local' = [local EXCEPT ![r] = x])
  PROVE  pc'[q] = pc[q] /\ args'[q] = args[q] /\ local'[q] = local[q] /\ answer'[q] = answer[q]
  <1>1. CASE \E what : Begin(r, what)
    BY <1>1 DEF Begin, Goto, Inv, Core, Typed
  <1>2. CASE \E status : Answer(r, status) /\ UNCHANGED args
    BY <1>2 DEF Answer, Goto, Inv, Core, Typed
  <1>3. CASE /\ UNCHANGED <<args, answer>> /\ \E place : Goto(r, place)
             /\ (UNCHANGED local \/ \E x : local' = [local EXCEPT ![r] = x])
    BY <1>3 DEF Goto, Inv, Core, Typed
  <1> QED  BY <1>1, <1>2, <1>3

LEMMA BeginHonest ==
  ASSUME Inv, NEW r \in Requests,
         StartRegister(r) \/ StartLogin(r) \/ StartChange(r) \/ StartMe(r)
  PROVE  Honest(r)' /\ \E what : Begin(r, what)
  <1>1. PICK what : Begin(r, what) /\ what.kind \in {"register", "login", "change", "me"}
    <2>1. CASE StartRegister(r)
      BY <2>1 DEF StartRegister
    <2>2. CASE StartLogin(r)
      BY <2>2 DEF StartLogin
    <2>3. CASE StartChange(r)
      BY <2>3 DEF StartChange
    <2>4. CASE StartMe(r)
      <3>1. PICK t \in tokens : Begin(r, [kind |-> "me", token |-> t])
        BY <2>4 DEF StartMe
      <3> QED  BY <3>1
    <2> QED  BY <2>1, <2>2, <2>3, <2>4
  <1>2. /\ pc[r] = "idle" /\ args'[r] = what /\ answer'[r] = answer[r]
        /\ pc'[r] = IF Guarded(what.kind) THEN "authenticate" ELSE "find"
    BY <1>1 DEF Begin, Goto, Inv, Core, Typed
  <1>3. answer'[r] = 0
    BY <1>2 DEF Inv, Core, Unanswered
  <1>4. Known(r)' /\ Entered(r)' /\ Compared(r)' /\ MayChange(r)'
    BY <1>1, <1>2 DEF Guarded, Known, Entered, Compared, MayChange, At
  <1>5. LoginTold(r)' /\ ChangeTold(r)' /\ MeTold(r)'
    BY <1>3 DEF LoginTold, ChangeTold, MeTold, Told
  <1> QED  BY <1>1, <1>4, <1>5 DEF Honest

LEMMA AuthenticateHonest ==
  ASSUME Inv, Observe, NEW r \in Requests, Honest(r), Authenticate(r)
  PROVE  Honest(r)'
  <1>1. pc[r] = "authenticate" /\ args' = args /\ expired' = expired /\ answer[r] = 0
    BY DEF Authenticate, issued, Inv, Core, Unanswered
  <1>2. args[r].kind \in {"change", "me"} /\ Guarded(args[r].kind)
    BY <1>1 DEF Honest, Known, Guarded
  <1>3. Guarded(args[r].kind) => Observed(r)' \subseteq held'[r]
    BY <1>1, HeldGrows DEF Checks
  <1>4. CASE ~Fresh(args[r].token)
    <2>1. pc'[r] = "done" /\ answer'[r] = 401
      BY <1>4 DEF Authenticate, Answer, Goto, Inv, Core, Typed
    <2>2. Guarded(args[r].kind) => "expired" \in held'[r]
      BY <1>1, <1>3, <1>4 DEF Observed, Fresh
    <2> QED
      BY <1>1, <1>2, <2>1, <2>2
      DEF Honest, Known, Entered, Compared, MayChange, LoginTold, ChangeTold, MeTold, Told, At,
          Guarded
  <1>5. CASE Fresh(args[r].token) /\ ~Permitted(args[r].token.role)
    BY <1>1, <1>5, SilentHonest DEF Authenticate
  <1>6. CASE Fresh(args[r].token) /\ Permitted(args[r].token.role)
    <2>1. pc'[r] = "find" /\ answer'[r] = 0
      BY <1>1, <1>6 DEF Authenticate, Continue, Goto, Inv, Core, Typed
    <2>2. Guarded(args[r].kind) => "fresh" \in held'[r]
      BY <1>1, <1>3, <1>6 DEF Observed, Fresh
    <2> QED
      BY <1>1, <1>2, <2>1, <2>2
      DEF Honest, Known, Entered, Compared, MayChange, LoginTold, ChangeTold, MeTold, Told, At
  <1> QED  BY <1>4, <1>5, <1>6

LEMMA FindForCheckHonest ==
  ASSUME Inv, Observe, NEW r \in Requests, Honest(r), FindForCheck(r)
  PROVE  Honest(r)'
  <1>1. /\ pc[r] = "find" /\ answer[r] = 0
        /\ args' = args /\ users' = users
    BY DEF FindForCheck, Inv, Core, Unanswered
  <1>2. args[r].kind \in {"login", "change", "me"} /\ Checks(r) /\ Checks(r)'
    BY <1>1 DEF FindForCheck, Honest, Known, Checks, Guarded
  <1>3. Observed(r)' \subseteq held'[r] /\ held[r] \subseteq held'[r]
    BY <1>1, <1>2, HeldGrows
  <1>4. Right(r)' = Right(r)
    BY <1>1 DEF Right
  <1>5. /\ Right(r) => "right" \in held'[r]
        /\ ~Right(r) => "wrong" \in held'[r]
    BY <1>3, <1>4 DEF Observed
  <1>6. Guarded(args[r].kind) => "fresh" \in held'[r]
    BY <1>1, <1>3 DEF Honest, Entered
  <1>7. CASE Looked(r) = {}
    <2>1. ~Right(r)
      BY <1>2, <1>7 DEF Right, Looked, ByEmail, ById, Visible
    <2>2. pc'[r] = "done" /\ answer'[r] = IF args[r].kind = "login" THEN 401 ELSE 404
      BY <1>7 DEF FindForCheck, Answer, Goto, Inv, Core, Typed
    <2> QED
      BY <1>1, <1>2, <1>5, <2>1, <2>2
      DEF Honest, Known, Entered, Compared, MayChange, LoginTold, ChangeTold, MeTold, Told, At
  <1>8. CASE Looked(r) # {}
    <2>1. PICK i \in Looked(r) :
             IF args[r].kind = "me" THEN Answer(r, 200)
             ELSE /\ local' = [local EXCEPT ![r] = Found(i, users[i])]
                  /\ Goto(r, "verify") /\ UNCHANGED answer
      BY <1>8 DEF FindForCheck
    <2>2. /\ i \in DOMAIN users /\ users[i].active
          /\ IF args[r].kind = "login" THEN users[i].email = args[r].email
             ELSE i = args[r].token.sub
      BY DEF Looked, ByEmail, ById, Visible
    <2>3. CASE args[r].kind = "me"
      <3>1. Right(r)
        BY <2>2, <2>3 DEF Right
      <3>2. pc'[r] = "done" /\ answer'[r] = 200
        BY <2>1, <2>3 DEF Answer, Goto, Inv, Core, Typed
      <3>3. {"fresh", "right"} \subseteq held'[r]
        BY <1>5, <1>6, <2>3, <3>1 DEF Guarded
      <3> QED
        BY <1>1, <2>3, <3>2, <3>3
        DEF Honest, Known, Entered, Compared, MayChange, LoginTold, ChangeTold, MeTold, Told, At
    <2>4. CASE args[r].kind # "me"
      <3>1. pc'[r] = "verify" /\ answer'[r] = 0 /\ local'[r].row = users[i]
        BY <1>1, <2>1, <2>4 DEF Goto, Found, Inv, Core, Typed
      <3>2. Right(r) <=> users[i].password = args[r].password
        <4>1. users[i].password = args[r].password => Right(r)
          BY <2>2, <2>4 DEF Right
        <4>2. ASSUME Right(r) PROVE users[i].password = args[r].password
          <5>1. PICK j \in DOMAIN users :
                  /\ users[j].active
                  /\ IF args[r].kind = "login" THEN users[j].email = args[r].email
                     ELSE j = args[r].token.sub
                  /\ users[j].password = args[r].password
            BY <2>4, <4>2 DEF Right
          <5>2. j = i
            BY <2>2, <5>1 DEF Inv, Core, Unique
          <5> QED  BY <5>1, <5>2
        <4> QED  BY <4>1, <4>2
      <3>3. Verified(r)' <=> users[i].password = args[r].password
        BY <1>1, <3>1 DEF Verified
      <3>4. Compared(r)'
        BY <1>1, <1>2, <1>5, <2>4, <3>2, <3>3 DEF Compared
      <3> QED
        BY <1>1, <1>2, <1>6, <3>1, <3>4
        DEF Honest, Known, Entered, MayChange, LoginTold, ChangeTold, MeTold, Told, At
    <2> QED  BY <2>3, <2>4
  <1> QED  BY <1>7, <1>8

LEMMA VerifyHonest ==
  ASSUME Inv, Observe, NEW r \in Requests, Honest(r), Verify(r)
  PROVE  Honest(r)'
  <1>1. pc[r] = "verify" /\ args' = args /\ answer[r] = 0 /\ held[r] \subseteq held'[r]
    BY HeldGrows DEF Verify, Inv, Core, Unanswered
  <1>2. /\ args[r].kind \in {"login", "change"}
        /\ Verified(r) => "right" \in held'[r]
        /\ ~Verified(r) => "wrong" \in held'[r]
        /\ args[r].kind = "change" => "fresh" \in held'[r]
    BY <1>1 DEF Honest, Compared, Entered, Guarded
  <1>3. CASE ~Verified(r)
    <2>1. pc'[r] = "done" /\ answer'[r] = 401
      BY <1>3 DEF Verify, Answer, Goto, Inv, Core, Typed
    <2> QED
      BY <1>1, <1>2, <1>3, <2>1
      DEF Honest, Known, Entered, Compared, MayChange, LoginTold, ChangeTold, MeTold, Told, At
  <1>4. CASE Verified(r) /\ args[r].kind = "change"
    <2>1. pc'[r] = "write" /\ answer'[r] = 0
      BY <1>1, <1>4 DEF Verify, Continue, Goto, Inv, Core, Typed
    <2> QED
      BY <1>1, <1>2, <1>4, <2>1
      DEF Honest, Known, Entered, Compared, MayChange, LoginTold, ChangeTold, MeTold, Told, At
  <1>5. CASE Verified(r) /\ args[r].kind # "change"
    <2>1. pc'[r] = "done" /\ answer'[r] \in {200, 500}
      BY <1>5 DEF Verify, Answer, Goto, Inv, Core, Typed
    <2> QED
      BY <1>1, <1>2, <1>5, <2>1
      DEF Honest, Known, Entered, Compared, MayChange, LoginTold, ChangeTold, MeTold, Told, At
  <1> QED  BY <1>3, <1>4, <1>5

LEMMA UpdateHonest ==
  ASSUME Inv, Observe, NEW r \in Requests, Honest(r), UpdatePassword(r)
  PROVE  Honest(r)'
  <1>1. /\ At(r, "change", "write") /\ args' = args /\ held[r] \subseteq held'[r]
        /\ pc'[r] = "done" /\ answer'[r] = 200
    BY HeldGrows DEF UpdatePassword, Answer, Goto, Inv, Core, Typed
  <1>2. {"fresh", "right"} \subseteq held'[r]
    BY <1>1 DEF Honest, MayChange
  <1> QED
    BY <1>1, <1>2
    DEF Honest, Known, Entered, Compared, MayChange, LoginTold, ChangeTold, MeTold, Told, At

\* A registration is told nothing that these properties are about.
LEMMA RegisterHonest ==
  ASSUME Inv, NEW r \in Requests, Honest(r), FindForRegister(r) \/ Insert(r)
  PROVE  Honest(r)'
  <1>1. args' = args /\ args[r].kind = "register"
    BY DEF FindForRegister, Insert, At
  <1>2. pc'[r] \in {"write", "done"}
    BY DEF FindForRegister, Insert, Answer, Continue, Goto, Inv, Core, Typed
  <1> QED
    BY <1>1, <1>2
    DEF Honest, Known, Entered, Compared, MayChange, LoginTold, ChangeTold, MeTold, Told, At,
        Guarded

LEMMA HonestStep ==
  ASSUME Inv, \A r \in Requests : Honest(r), Next
  PROVE  \A r \in Requests : Honest(r)'
  <1>0. Step /\ Observe /\ \A r \in Requests : held[r] \subseteq held'[r]
    BY HeldGrows DEF Next
  <1>1. ASSUME NEW r \in Requests, Honest(r)',
               \/ \E what : Begin(r, what)
               \/ /\ UNCHANGED args
                  /\ \/ \E status : Answer(r, status)
                     \/ \E place : Goto(r, place) /\ UNCHANGED answer
                                   /\ (UNCHANGED local \/ \E x : local' = [local EXCEPT ![r] = x])
        PROVE  \A q \in Requests : Honest(q)'
    <2>1. ASSUME NEW q \in Requests \ {r} PROVE Honest(q)'
      BY <1>0, <1>1, OthersSame, SameHonest
    <2> QED  BY <1>1, <2>1
  <1>2. ASSUME NEW r \in Requests,
               StartRegister(r) \/ StartLogin(r) \/ StartChange(r) \/ StartMe(r)
        PROVE  \A q \in Requests : Honest(q)'
    BY <1>1, <1>2, BeginHonest
  <1>3. ASSUME NEW r \in Requests, Authenticate(r) PROVE \A q \in Requests : Honest(q)'
    <2>1. UNCHANGED args /\ ((\E status : Answer(r, status)) \/ Continue(r, "find"))
      BY <1>3 DEF Authenticate
    <2> QED  BY <1>0, <1>1, <1>3, <2>1, AuthenticateHonest DEF Continue
  <1>4. ASSUME NEW r \in Requests, NoPool(r) PROVE \A q \in Requests : Honest(q)'
    <2>1. UNCHANGED args /\ Answer(r, 500) /\ pc[r] # "idle"
      BY <1>4 DEF NoPool
    <2> QED  BY <1>1, <2>1, SilentHonest
  <1>5. ASSUME NEW r \in Requests, FindForRegister(r) \/ Insert(r)
        PROVE  \A q \in Requests : Honest(q)'
    <2>1. UNCHANGED args /\ ((\E status : Answer(r, status)) \/ Continue(r, "write"))
      BY <1>5 DEF FindForRegister, Insert
    <2> QED  BY <1>1, <1>5, <2>1, RegisterHonest DEF Continue
  <1>6. ASSUME NEW r \in Requests, FindForCheck(r) PROVE \A q \in Requests : Honest(q)'
    <2>1. /\ UNCHANGED args
          /\ \/ \E status : Answer(r, status)
             \/ Goto(r, "verify") /\ UNCHANGED answer /\ \E x : local' = [local EXCEPT ![r] = x]
      BY <1>6 DEF FindForCheck
    <2> QED  BY <1>0, <1>1, <1>6, <2>1, FindForCheckHonest
  <1>7. ASSUME NEW r \in Requests, Verify(r) PROVE \A q \in Requests : Honest(q)'
    <2>1. UNCHANGED args /\ ((\E status : Answer(r, status)) \/ Continue(r, "write"))
      BY <1>7 DEF Verify
    <2> QED  BY <1>0, <1>1, <1>7, <2>1, VerifyHonest DEF Continue
  <1>8. ASSUME NEW r \in Requests, UpdatePassword(r) PROVE \A q \in Requests : Honest(q)'
    <2>1. UNCHANGED args /\ \E status : Answer(r, status)
      BY <1>8 DEF UpdatePassword
    <2> QED  BY <1>0, <1>1, <1>8, <2>1, UpdateHonest
  <1>9. ASSUME NEW r \in Requests, QueryFails(r) PROVE \A q \in Requests : Honest(q)'
    <2>1. UNCHANGED args /\ Answer(r, 500) /\ pc[r] # "idle"
      BY <1>9 DEF QueryFails
    <2> QED  BY <1>1, <2>1, SilentHonest
  <1>10. CASE (\E i \in DOMAIN users : Deactivate(i)) \/ (\E t \in tokens : Expire(t))
    <2>1. UNCHANGED <<pc, args, local, answer>>
      BY <1>10 DEF Deactivate, Expire
    <2> QED  BY <1>0, <2>1, SameHonest
  <1> QED  BY <1>0, <1>2, <1>3, <1>4, <1>5, <1>6, <1>7, <1>8, <1>9, <1>10 DEF Step

LEMMA HonestHolds == Spec => [](\A r \in Requests : Honest(r))
  <1>1. Init => \A r \in Requests : Honest(r)
    BY DEF Init, Honest, Known, Entered, Compared, MayChange, LoginTold, ChangeTold, MeTold, Told,
           At, NoArgs, Guarded
  <1>2. Inv /\ (\A r \in Requests : Honest(r)) /\ [Next]_vars => (\A r \in Requests : Honest(r))'
    <2>1. CASE Next
      BY <2>1, HonestStep
    <2>2. CASE UNCHANGED vars
      BY <2>2, SameHonest DEF vars
    <2> QED  BY <2>1, <2>2
  <1> QED  BY InvHolds, <1>1, <1>2, PTL DEF Spec

\* What login answers was true at some moment of the request, whatever happened
\* to the account between its query and the comparison of the passwords.
THEOREM LoginTellsCorrect == Spec => []LoginTells
  <1>1. (\A r \in Requests : Honest(r)) => LoginTells
    BY DEF Honest, LoginTold, LoginTells
  <1> QED  BY <1>1, HonestHolds, PTL

\* A password is changed only for a token that had not expired and an account
\* that was active with the old password, each at some moment of the request.
THEOREM ChangeTellsCorrect == Spec => []ChangeTells
  <1>1. (\A r \in Requests : Honest(r)) => ChangeTells
    BY DEF Honest, ChangeTold, ChangeTells
  <1> QED  BY <1>1, HonestHolds, PTL

\* So does the profile, whose token may outlive its account.
THEOREM MeTellsCorrect == Spec => []MeTells
  <1>1. (\A r \in Requests : Honest(r)) => MeTells
    BY DEF Honest, MeTold, MeTells
  <1> QED  BY <1>1, HonestHolds, PTL
=============================================================================
