------------------------------ MODULE Pipeline ------------------------------
(***************************************************************************)
(* Router::handle_request and apply_middlewares of src/src/server.rs: a    *)
(* request is matched against the routes of its method, passes the chain   *)
(* of middlewares, any of which may answer in the handler's place, and     *)
(* runs its handler.  Requests run side by side on the threads of the      *)
(* server and share the clock and the map of the rate limiter, which is    *)
(* the module RateLimit.  A handler may call RequireAuth of auth.rs first. *)
(***************************************************************************)
EXTENDS Integers, SequencesExt, FiniteSetsExt

CONSTANTS Requests,      \* requests, one each
          Traffic,       \* what a request may be: its method, path, token,
                         \* client key and whether it is too large
          Routes,        \* the routes in the order they were added
          Chains,        \* orders of the middlewares to look at
          RequiredRole,  \* RequireAuth.required_role
          Leeway,        \* seconds a token outlives its exp
          Clients, MaxRequests, Window, MaxTime  \* as in RateLimit

\* Limits are per window, so that one is not empty.
ASSUME LimiterAssumption == MaxRequests \in Nat /\ Window \in Nat \ {0} /\ MaxTime \in Nat
\* One limiter at most, whose map of clients is RateLimit's.
ASSUME ChainsAssumption ==
    /\ Chains \subseteq Seq(STRING)
    /\ \A s \in Chains : \A i, j \in DOMAIN s : s[i] = "rate" /\ s[j] = "rate" => i = j
ASSUME TrafficAssumption ==
    \A q \in Traffic : q.key \in Clients /\ (q.token.signed => q.token.exp \in Nat)
ASSUME LeewayAssumption == Leeway \in Nat
ASSUME RequestsAssumption == IsFiniteSet(Requests)

VARIABLES chain,     \* Router.middlewares
          request,   \* what each request is
          step,      \* the middleware it is at; in "handler" and after, past the last
          pc,        \* where it is
          claims,    \* the role in its claims extension
          status,    \* the status it was answered with
          arrived,   \* history: when it arrived
          reached,   \* history: its handler was called
          log, kept, deniedAt, now  \* RateLimit's

limiter == <<log, kept, deniedAt>>
vars == <<chain, request, step, pc, claims, status, arrived, reached, limiter, now>>

Limiter == INSTANCE RateLimit

NoRequest == [path |-> <<>>]
NoClaims == "none"

Init ==
    /\ chain \in Chains
    /\ request = [r \in Requests |-> NoRequest]
    /\ step = [r \in Requests |-> 0]
    /\ pc = [r \in Requests |-> "idle"]
    /\ claims = [r \in Requests |-> NoClaims]
    /\ status = [r \in Requests |-> 0]
    /\ arrived = [r \in Requests |-> 0]
    /\ reached = [r \in Requests |-> FALSE]
    /\ Limiter!Init

Goto(r, place) == pc' = [pc EXCEPT ![r] = place]

Answer(r, code) == Goto(r, "answered") /\ status' = [status EXCEPT ![r] = code]

(***************************************************************************)
(* The routes.  A segment that starts with ':' matches any segment.        *)
(***************************************************************************)
Param == ":"

Matches(route, path) ==
    /\ Len(route.pattern) = Len(path)
    /\ \A i \in DOMAIN path : route.pattern[i] \in {Param, path[i]}

Matching(q) == {i \in DOMAIN Routes : Routes[i].method = q.method /\ Matches(Routes[i], q.path)}

Handler(r) == Routes[Min(Matching(request[r]))].handler

\* handle_request up to the first middleware.
Arrive(r, q) ==
    /\ pc[r] = "idle"
    /\ request' = [request EXCEPT ![r] = q]
    /\ arrived' = [arrived EXCEPT ![r] = now]
    /\ IF Matching(q) = {}
       THEN Answer(r, 404) /\ UNCHANGED step
       ELSE Goto(r, "chain") /\ step' = [step EXCEPT ![r] = 1] /\ UNCHANGED status
    /\ UNCHANGED <<chain, claims, reached, limiter, now>>

(***************************************************************************)
(* The middlewares.                                                        *)
(***************************************************************************)
At(r, middleware) ==
    pc[r] = "chain" /\ step[r] \in DOMAIN chain /\ chain[step[r]] = middleware

\* Seeded fault for QuotaExact: the loop does not advance once in the limiter.
ContinueInPlace(r) == step' = [step EXCEPT ![r] = IF chain[@] = "rate" THEN @ ELSE @ + 1]

Continue(r) == step' = [step EXCEPT ![r] = @ + 1]

\* Seeded fault for EndToEndLimit: the answer of a middleware is dropped.
ShortCircuitIgnored(r, code) == Continue(r) /\ UNCHANGED <<pc, status>>

ShortCircuit(r, code) == Answer(r, code) /\ UNCHANGED step

Decide(r, passes, code) ==
    /\ IF passes THEN Continue(r) /\ UNCHANGED <<pc, status>> ELSE ShortCircuit(r, code)
    /\ UNCHANGED <<chain, request, claims, arrived, reached, limiter, now>>

\* Seeded fault for OnlyByToken: exp is not validated.
VerifiedForEver(token) == token.signed

\* jsonwebtoken's decode with a default Validation.
Verified(token) == token.signed /\ now <= token.exp + Leeway

Cors(r) == At(r, "cors") /\ Decide(r, request[r].method # "OPTIONS", 204)

\* AuthMiddleware, required: the claims are logged and not kept.
Auth(r) == At(r, "auth") /\ Decide(r, Verified(request[r].token), 401)

Size(r) == At(r, "size") /\ Decide(r, ~request[r].large, 413)

\* Logging, timeout, security headers, compression, optional auth.
Pass(r) == At(r, "pass") /\ Decide(r, TRUE, 0)

Rate(r) ==
    /\ At(r, "rate")
    /\ LET c == request[r].key
       IN \/ Limiter!Admit(c) /\ Continue(r) /\ UNCHANGED <<pc, status>>
          \/ Limiter!Deny(c) /\ ShortCircuit(r, 429)
    /\ UNCHANGED <<chain, request, claims, arrived, reached>>

(***************************************************************************)
(* The handler.                                                            *)
(***************************************************************************)
CallHandler(r) ==
    /\ pc[r] = "chain" /\ step[r] = Len(chain) + 1
    /\ Goto(r, "handler")
    /\ reached' = [reached EXCEPT ![r] = TRUE]
    /\ UNCHANGED <<chain, request, step, claims, status, arrived, limiter, now>>

\* required_role is None where RequireAuth takes any role.
AnyRole == "any"

Permitted(role) == RequiredRole \in {AnyRole, role} \/ role = "admin"

\* RequireAuth::authenticate in front of what the handler does itself: it
\* alone puts the claims into the request's extensions.
RequireAuth(r) ==
    LET token == request[r].token
    IN /\ pc[r] = "handler" /\ Handler(r) = "guarded"
       /\ IF ~Verified(token) THEN Answer(r, 401) /\ UNCHANGED claims
          ELSE IF ~Permitted(token.role) THEN Answer(r, 403) /\ UNCHANGED claims
          ELSE /\ Goto(r, "inside")
               /\ claims' = [claims EXCEPT ![r] = token.role]
               /\ UNCHANGED status
       /\ UNCHANGED <<chain, request, step, arrived, reached, limiter, now>>

\* A handler that looks for the claims, as me_handler and require_auth do,
\* answers 401 where there are none; an open one does not look.
Respond(r) ==
    /\ \/ pc[r] = "handler" /\ Handler(r) = "open" /\ Answer(r, 200)
       \/ /\ pc[r] = "inside" \/ (pc[r] = "handler" /\ Handler(r) = "me")
          /\ Answer(r, IF claims[r] = NoClaims THEN 401 ELSE 200)
    /\ UNCHANGED <<chain, request, step, claims, arrived, reached, limiter, now>>

\* hyper drops the future of a request whose connection is gone.
Disconnect(r) ==
    /\ pc[r] \in {"handler", "inside"}
    /\ Goto(r, "dropped")
    /\ UNCHANGED <<chain, request, step, claims, status, arrived, reached, limiter, now>>

Tick ==
    /\ Limiter!Tick
    /\ UNCHANGED <<chain, request, step, pc, claims, status, arrived, reached>>

-----------------------------------------------------------------------------
Next ==
    \/ \E r \in Requests :
          \/ \E q \in Traffic : Arrive(r, q)
          \/ Cors(r) \/ Auth(r) \/ Size(r) \/ Pass(r) \/ Rate(r)
          \/ CallHandler(r) \/ RequireAuth(r) \/ Respond(r) \/ Disconnect(r)
    \/ Tick

Spec == Init /\ [][Next]_vars

-----------------------------------------------------------------------------
\* The requests of a client that were let through by the rate limiter.
PastLimiter(c) ==
    {r \in Requests : /\ pc[r] # "idle" /\ request[r].key = c
                      /\ \E i \in DOMAIN chain : chain[i] = "rate" /\ i < step[r]}

\* The quota of a client is spent by the requests the limiter lets through,
\* by each once, and by no other: one that no route matches or that an
\* earlier middleware answers costs nothing, one that a later middleware
\* refuses has been paid for.
QuotaExact == \A c \in Clients : Len(log[c]) = Cardinality(PastLimiter(c))

\* Behind the limiter, the handlers of a client's requests are called at most
\* MaxRequests times per window that has begun, however long a request takes
\* from the limiter to its handler, in whatever order they overtake each
\* other and wherever the limiter is in the chain.
Handled(c) == {r \in Requests : reached[r] /\ request[r].key = c}

EndToEndLimit ==
    \A c \in Clients : Contains(chain, "rate") =>
        Cardinality(Handled(c)) <= MaxRequests * (now \div Window + 1)

\* A handler behind AuthMiddleware, or the part of a handler behind
\* RequireAuth, runs only for a request whose token was signed with the secret
\* and not expired at some moment since the request arrived, the latter for
\* the required role or an admin only.
Genuine(r) ==
    request[r].token.signed /\ arrived[r] <= request[r].token.exp + Leeway

OnlyByToken ==
    \A r \in Requests :
        /\ reached[r] /\ Contains(chain, "auth") => Genuine(r)
        /\ pc[r] = "inside" \/ (status[r] = 200 /\ Handler(r) = "guarded") =>
              Genuine(r) /\ Permitted(request[r].token.role)
=============================================================================
