--------------------------- MODULE PipelineProofs ----------------------------
(***************************************************************************)
(* Pipeline: protected code runs by a good token only, a quota is spent by *)
(* exactly the requests that pass the limiter, and no handler behind it is *)
(* called more often than the limit allows, for any routes, traffic,       *)
(* orders of the middlewares and numbers of requests.                      *)
(*                                                                         *)
(* A token that was good when a middleware or RequireAuth looked was good  *)
(* at some moment since the request arrived; what has to be known besides  *)
(* is which requests have passed whom, from the place each has reached.    *)
(***************************************************************************)
EXTENDS Pipeline, FiniteSetTheorems, TLAPS

Typed ==
    /\ chain \in Chains
    /\ DOMAIN pc = Requests /\ DOMAIN request = Requests /\ DOMAIN status = Requests
    /\ DOMAIN reached = Requests /\ DOMAIN arrived = Requests
    /\ step \in [Requests -> Nat]
    /\ log \in [Clients -> Seq(Nat)]
    /\ now \in Nat

\* Nothing has happened to a request that has not come yet.
Idle(r) == pc[r] = "idle" => step[r] = 0 /\ status[r] = 0 /\ ~reached[r]

Came(r) == pc[r] # "idle" => request[r] \in Traffic /\ arrived[r] \in Nat /\ arrived[r] <= now

Behind(r, middleware) == \E i \in DOMAIN chain : chain[i] = middleware /\ i < step[r]

\* Whoever is past AuthMiddleware had a good token.
AuthChecked(r) == pc[r] # "idle" /\ Behind(r, "auth") => Genuine(r)

HandlerChecked(r) == reached[r] /\ Contains(chain, "auth") => Genuine(r)

GuardChecked(r) ==
    pc[r] = "inside" \/ (status[r] = 200 /\ Handler(r) = "guarded") =>
        Genuine(r) /\ Permitted(request[r].token.role)

Sound(r) == Idle(r) /\ Came(r) /\ AuthChecked(r) /\ HandlerChecked(r) /\ GuardChecked(r)

Inv == Typed /\ (\A r \in Requests : Sound(r)) /\ QuotaExact

-----------------------------------------------------------------------------
LEMMA InitInv == Init => Inv
  <1> SUFFICES ASSUME Init PROVE Inv
    OBVIOUS
  <1>1. Typed
    BY DEF Init, Limiter!Init, Typed
  <1>2. ASSUME NEW r \in Requests PROVE Sound(r)
    BY DEF Init, Sound, Idle, Came, AuthChecked, HandlerChecked, GuardChecked
  <1>3. ASSUME NEW c \in Clients PROVE Len(log[c]) = Cardinality(PastLimiter(c))
    <2>1. \A r \in Requests : pc[r] = "idle"
      BY DEF Init
    <2>2. PastLimiter(c) = {}
      BY <2>1 DEF PastLimiter
    <2>3. log[c] = <<>>
      BY DEF Init, Limiter!Init
    <2> QED  BY <2>2, <2>3, FS_EmptySet
  <1> QED  BY <1>1, <1>2, <1>3 DEF Inv, QuotaExact

LEMMA ChainTyped ==
  ASSUME Typed
  PROVE  /\ chain \in Seq(STRING)
         /\ \A i, j \in DOMAIN chain : chain[i] = "rate" /\ chain[j] = "rate" => i = j
  BY ChainsAssumption DEF Typed

LEMMA PastLimiterFinite ==
  ASSUME NEW c
  PROVE  IsFiniteSet(PastLimiter(c)) /\ Cardinality(PastLimiter(c)) \in Nat
  <1>1. PastLimiter(c) \subseteq Requests
    BY DEF PastLimiter
  <1> QED  BY <1>1, RequestsAssumption, FS_Subset, FS_CardinalityType

\* A look at a token that was good is enough for the rest of the request.
LEMMA VerifiedIsGenuine ==
  ASSUME NEW r \in Requests, Came(r), now \in Nat, pc[r] # "idle", Verified(request[r].token)
  PROVE  Genuine(r)
  <1>1. /\ request[r].token.signed /\ request[r].token.exp \in Nat /\ arrived[r] \in Nat
        /\ now <= request[r].token.exp + Leeway /\ arrived[r] <= now
    BY TrafficAssumption DEF Came, Verified
  <1> QED  BY <1>1, LeewayAssumption DEF Genuine

\* Request q is as it was.
Same(q) ==
    /\ pc'[q] = pc[q] /\ request'[q] = request[q] /\ status'[q] = status[q]
    /\ reached'[q] = reached[q] /\ arrived'[q] = arrived[q] /\ step'[q] = step[q]

LEMMA SameSound ==
  ASSUME NEW q, Sound(q), Same(q), chain' = chain, now \in Nat, now' \in Nat, now' >= now
  PROVE  Sound(q)'
  <1>1. Genuine(q)' = Genuine(q) /\ Handler(q)' = Handler(q) /\ Behind(q, "auth")' = Behind(q, "auth")
    BY DEF Same, Genuine, Handler, Behind
  <1>2. Idle(q)' /\ Came(q)'
    BY DEF Sound, Same, Idle, Came
  <1> QED  BY <1>1, <1>2 DEF Sound, Same, AuthChecked, HandlerChecked, GuardChecked

\* The requests other than r are as they were, and so are chain and limiter.
OthersSame(r) ==
    /\ \A q \in Requests \ {r} : Same(q)
    /\ chain' = chain /\ UNCHANGED <<log, now>>

LEMMA StepInv ==
  ASSUME Inv, NEW r \in Requests, OthersSame(r), Typed', Sound(r)',
         \A c \in Clients : r \in PastLimiter(c) <=> r \in PastLimiter(c)'
  PROVE  Inv'
  <1>1. \A q \in Requests : Sound(q)'
    BY SameSound DEF Inv, Typed, OthersSame
  <1>2. ASSUME NEW c \in Clients PROVE PastLimiter(c)' = PastLimiter(c)
    BY DEF PastLimiter, OthersSame, Same
  <1>3. QuotaExact'
    BY <1>2 DEF Inv, QuotaExact, OthersSame
  <1> QED  BY <1>1, <1>3 DEF Inv

LEMMA ArriveInv ==
  ASSUME Inv, NEW r \in Requests, NEW q \in Traffic, Arrive(r, q)
  PROVE  Inv'
  <1>1. /\ pc[r] = "idle" /\ Sound(r) /\ Typed
        /\ request'[r] = q /\ arrived'[r] = now /\ reached'[r] = reached[r]
        /\ pc'[r] # "idle" /\ pc'[r] # "inside" /\ step'[r] \in {0, 1} /\ status'[r] # 200
    BY DEF Arrive, Answer, Goto, Inv, Typed, Sound, Idle
  <1>2. OthersSame(r) /\ Typed'
    BY <1>1 DEF Arrive, Answer, Goto, Typed, OthersSame, Same, limiter
  <1>3. \A i \in DOMAIN chain' : ~(i < step'[r])
    BY <1>1, <1>2, ChainTyped DEF OthersSame
  <1>4. Sound(r)'
    BY <1>1, <1>2, <1>3
    DEF Sound, Idle, Came, AuthChecked, Behind, HandlerChecked, GuardChecked, Typed, OthersSame
  <1>5. \A c \in Clients : r \notin PastLimiter(c) /\ r \notin PastLimiter(c)'
    BY <1>1, <1>3 DEF PastLimiter
  <1> QED  BY <1>2, <1>4, <1>5, StepInv

\* Only its place and its answer change: r goes on to the next middleware or
\* is answered with an error.
Moves(r) ==
    /\ pc[r] = "chain" /\ step[r] \in DOMAIN chain
    /\ \/ pc'[r] = "chain" /\ step'[r] = step[r] + 1 /\ status'[r] = status[r]
       \/ pc'[r] = "answered" /\ step'[r] = step[r] /\ status'[r] # 200
    /\ request'[r] = request[r] /\ arrived'[r] = arrived[r] /\ reached'[r] = reached[r]

LEMMA MovesSound ==
  ASSUME Inv, NEW r \in Requests, Moves(r), chain' = chain, now' = now,
         chain[step[r]] = "auth" /\ step'[r] # step[r] => Genuine(r)
  PROVE  Sound(r)'
  <1>1. Sound(r) /\ step[r] \in Nat /\ chain \in Seq(STRING)
    BY ChainTyped DEF Inv, Typed
  <1>2. Genuine(r)' = Genuine(r) /\ Handler(r)' = Handler(r)
    BY DEF Moves, Genuine, Handler
  <1>3. Behind(r, "auth")' => Behind(r, "auth") \/ (chain[step[r]] = "auth" /\ step'[r] # step[r])
    BY <1>1 DEF Moves, Behind
  <1>4. Idle(r)' /\ Came(r)'
    BY <1>1 DEF Sound, Moves, Idle, Came
  <1>5. AuthChecked(r)'
    BY <1>1, <1>2, <1>3 DEF Sound, Moves, AuthChecked
  <1>6. HandlerChecked(r)' /\ GuardChecked(r)'
    BY <1>1, <1>2 DEF Sound, Moves, HandlerChecked, GuardChecked
  <1> QED  BY <1>4, <1>5, <1>6 DEF Sound

\* What Decide comes to.
LEMMA DecideMoves ==
  ASSUME Inv, NEW r \in Requests, NEW code \in Int \ {200},
         pc[r] = "chain", step[r] \in DOMAIN chain,
         (Continue(r) /\ UNCHANGED <<pc, status>>) \/ ShortCircuit(r, code),
         UNCHANGED <<chain, request, claims, arrived, reached, limiter, now>>
  PROVE  Moves(r) /\ OthersSame(r) /\ Typed'
  <1>1. step \in [Requests -> Nat] /\ DOMAIN pc = Requests /\ DOMAIN status = Requests
    BY DEF Inv, Typed
  <1>2. CASE Continue(r) /\ UNCHANGED <<pc, status>>
    BY <1>1, <1>2 DEF Continue, Moves, OthersSame, Same, Inv, Typed, limiter
  <1>3. CASE ShortCircuit(r, code)
    BY <1>1, <1>3 DEF ShortCircuit, Answer, Goto, Moves, OthersSame, Same, Inv, Typed, limiter
  <1> QED  BY <1>2, <1>3

\* Every middleware but the limiter.
LEMMA MiddlewareInv ==
  ASSUME Inv, NEW r \in Requests, Cors(r) \/ Auth(r) \/ Size(r) \/ Pass(r)
  PROVE  Inv'
  <1>0. /\ pc[r] = "chain" /\ step[r] \in DOMAIN chain /\ chain[step[r]] # "rate"
        /\ \E code \in Int \ {200} :
              (Continue(r) /\ UNCHANGED <<pc, status>>) \/ ShortCircuit(r, code)
        /\ UNCHANGED <<chain, request, claims, arrived, reached, limiter, now>>
    BY DEF Cors, Auth, Size, Pass, At, Decide
  <1>1. Moves(r) /\ chain[step[r]] # "rate" /\ OthersSame(r) /\ Typed'
    BY <1>0, DecideMoves
  <1>2. chain[step[r]] = "auth" /\ step'[r] # step[r] => Verified(request[r].token)
    BY DEF Cors, Auth, Size, Pass, At, Decide, ShortCircuit, Continue, Inv, Typed
  <1>3. chain[step[r]] = "auth" /\ step'[r] # step[r] => Genuine(r)
    BY <1>1, <1>2, VerifiedIsGenuine DEF Inv, Typed, Sound, Moves
  <1>4. Sound(r)'
    BY <1>1, <1>3, MovesSound DEF OthersSame
  <1>5. ASSUME NEW c \in Clients PROVE r \in PastLimiter(c) <=> r \in PastLimiter(c)'
    <2>1. step[r] \in Nat /\ chain \in Seq(STRING)
      BY ChainTyped DEF Inv, Typed
    <2> QED  BY <1>1, <2>1 DEF PastLimiter, Moves, OthersSame
  <1> QED  BY <1>1, <1>4, <1>5, StepInv

LEMMA RateInv ==
  ASSUME Inv, NEW r \in Requests, Rate(r)
  PROVE  Inv'
  <1>1. /\ Moves(r) /\ chain[step[r]] = "rate"
        /\ chain' = chain /\ now' = now /\ \A q \in Requests \ {r} : Same(q)
    BY DEF Rate, At, Continue, ShortCircuit, Answer, Goto, Moves, Same, Inv, Typed,
           Limiter!Admit, Limiter!Deny
  <1>2. Sound(r)'
    BY <1>1, MovesSound
  <1>3. \A q \in Requests : Sound(q)'
    BY <1>1, <1>2, SameSound DEF Inv, Typed
  <1>4. step[r] \in Nat /\ chain \in Seq(STRING) /\ request[r].key \in Clients /\ now \in Nat
        /\ log \in [Clients -> Seq(Nat)]
        /\ \A i, j \in DOMAIN chain : chain[i] = "rate" /\ chain[j] = "rate" => i = j
    BY <1>1, ChainTyped, TrafficAssumption DEF Inv, Typed, Sound, Came, Moves
  <1>5. \A c \in Clients : r \notin PastLimiter(c)
    BY <1>1, <1>4 DEF PastLimiter, Moves
  <1>6. PICK key \in Clients : key = request[r].key
    BY <1>4
  <1>7. CASE Limiter!Deny(key) /\ ShortCircuit(r, 429)
    <2>1. OthersSame(r) /\ Typed' /\ step'[r] = step[r]
      BY <1>1, <1>7 DEF OthersSame, Inv, Typed, ShortCircuit, Answer, Goto, Limiter!Deny, Rate
    <2>2. \A c \in Clients : r \notin PastLimiter(c)'
      BY <1>1, <1>4, <2>1 DEF PastLimiter, Moves
    <2> QED  BY <1>2, <1>5, <2>1, <2>2, StepInv
  <1>8. CASE Limiter!Admit(key) /\ Continue(r) /\ UNCHANGED <<pc, status>>
    <2>1. step'[r] = step[r] + 1 /\ log' = [log EXCEPT ![key] = Append(@, now)]
      BY <1>8 DEF Continue, Limiter!Admit, Inv, Typed
    <2>2. Typed'
      BY <1>1, <1>4, <1>8, <2>1 DEF Inv, Typed, Continue, Rate
    <2>3. ASSUME NEW c \in Clients, c # key PROVE PastLimiter(c)' = PastLimiter(c) /\ log'[c] = log[c]
      <3>1. r \notin PastLimiter(c) /\ r \notin PastLimiter(c)'
        BY <1>1, <1>6, <1>5, <2>3 DEF PastLimiter, Moves
      <3>2. \A q \in Requests \ {r} : q \in PastLimiter(c) <=> q \in PastLimiter(c)'
        BY <1>1 DEF PastLimiter, Same
      <3>3. PastLimiter(c) \subseteq Requests /\ PastLimiter(c)' \subseteq Requests
        BY DEF PastLimiter
      <3>4. PastLimiter(c)' = PastLimiter(c)
        BY <3>1, <3>2, <3>3
      <3>5. log'[c] = log[c]
        BY <1>4, <2>1, <2>3
      <3> QED  BY <3>4, <3>5
    <2>4. PastLimiter(key)' = PastLimiter(key) \union {r}
      BY <1>1, <1>4, <1>6, <2>1 DEF PastLimiter, Moves, Same
    <2>5. Len(log'[key]) = Len(log[key]) + 1
      BY <1>4, <2>1
    <2>6. Cardinality(PastLimiter(key) \union {r}) = Cardinality(PastLimiter(key)) + 1
      BY <1>4, <1>5, PastLimiterFinite, FS_AddElement
    <2>7. ASSUME NEW c \in Clients PROVE Len(log'[c]) = Cardinality(PastLimiter(c)')
      <3>1. CASE c = key
        BY <1>4, <2>4, <2>5, <2>6, <3>1 DEF Inv, QuotaExact
      <3>2. CASE c # key
        BY <2>3, <3>2 DEF Inv, QuotaExact
      <3> QED  BY <3>1, <3>2
    <2>8. QuotaExact'
      BY <2>7 DEF QuotaExact
    <2> QED  BY <1>3, <2>2, <2>8 DEF Inv
  <1> QED  BY <1>6, <1>7, <1>8 DEF Rate

\* Past the whole chain, r is past AuthMiddleware if there is one.
LEMMA CallHandlerInv ==
  ASSUME Inv, NEW r \in Requests, CallHandler(r)
  PROVE  Inv'
  <1>1. /\ pc[r] = "chain" /\ pc'[r] = "handler" /\ step[r] = Len(chain) + 1 /\ Sound(r)
        /\ OthersSame(r) /\ Typed'
        /\ request'[r] = request[r] /\ arrived'[r] = arrived[r]
        /\ status'[r] = status[r] /\ step'[r] = step[r] /\ chain' = chain
    BY DEF CallHandler, Goto, Inv, Typed, OthersSame, Same, limiter
  <1>2. Contains(chain, "auth") => Behind(r, "auth")
    BY <1>1, ChainTyped DEF Contains, Behind, Inv
  <1>3. /\ Genuine(r)' = Genuine(r) /\ Handler(r)' = Handler(r)
        /\ Behind(r, "auth")' = Behind(r, "auth")
    BY <1>1 DEF Genuine, Handler, Behind
  <1>4. Idle(r)' /\ Came(r)'
    BY <1>1 DEF Sound, Idle, Came, OthersSame
  <1>5. AuthChecked(r)' /\ HandlerChecked(r)' /\ GuardChecked(r)'
    BY <1>1, <1>2, <1>3 DEF Sound, AuthChecked, HandlerChecked, GuardChecked
  <1>6. \A c \in Clients : r \in PastLimiter(c) <=> r \in PastLimiter(c)'
    BY <1>1 DEF PastLimiter
  <1> QED  BY <1>1, <1>4, <1>5, <1>6, StepInv DEF Sound

\* In or after the handler: what r was let through with stays true.
LEMMA HandlerStepInv ==
  ASSUME Inv, NEW r \in Requests, OthersSame(r), Typed',
         pc[r] \in {"handler", "inside"}, pc'[r] # "idle",
         request'[r] = request[r], arrived'[r] = arrived[r], reached'[r] = reached[r],
         step'[r] = step[r],
         GuardChecked(r)'
  PROVE  Inv'
  <1>1. Sound(r) /\ chain' = chain /\ now' = now
    BY DEF Inv, OthersSame
  <1>2. Genuine(r)' = Genuine(r) /\ Behind(r, "auth")' = Behind(r, "auth")
    BY <1>1 DEF Genuine, Behind
  <1>3. Idle(r)' /\ Came(r)'
    BY <1>1 DEF Sound, Idle, Came
  <1>4. AuthChecked(r)' /\ HandlerChecked(r)'
    BY <1>1, <1>2 DEF Sound, AuthChecked, HandlerChecked
  <1>5. \A c \in Clients : r \in PastLimiter(c) <=> r \in PastLimiter(c)'
    BY <1>1 DEF PastLimiter
  <1> QED  BY <1>3, <1>4, <1>5, StepInv DEF Sound

LEMMA RequireAuthInv ==
  ASSUME Inv, NEW r \in Requests, RequireAuth(r)
  PROVE  Inv'
  <1> DEFINE token == request[r].token
  <1>1. /\ OthersSame(r) /\ Typed'
        /\ pc[r] = "handler" /\ pc'[r] \in {"answered", "inside"}
        /\ request'[r] = request[r] /\ arrived'[r] = arrived[r] /\ reached'[r] = reached[r]
        /\ step'[r] = step[r]
    BY DEF RequireAuth, Answer, Goto, Inv, Typed, OthersSame, Same, limiter
  <1>2. pc'[r] = "inside" => Verified(token) /\ Permitted(token.role) /\ status'[r] = status[r]
    BY DEF RequireAuth, Answer, Goto, Inv, Typed
  <1>3. pc'[r] # "inside" => status'[r] # 200
    BY DEF RequireAuth, Answer, Goto, Inv, Typed
  <1>4. Verified(token) => Genuine(r)
    BY <1>1, VerifiedIsGenuine DEF Inv, Typed, Sound
  <1>5. Genuine(r)' = Genuine(r)
    BY <1>1 DEF Genuine
  <1>6. GuardChecked(r)'
    BY <1>1, <1>2, <1>3, <1>4, <1>5 DEF GuardChecked
  <1> QED  BY <1>1, <1>6, HandlerStepInv

LEMMA RespondInv ==
  ASSUME Inv, NEW r \in Requests, Respond(r) \/ Disconnect(r)
  PROVE  Inv'
  <1>1. /\ OthersSame(r) /\ Typed'
        /\ pc[r] \in {"handler", "inside"} /\ pc'[r] \in {"answered", "dropped"}
        /\ request'[r] = request[r] /\ arrived'[r] = arrived[r] /\ reached'[r] = reached[r]
        /\ step'[r] = step[r]
    BY DEF Respond, Disconnect, Answer, Goto, Inv, Typed, OthersSame, Same, limiter
  <1>2. pc[r] = "inside" \/ Handler(r) # "guarded" \/ status'[r] = status[r]
    BY DEF Respond, Disconnect
  <1>3. Genuine(r)' = Genuine(r) /\ Handler(r)' = Handler(r)
    BY <1>1 DEF Genuine, Handler
  <1>4. GuardChecked(r)
    BY DEF Inv, Sound
  <1>5. GuardChecked(r)'
    BY <1>1, <1>2, <1>3, <1>4 DEF GuardChecked
  <1> QED  BY <1>1, <1>5, HandlerStepInv

LEMMA ClockInv ==
  ASSUME Inv, Tick \/ UNCHANGED vars
  PROVE  Inv'
  <1>1. /\ \A q \in Requests : Same(q)
        /\ chain' = chain /\ log' = log /\ now \in Nat /\ now' \in Nat /\ now' >= now
        /\ Typed'
    BY DEF Tick, Limiter!Tick, vars, limiter, Inv, Typed, Same
  <1>2. \A q \in Requests : Sound(q)'
    BY <1>1, SameSound DEF Inv
  <1>3. \A c : PastLimiter(c)' = PastLimiter(c)
    BY <1>1 DEF PastLimiter, Same
  <1> QED  BY <1>1, <1>2, <1>3 DEF Inv, QuotaExact

LEMMA NextInv == Inv /\ [Next]_vars => Inv'
  <1> SUFFICES ASSUME Inv, [Next]_vars PROVE Inv'
    OBVIOUS
  <1>1. ASSUME NEW r \in Requests, NEW q \in Traffic, Arrive(r, q) PROVE Inv'
    BY <1>1, ArriveInv
  <1>2. ASSUME NEW r \in Requests, Cors(r) \/ Auth(r) \/ Size(r) \/ Pass(r) PROVE Inv'
    BY <1>2, MiddlewareInv
  <1>3. ASSUME NEW r \in Requests, Rate(r) PROVE Inv'
    BY <1>3, RateInv
  <1>4. ASSUME NEW r \in Requests, CallHandler(r) PROVE Inv'
    BY <1>4, CallHandlerInv
  <1>5. ASSUME NEW r \in Requests, RequireAuth(r) PROVE Inv'
    BY <1>5, RequireAuthInv
  <1>6. ASSUME NEW r \in Requests, Respond(r) \/ Disconnect(r) PROVE Inv'
    BY <1>6, RespondInv
  <1>7. CASE Tick \/ UNCHANGED vars
    BY <1>7, ClockInv
  <1> QED  BY <1>1, <1>2, <1>3, <1>4, <1>5, <1>6, <1>7 DEF Next

\* A handler behind AuthMiddleware, or the part of one behind RequireAuth, runs
\* only for a token that was good at some moment since the request arrived.
THEOREM OnlyByTokenCorrect == Spec => []OnlyByToken
  <1>1. Inv => OnlyByToken
    BY DEF Inv, Sound, HandlerChecked, GuardChecked, OnlyByToken
  <1> QED  BY InitInv, NextInv, <1>1, PTL DEF Spec

\* A client's quota is spent by the requests that pass the limiter, once each.
THEOREM QuotaExactCorrect == Spec => []QuotaExact
  <1>1. Inv => QuotaExact
    BY DEF Inv
  <1> QED  BY InitInv, NextInv, <1>1, PTL DEF Spec

(***************************************************************************)
(* The limit behind the limiter.  That no window has more admissions than  *)
(* the limit is RateLimit's invariant, kept here because every step of     *)
(* Pipeline is one of RateLimit or leaves it alone.  As many windows as    *)
(* have begun then bound the log, and the log bounds the handlers' calls.  *)
(***************************************************************************)
Limits == INSTANCE RateLimitProofs

\* The limiter's assumptions are this module's, and its definitions are one
\* whether it is reached through Pipeline or through its own proofs.
LEMMA SameCardinality == \A S : Limits!Cardinality(S) = Limiter!Cardinality(S)
  BY DEF Limits!Cardinality, Limiter!Cardinality

LEMMA SameRetained == \A c : Limits!Retained(c) = Limiter!Retained(c)
  BY DEF Limits!Retained, Limiter!Retained, Limits!Recent, Limiter!Recent

LEMMA LimiterInit == Init => Limits!Inv
  BY Limits!InitInv, LimiterAssumption
  DEF Init, Limiter!Init, Limits!Init,
      Limits!LimitAssumption, Limits!WindowAssumption, Limits!TimeAssumption

\* A step of Pipeline is one of RateLimit or leaves the limiter alone.
LEMMA LimiterStep ==
  ASSUME Inv, [Next]_vars
  PROVE  Limits!Tick \/ (\E c \in Clients : Limits!Deny(c) \/ Limits!Admit(c))
         \/ UNCHANGED <<limiter, now>>
  <1>1. ASSUME NEW r \in Requests, Rate(r)
        PROVE  \E c \in Clients : Limits!Deny(c) \/ Limits!Admit(c)
    <2>1. request[r].key \in Clients
      BY <1>1, TrafficAssumption DEF Inv, Sound, Came, Rate, At
    <2>2. PICK c \in Clients : Limiter!Admit(c) \/ Limiter!Deny(c)
      BY <1>1, <2>1 DEF Rate
    <2>3. Limits!Cardinality(Limits!Retained(c)) = Limiter!Cardinality(Limiter!Retained(c))
          /\ Limits!Retained(c) = Limiter!Retained(c)
      BY SameCardinality, SameRetained
    <2>4. Limiter!Admit(c) => Limits!Admit(c)
      BY <2>3 DEF Limiter!Admit, Limits!Admit, Limiter!Full, Limits!Full
    <2>5. Limiter!Deny(c) => Limits!Deny(c)
      BY <2>3 DEF Limiter!Deny, Limits!Deny, Limiter!Full, Limits!Full
    <2> QED  BY <2>2, <2>4, <2>5
  <1>2. CASE Tick
    BY <1>2 DEF Tick, Limiter!Tick, Limits!Tick
  <1>3. ASSUME NEW r \in Requests, NEW q \in Traffic, Arrive(r, q) PROVE UNCHANGED <<limiter, now>>
    BY <1>3 DEF Arrive
  <1>4. ASSUME NEW r \in Requests,
               Cors(r) \/ Auth(r) \/ Size(r) \/ Pass(r) \/ CallHandler(r) \/ RequireAuth(r)
               \/ Respond(r) \/ Disconnect(r)
        PROVE UNCHANGED <<limiter, now>>
    BY <1>4 DEF Cors, Auth, Size, Pass, Decide, CallHandler, RequireAuth, Respond, Disconnect
  <1>5. CASE UNCHANGED vars
    BY <1>5 DEF vars, limiter
  <1> QED  BY <1>1, <1>2, <1>3, <1>4, <1>5 DEF Next

LEMMA LimiterInv == Inv /\ Limits!Inv /\ [Next]_vars => Limits!Inv'
  <1> SUFFICES ASSUME Inv, Limits!Inv, [Next]_vars PROVE Limits!Inv'
    OBVIOUS
  <1>1. CASE Limits!Tick \/ (\E c \in Clients : Limits!Deny(c) \/ Limits!Admit(c))
    BY <1>1, Limits!NextInv, LimiterAssumption
    DEF Limits!Next, Limits!LimitAssumption, Limits!WindowAssumption, Limits!TimeAssumption
  <1>2. CASE UNCHANGED <<limiter, now>>
    BY <1>2, Limits!NextInv, LimiterAssumption
    DEF limiter, Limits!vars, Limits!LimitAssumption, Limits!WindowAssumption, Limits!TimeAssumption
  <1> QED  BY <1>1, <1>2, LimiterStep

-----------------------------------------------------------------------------
\* A handler was called past the whole chain.
Through(r) == reached[r] => pc[r] \notin {"idle", "chain"} /\ step[r] = Len(chain) + 1

\* A client has to wait for a window after each MaxRequests of its requests.
Spaced(c) ==
    \A i \in DOMAIN log[c] : \A k \in Nat : MaxRequests * k < i => Window * k <= log[c][i]

LimitInv ==
    /\ Inv /\ Limits!Inv
    /\ \A r \in Requests : Through(r)
    /\ \A c \in Clients : Spaced(c)

LEMMA LimitInit == Init => LimitInv
  <1> SUFFICES ASSUME Init PROVE LimitInv
    OBVIOUS
  <1>1. \A r \in Requests : Through(r)
    BY DEF Init, Through
  <1>2. \A c \in Clients : DOMAIN log[c] = {}
    BY DEF Init, Limiter!Init
  <1> QED  BY <1>1, <1>2, InitInv, LimiterInit DEF LimitInv, Spaced

LEMMA ThroughStep ==
  ASSUME Inv, [Next]_vars, NEW r \in Requests, Through(r)
  PROVE  Through(r)'
  <1>0. step \in [Requests -> Nat] /\ DOMAIN pc = Requests /\ DOMAIN reached = Requests
        /\ DOMAIN status = Requests
    BY DEF Inv, Typed
  <1>1. ASSUME NEW s \in Requests, NEW q \in Traffic, Arrive(s, q) PROVE Through(r)'
    BY <1>0, <1>1 DEF Arrive, Answer, Goto, Through
  <1>2. ASSUME NEW s \in Requests, Cors(s) \/ Auth(s) \/ Size(s) \/ Pass(s) PROVE Through(r)'
    <2>1. /\ pc[s] = "chain" /\ UNCHANGED <<chain, reached>>
          /\ \/ Continue(s) /\ UNCHANGED pc
             \/ Goto(s, "answered") /\ UNCHANGED step
      BY <1>2 DEF Cors, Auth, Size, Pass, At, Decide, ShortCircuit, Answer
    <2> QED  BY <1>0, <2>1 DEF Continue, Goto, Through
  <1>3. ASSUME NEW s \in Requests, Rate(s) PROVE Through(r)'
    <2>1. /\ pc[s] = "chain" /\ UNCHANGED <<chain, reached>>
          /\ \/ Continue(s) /\ UNCHANGED pc
             \/ Goto(s, "answered") /\ UNCHANGED step
      BY <1>3 DEF Rate, At, ShortCircuit, Answer
    <2> QED  BY <1>0, <2>1 DEF Continue, Goto, Through
  <1>4. ASSUME NEW s \in Requests, CallHandler(s) PROVE Through(r)'
    BY <1>0, <1>4 DEF CallHandler, Goto, Through
  <1>5. ASSUME NEW s \in Requests, RequireAuth(s) \/ Respond(s) \/ Disconnect(s) PROVE Through(r)'
    BY <1>0, <1>5 DEF RequireAuth, Respond, Disconnect, Answer, Goto, Through
  <1>6. CASE Tick \/ UNCHANGED vars
    BY <1>6 DEF Tick, vars, Through
  <1> QED  BY <1>1, <1>2, <1>3, <1>4, <1>5, <1>6 DEF Next

LEMMA OneMore ==
  ASSUME NEW a \in Nat, NEW k \in Nat
  PROVE  a * (k + 1) = a * k + a /\ a * k \in Nat
  OBVIOUS

\* The newest request of a log came a window after the one MaxRequests before.
LEMMA SpacedStep ==
  ASSUME NEW c \in Clients, Spaced(c), Limits!Inv, Limits!Inv',
         NEW n \in Nat, DOMAIN log[c] = 1..n,
         DOMAIN log'[c] = 1..(n + 1), \A i \in 1..n : log'[c][i] = log[c][i]
  PROVE  Spaced(c)'
  <1>1. /\ \A i \in 1..(n + 1) : log'[c][i] \in Nat
        /\ \A i \in 1..(n + 1) : i + MaxRequests \in 1..(n + 1) =>
              log'[c][i + MaxRequests] - log'[c][i] >= Window
    <2>1. log'[c] \in Seq(Nat) /\ Limits!Bound(c)'
      BY DEF Limits!Inv, Limits!TypeOK
    <2>2. \A i \in 1..(n + 1) : log'[c][i] \in Nat
      BY <2>1
    <2> QED  BY <2>1, <2>2 DEF Limits!Bound
  <1>2. MaxRequests > 0
    <2>1. 1 \in 1..(n + 1) /\ MaxRequests \in Nat /\ Window \in Nat \ {0}
      BY LimiterAssumption
    <2>2. SUFFICES ASSUME MaxRequests = 0 PROVE FALSE
      BY <2>1
    <2>3. log'[c][1] - log'[c][1] >= Window
      <3>1. 1 + MaxRequests = 1
        BY <2>2
      <3> QED  BY <1>1, <2>1, <3>1
    <2>4. PICK t \in Nat : t = log'[c][1]
      BY <1>1, <2>1
    <2> QED  BY <2>1, <2>3, <2>4
  <1>3. ASSUME NEW k \in Nat, MaxRequests * k < n + 1 PROVE Window * k <= log'[c][n + 1]
    <2>1. CASE k = 0
      BY <1>1, <2>1, LimiterAssumption
    <2>2. CASE k # 0
      <3> DEFINE j == n + 1 - MaxRequests
      <3>1. PICK l \in Nat : k = l + 1
        BY <2>2
      <3>2. /\ MaxRequests * k = MaxRequests * l + MaxRequests /\ MaxRequests * l \in Nat
            /\ Window * k = Window * l + Window /\ Window * l \in Nat
        BY <3>1, OneMore, LimiterAssumption
      <3>3. j \in 1..n /\ MaxRequests * l < j
        BY <1>2, <1>3, <3>2, LimiterAssumption
      <3>4. Window * l <= log[c][j]
        BY <3>1, <3>3 DEF Spaced
      <3>5. log'[c][n + 1] - log'[c][j] >= Window /\ log'[c][j] = log[c][j]
        <4>1. j + MaxRequests = n + 1 /\ j \in 1..(n + 1)
          BY <3>3, LimiterAssumption
        <4> QED  BY <1>1, <3>3, <4>1
      <3>6. log'[c][n + 1] \in Nat /\ log'[c][j] \in Nat
        BY <1>1, <3>3
      <3>7. PICK new, old, sum, all \in Nat :
                /\ new = log'[c][n + 1] /\ old = log'[c][j]
                /\ sum = Window * l /\ all = Window * k
        BY <3>2, <3>6, LimiterAssumption
      <3>8. sum <= old /\ new - old >= Window /\ all = sum + Window
        BY <3>2, <3>4, <3>5, <3>7
      <3>9. all <= new
        BY <3>8, LimiterAssumption
      <3> QED  BY <3>7, <3>9
    <2> QED  BY <2>1, <2>2
  <1>4. \A i \in 1..n : \A k \in Nat : MaxRequests * k < i => Window * k <= log'[c][i]
    BY DEF Spaced
  <1> QED  BY <1>3, <1>4 DEF Spaced

LEMMA LimitNext == LimitInv /\ [Next]_vars => LimitInv'
  <1> SUFFICES ASSUME LimitInv, [Next]_vars PROVE LimitInv'
    OBVIOUS
  <1>1. Inv' /\ Limits!Inv'
    BY NextInv, LimiterInv DEF LimitInv
  <1>2. \A r \in Requests : Through(r)'
    BY ThroughStep DEF LimitInv
  <1>3. ASSUME NEW c \in Clients PROVE Spaced(c)'
    <2>0. log \in [Clients -> Seq(Nat)] /\ now \in Nat /\ Spaced(c)
      BY DEF LimitInv, Inv, Typed
    <2>1. CASE log'[c] = log[c]
      BY <2>0, <2>1 DEF Spaced
    <2>2. CASE log'[c] # log[c]
      <3>1. log' = [log EXCEPT ![c] = Append(@, now)]
        <4>1. ~ (Limits!Tick \/ UNCHANGED <<limiter, now>>)
          BY <2>2 DEF Limits!Tick, limiter
        <4>2. PICK d \in Clients : Limits!Deny(d) \/ Limits!Admit(d)
          BY <4>1, LimiterStep DEF LimitInv
        <4> QED  BY <2>0, <2>2, <4>2 DEF Limits!Deny, Limits!Admit
      <3>2. PICK n \in Nat : n = Len(log[c])
        BY <2>0
      <3>3. /\ DOMAIN log[c] = 1..n /\ DOMAIN log'[c] = 1..(n + 1)
            /\ \A i \in 1..n : log'[c][i] = log[c][i]
        BY <2>0, <3>1, <3>2
      <3> QED  BY <1>1, <2>0, <3>3, SpacedStep DEF LimitInv
    <2> QED  BY <2>1, <2>2
  <1> QED  BY <1>1, <1>2, <1>3 DEF LimitInv

LEMMA Division ==
  ASSUME NEW a \in Nat, NEW w \in Nat \ {0}
  PROVE  a \div w \in Nat /\ a < w * (a \div w + 1)
  OBVIOUS

\* A log has no more requests than the windows that have begun allow.
LEMMA LogBound ==
  ASSUME LimitInv, NEW c \in Clients
  PROVE  Len(log[c]) <= MaxRequests * (now \div Window + 1)
  <1>1. log[c] \in Seq(Nat) /\ now \in Nat
    BY DEF LimitInv, Inv, Typed
  <1>2. PICK n \in Nat : n = Len(log[c])
    BY <1>1
  <1>3. PICK k \in Nat : k = now \div Window + 1 /\ now < Window * k
    <2>1. now \div Window \in Nat /\ now < Window * (now \div Window + 1)
      BY <1>1, Division, LimiterAssumption
    <2>2. now \div Window + 1 \in Nat
      BY <2>1
    <2> QED  BY <2>1, <2>2
  <1>4. Window * k \in Nat /\ MaxRequests * k \in Nat
    BY OneMore, LimiterAssumption
  <1>5. SUFFICES ASSUME MaxRequests * k < n PROVE FALSE
    BY <1>2, <1>3, <1>4
  <1>6. n \in DOMAIN log[c] /\ log[c][n] \in Nat
    BY <1>1, <1>2, <1>4, <1>5
  <1>7. Window * k <= log[c][n]
    BY <1>5, <1>6 DEF LimitInv, Spaced
  <1>8. log[c][n] <= now
    BY <1>6 DEF LimitInv, Limits!Inv, Limits!Ordered
  <1> QED  BY <1>1, <1>3, <1>4, <1>6, <1>7, <1>8

LEMMA HandledPast ==
  ASSUME LimitInv, NEW c \in Clients, Contains(chain, "rate")
  PROVE  Cardinality(Handled(c)) <= Len(log[c])
  <1>1. ASSUME NEW r \in Handled(c) PROVE r \in PastLimiter(c)
    <2>1. r \in Requests /\ pc[r] # "idle" /\ step[r] = Len(chain) + 1 /\ request[r].key = c
      BY <1>1 DEF Handled, LimitInv, Through
    <2>2. PICK i \in DOMAIN chain : chain[i] = "rate"
      BY DEF Contains
    <2>3. i < step[r]
      BY <2>1, <2>2, ChainTyped DEF LimitInv, Inv
    <2> QED  BY <2>1, <2>2, <2>3 DEF PastLimiter
  <1>2. Handled(c) \subseteq PastLimiter(c)
    BY <1>1
  <1>3. Cardinality(Handled(c)) <= Cardinality(PastLimiter(c))
    BY <1>2, PastLimiterFinite, FS_Subset
  <1> QED  BY <1>3 DEF LimitInv, Inv, QuotaExact

\* Behind the limiter, no window of the clock that has begun accounts for more
\* than MaxRequests calls of handlers of one client.
THEOREM EndToEndLimitCorrect == Spec => []EndToEndLimit
  <1>1. ASSUME LimitInv, NEW c \in Clients, Contains(chain, "rate")
        PROVE  Cardinality(Handled(c)) <= MaxRequests * (now \div Window + 1)
    <2>1. PICK n \in Nat : n = Len(log[c])
      BY <1>1 DEF LimitInv, Inv, Typed
    <2>2. Cardinality(Handled(c)) \in Nat
      <3>1. Handled(c) \subseteq Requests
        BY DEF Handled
      <3> QED  BY <3>1, RequestsAssumption, FS_Subset, FS_CardinalityType
    <2>3. PICK m \in Int : m = MaxRequests * (now \div Window + 1)
      <3>1. now \div Window \in Nat
        BY <1>1, Division, LimiterAssumption DEF LimitInv, Inv, Typed
      <3> QED  BY <3>1, LimiterAssumption
    <2> QED  BY <1>1, <2>1, <2>2, <2>3, LogBound, HandledPast
  <1>2. LimitInv => EndToEndLimit
    BY <1>1 DEF EndToEndLimit
  <1> QED  BY LimitInit, LimitNext, <1>2, PTL DEF Spec
=============================================================================
