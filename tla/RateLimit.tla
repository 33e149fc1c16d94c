------------------------------ MODULE RateLimit ------------------------------
(***************************************************************************)
(* RateLimitMiddleware of src/src/server.rs: per client key, a vector of   *)
(* the instants of the admitted requests inside a sliding window.  The     *)
(* write guard on the map of clients is held across check_and_record, and  *)
(* the clock is read under it, so one request is one action.               *)
(*                                                                         *)
(* The vector is a set of positions in the log of all requests the client  *)
(* was ever admitted with, which is a history variable of the model.       *)
(***************************************************************************)
EXTENDS Integers, Sequences, FiniteSets

CONSTANTS Clients,      \* client keys
          MaxRequests,  \* RateLimitMiddleware.max_requests
          Window,       \* RateLimitMiddleware.window, in ticks of the clock
          MaxTime       \* bound: the last instant the clock shows

ASSUME LimitAssumption == MaxRequests \in Nat
ASSUME WindowAssumption == Window \in Nat
ASSUME TimeAssumption == MaxTime \in Nat

VARIABLES log,       \* per client: the instants of its admitted requests
          kept,      \* per client: the positions of the log in `requests`
          deniedAt,  \* per client: when it was last denied, -1 if never
          now        \* Instant::now()

vars == <<log, kept, deniedAt, now>>

TypeOK ==
    /\ log \in [Clients -> Seq(Nat)]
    /\ kept \in [Clients -> SUBSET Nat]
    /\ \A c \in Clients : kept[c] \subseteq DOMAIN log[c]
    /\ deniedAt \in [Clients -> Int]
    /\ now \in Nat

Init ==
    /\ log = [c \in Clients |-> <<>>]
    /\ kept = [c \in Clients |-> {}]
    /\ deniedAt = [c \in Clients |-> -1]
    /\ now = 0

\* Seeded faults: a cutoff half a window back (WindowBound), and entries of
\* exactly one window ago that stay (RetryAfterHonest).
RecentShort(time, at) == time > at - (Window \div 2)
RecentInclusive(time, at) == time >= at - Window

\* requests.retain(|&time| time > cutoff), cutoff = now - window.
Recent(time, at) == time > at - Window

Retained(c) == {i \in kept[c] : Recent(log[c][i], now)}

\* Seeded fault for DeniedOnlyWhenFull: the request itself is counted too.
FullEarly(n) == n + 1 >= MaxRequests

Full(n) == n >= MaxRequests

\* A denied request is not recorded, but the vector has been pruned.
Deny(c) ==
    /\ Full(Cardinality(Retained(c)))
    /\ kept' = [kept EXCEPT ![c] = Retained(c)]
    /\ deniedAt' = [deniedAt EXCEPT ![c] = now]
    /\ UNCHANGED <<log, now>>

Admit(c) ==
    /\ ~Full(Cardinality(Retained(c)))
    /\ log' = [log EXCEPT ![c] = Append(@, now)]
    /\ kept' = [kept EXCEPT ![c] = Retained(c) \union {Len(log[c]) + 1}]
    /\ UNCHANGED <<deniedAt, now>>

Tick == now < MaxTime /\ now' = now + 1 /\ UNCHANGED <<log, kept, deniedAt>>

Next == Tick \/ \E c \in Clients : Deny(c) \/ Admit(c)

Spec == Init /\ [][Next]_vars

-----------------------------------------------------------------------------
\* However requests and time interleave, no window of the clock contains more
\* than MaxRequests admitted requests of one client: the request MaxRequests
\* places further in its log came at least a window later.
WindowBound ==
    \A c \in Clients : \A i \in DOMAIN log[c] :
        i + MaxRequests \in DOMAIN log[c] => log[c][i + MaxRequests] - log[c][i] >= Window

\* Nobody is denied who has not used up the limit: a denial at `now` needs
\* MaxRequests admitted requests of that client in the last window.
InLastWindow(c) == {i \in DOMAIN log[c] : now - log[c][i] < Window}

DeniedOnlyWhenFull ==
    [][\A c \in Clients : Deny(c) => Cardinality(InLastWindow(c)) >= MaxRequests]_vars

\* The Retry-After header of a 429 is honest: a client that stays away for
\* the whole window after a denial is admitted, denied requests having left
\* no trace.
RetryAfterHonest ==
    [][\A c \in Clients :
          Deny(c) /\ MaxRequests > 0 /\ deniedAt[c] >= 0 /\ now >= deniedAt[c] + Window =>
              \E i \in DOMAIN log[c] : log[c][i] > deniedAt[c]]_vars
=============================================================================
