------------------------------ MODULE Metrics ------------------------------
(***************************************************************************)
(* MetricsCollector of src/src/api.rs: with_metrics calls record_request   *)
(* after a handler, metrics_handler calls get_metrics and                  *)
(* reset_metrics_handler calls reset, all on the threads of the server.    *)
(*                                                                         *)
(* The four counters are atomics with Relaxed ordering: nothing orders two *)
(* of them, so a call may perform its operations on them in any order.     *)
(* The mutex of the list at the end of each call does: they have all       *)
(* happened when it is released, which is the step on the list here.       *)
(***************************************************************************)
EXTENDS Integers, FiniteSetsExt

CONSTANTS Recorders,  \* calls of record_request
          Readers,    \* calls of get_metrics
          Resetters,  \* calls of reset
          Counters,   \* the atomics: an instance may leave some out, since
                      \* the operations on one depend on no other
          Statuses,   \* status codes that handlers answer
          Times,      \* how many milliseconds they take
          Minute,     \* the 60 seconds of the list, in ticks of the clock
          MaxTime     \* bound: the last instant the clock shows

ASSUME CallsAssumption == /\ Recorders \intersect (Readers \union Resetters) = {}
                          /\ Readers \intersect Resetters = {}
ASSUME CountersAssumption == Counters \subseteq {"total", "success", "error", "sum_ms"}
ASSUME ValuesAssumption == Statuses \subseteq Nat /\ Times \subseteq Nat
ASSUME TimeAssumption == Minute \in Nat /\ MaxTime \in Nat

VARIABLES counter,  \* the atomics, by name
          list,     \* last_minute_requests: who recorded, and the instant
          pc,       \* where each call is
          todo,     \* the counters it has still to touch
          request,  \* per recorder: the status and time it records
          instant,  \* per recorder: the `now` it has read
          snapshot, \* per reader: what it has read
          before,   \* history, per reader and resetter: the calls that had
                    \* returned when it began
          met,      \* ... and the calls it overlapped
          now       \* Instant::now()

vars == <<counter, list, pc, todo, request, instant, snapshot, before, met, now>>

history == <<before, met>>

Calls == Recorders \union Readers \union Resetters
Observers == Readers \union Resetters

Nothing == [status |-> 0, ms |-> 0]

Init ==
    /\ counter = [f \in Counters |-> 0]
    /\ list = {}
    /\ pc = [c \in Calls |-> "idle"]
    /\ todo = [c \in Calls |-> {}]
    /\ request = [r \in Recorders |-> Nothing]
    /\ instant = [r \in Recorders |-> 0]
    /\ snapshot = [m \in Readers |-> [f \in Counters \union {"listed", "at"} |-> 0]]
    /\ before = [c \in Observers |-> {}]
    /\ met = [c \in Observers |-> {}]
    /\ now = 0

Returned == {c \in Calls : pc[c] = "done"}
Running == {c \in Calls : pc[c] \in {"atomics", "list", "push"}}

Goto(c, place) == pc' = [pc EXCEPT ![c] = place]

Begin(c, fields) ==
    /\ pc[c] = "idle"
    /\ Goto(c, IF fields = {} THEN "list" ELSE "atomics")
    /\ todo' = [todo EXCEPT ![c] = fields]
    /\ before' = [o \in Observers |-> IF o = c THEN Returned ELSE before[o]]
    /\ met' = [o \in Observers |-> IF o = c THEN Running
                                   ELSE IF o \in Running THEN met[o] \union {c} ELSE met[o]]
    /\ UNCHANGED <<counter, list, instant, snapshot, now>>

\* One relaxed operation; the call may go on to the list after the last one.
Touch(c, f) ==
    /\ f \in todo[c]
    /\ todo' = [todo EXCEPT ![c] = @ \ {f}]
    /\ Goto(c, IF todo[c] = {f} THEN "list" ELSE "atomics")
    /\ UNCHANGED <<list, request, history, now>>

(***************************************************************************)
(* record_request                                                          *)
(***************************************************************************)
Bucket(status) == IF status < 400 THEN "success" ELSE "error"

\* What a request adds to a counter.
Added(q, f) ==
    IF f = "sum_ms" THEN q.ms ELSE IF f \in {"total", Bucket(q.status)} THEN 1 ELSE 0

\* with_metrics has awaited the handler: its status and time are known.
BeginRecord(r) ==
    \E status \in Statuses, ms \in Times :
        /\ request' = [request EXCEPT ![r] = [status |-> status, ms |-> ms]]
        /\ Begin(r, Counters \intersect {"total", "sum_ms", Bucket(status)})

FetchAdd(r, f) ==
    /\ Touch(r, f)
    /\ counter' = [counter EXCEPT ![f] = @ + Added(request[r], f)]
    /\ UNCHANGED <<instant, snapshot>>

\* The instant is read before the lock is taken, and may be old when it is.
ReadClock(r) ==
    /\ pc[r] = "list"
    /\ instant' = [instant EXCEPT ![r] = now]
    /\ Goto(r, "push")
    /\ UNCHANGED <<counter, list, todo, request, snapshot, history, now>>

\* Seeded fault for LastMinuteComplete: the last tick of the minute is cut off.
RecentShort(at, cutoff) == at > cutoff + 1

\* requests.retain(|&time| time > one_minute_ago)
Recent(at, cutoff) == at > cutoff

Push(r) ==
    /\ pc[r] = "push"
    /\ list' = {e \in list \union {[by |-> r, at |-> instant[r]]} :
                  Recent(e.at, instant[r] - Minute)}
    /\ Goto(r, "done")
    /\ UNCHANGED <<counter, todo, request, instant, snapshot, history, now>>

(***************************************************************************)
(* get_metrics and reset                                                   *)
(***************************************************************************)
BeginRead(m) == Begin(m, Counters) /\ UNCHANGED request

Load(m, f) ==
    /\ Touch(m, f)
    /\ snapshot' = [snapshot EXCEPT ![m][f] = counter[f]]
    /\ UNCHANGED <<counter, instant>>

\* requests.len(): the list is not pruned first.
CountList(m) ==
    /\ pc[m] = "list"
    /\ snapshot' = [snapshot EXCEPT ![m].listed = Cardinality(list), ![m].at = now]
    /\ Goto(m, "done")
    /\ UNCHANGED <<counter, list, todo, request, instant, history, now>>

\* Seeded fault for SnapshotExplained: reset forgets one of the counters.
ClearedButErrors == Counters \ {"error"}

\* The counters that reset stores zero to.
Cleared == Counters

BeginReset(z) == Begin(z, Cleared) /\ UNCHANGED request

StoreZero(z, f) ==
    /\ Touch(z, f)
    /\ counter' = [counter EXCEPT ![f] = 0]
    /\ UNCHANGED <<instant, snapshot>>

ClearList(z) ==
    /\ pc[z] = "list"
    /\ list' = {}
    /\ Goto(z, "done")
    /\ UNCHANGED <<counter, todo, request, instant, snapshot, history, now>>

Tick ==
    /\ now < MaxTime
    /\ now' = now + 1
    /\ UNCHANGED <<counter, list, pc, todo, request, instant, snapshot, history>>

-----------------------------------------------------------------------------
Next ==
    \/ \E r \in Recorders :
          \/ BeginRecord(r) \/ ReadClock(r) \/ Push(r)
          \/ \E f \in Counters : FetchAdd(r, f)
    \/ \E m \in Readers :
          BeginRead(m) \/ CountList(m) \/ \E f \in Counters : Load(m, f)
    \/ \E z \in Resetters :
          BeginReset(z) \/ ClearList(z) \/ \E f \in Counters : StoreZero(z, f)
    \/ Tick

Spec == Init /\ [][Next]_vars

-----------------------------------------------------------------------------
\* Requests a snapshot must count: they were recorded before it began, and
\* after every reset that it overlaps or follows.
MustCount(m) ==
    {r \in Recorders \intersect before[m] :
        \A z \in Resetters \intersect (before[m] \union met[m]) :
            r \notin before[z] \union met[z]}

\* Requests it may count: they were not all recorded before a reset that had
\* returned when it began.
MayCount(m) ==
    {r \in Recorders \intersect (before[m] \union met[m]) :
        \A z \in Resetters \intersect before[m] : r \notin before[z]}

TotalOf(R, f) == MapThenSumSet(LAMBDA r : Added(request[r], f), R)

\* Although neither get_metrics nor reset is atomic, every number of a
\* snapshot, on its own, is explained by the calls it overlapped: it lacks no
\* request recorded before it and has none that a completed reset forgot.
\* When nothing overlaps, requests_total is therefore requests_success plus
\* requests_error, and they differ by at most the requests in flight.
SnapshotExplained ==
    \A m \in Readers : pc[m] = "done" => \A f \in Counters :
        /\ TotalOf(MustCount(m), f) <= snapshot[m][f]
        /\ snapshot[m][f] <= TotalOf(MayCount(m), f)

\* The rate is computed from a list that holds every request of the last
\* minute, though each caller prunes it with a clock it read before it had
\* the lock.  (It may hold older ones: nobody prunes when nobody records.)
LastMinuteComplete ==
    \A m \in Readers : pc[m] = "done" =>
        Cardinality({r \in MustCount(m) : instant[r] > snapshot[m].at - Minute})
            <= snapshot[m].listed
=============================================================================
