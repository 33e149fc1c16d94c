------------------------------ MODULE TaskQueue ------------------------------
(***************************************************************************)
(* The Redis-backed task queue of src/src/tasks.rs: TaskRunner::enqueue    *)
(* and schedule called by clients, the worker loops, the delayed task      *)
(* processor and get_queue_stats.  Every `.await` on the runner's mutex or *)
(* on a Redis command ends an action, because other tokio tasks, and other *)
(* processes that share the Redis server, may run there.                   *)
(*                                                                         *)
(* A process owns one connection behind one fair mutex (tokio::sync::Mutex *)
(* grants in FIFO order).  A command either is answered, is refused        *)
(* without effect, or takes effect while its reply is lost with the        *)
(* connection, which the code never re-establishes (redis_conn is set once *)
(* in TaskRunner::new).                                                    *)
(***************************************************************************)
EXTENDS Integers, SequencesExt

CONSTANTS Tasks,       \* payloads; the JSON text of a task identifies it
          Fallible,    \* the tasks whose Task::execute may return Err
          Procs,       \* processes that run a TaskRunner on the same server
          Clients,     \* callers of enqueue and schedule
          Workers,     \* worker_loop instances
          Pollers,     \* start_delayed_task_processor loops
          Monitors,    \* callers of get_queue_stats
          Home,        \* the process of each actor
          MaxRetries,  \* TaskRunner.max_retries
          Delays,      \* delays, in seconds, that clients pass to schedule
          MaxSubmits,  \* bound: submissions of one payload
          MaxFaults,   \* bound: commands that fail on a live connection
          MaxCrashes   \* bound: process crashes, each followed by a restart

Actors == Clients \union Workers \union Pollers \union Monitors

ASSUME KindsAssumption ==
    /\ Clients \intersect (Workers \union Pollers \union Monitors) = {}
    /\ Workers \intersect (Pollers \union Monitors) = {}
    /\ Pollers \intersect Monitors = {}
ASSUME HomeAssumption == Home \in [Actors -> Procs]
ASSUME RetryAssumption == MaxRetries \in Nat
\* Every backoff of the schedule is a number of seconds.
ASSUME BackoffAssumption == \A k \in 0..MaxRetries : 2^k \in Nat
ASSUME DelayAssumption == Delays \subseteq Nat
ASSUME FaultAssumption == MaxFaults \in Nat
ASSUME CrashAssumption == MaxCrashes \in Nat
ASSUME TasksAssumption == Fallible \subseteq Tasks

VARIABLES pending,     \* list lime:tasks, oldest first (LPUSH appends)
          delayed,     \* sorted set lime:tasks:delayed
          dead,        \* list lime:tasks:dead
          lockq,       \* per process: the mutex holder, then its waiters
          pc,          \* where each actor is
          hand,        \* the jobs an actor keeps in local variables
          toRemove,    \* a poller's due jobs it still has to ZREM
          stamp,       \* the score a ZADD will write / the poller's `now`
          stats,       \* what get_queue_stats has read so far
          conn,        \* per process: the connection works
          now,         \* Utc::now().timestamp(), in seconds
          faults, crashes,          \* how many went wrong so far
          submitted, runs, done,    \* history: calls, runs that ended, those with Ok
          merged,                   \* history: ZADDs of a member already there
          doubled                   \* history: ZREMs of a member already gone

redis   == <<pending, delayed, dead>>
local   == <<lockq, pc, hand, toRemove, stamp, stats>>
net     == <<conn, faults>>
history == <<submitted, runs, done, merged, doubled>>
vars    == <<redis, local, net, history, now, crashes>>

(***************************************************************************)
(* Payloads.  A failed run inserts retry_count and retry_at into the task. *)
(* retry_at has a finer clock than the scores; `run`, the number of runs   *)
(* the task had, stands for the part below the second: it makes the JSON   *)
(* of two failures of one task differ even within one second.              *)
(***************************************************************************)
Jobs == [task : Tasks, retry : 0..MaxRetries, at : Nat, run : Nat]

Fresh(t) == [task |-> t, retry |-> 0, at |-> 0, run |-> 0]

\* Seeded fault for TypeOK and AttemptsBounded: one attempt too many.
CanRetryOnceMore(j) == j.retry <= MaxRetries

\* Seeded fault for ImplementsLedger: one attempt too few.
CanRetryOnceLess(j) == j.retry + 1 < MaxRetries

CanRetry(j) == j.retry < MaxRetries

Retried(j) == [j EXCEPT !.retry = @ + 1, !.at = now, !.run = runs[j.task] + 1]

\* Seeded fault for BackoffRespected: the delay grows linearly from zero.
BackoffLinear(j) == j.retry

Backoff(j) == 2^j.retry

Entries == [job : Jobs, score : Nat]

\* Seeded fault for EveryTaskSettles: the comparison is the wrong way round.
DueSwapped(e, time) == e.score > time

Due(e, time) == e.score <= time

PCs == {"idle", "lpush", "zadd", "brpop", "run", "bury",
        "zrange", "zrem", "repush", "llen", "zcard", "ldead"}

NoStats == [pending |-> 0, delayed |-> 0]

RedisOK == /\ pending \in Seq(Jobs)
           /\ delayed \subseteq Entries
           /\ dead \in Seq(Jobs)

LocalOK == /\ lockq \in [Procs -> Seq(Actors)]
           /\ pc \in [Actors -> PCs]
           /\ hand \in [Actors -> Seq(Jobs)]
           /\ toRemove \in [Actors -> Seq(Jobs)]
           /\ stamp \in [Actors -> Nat]
           /\ stats \in [Actors -> [pending : Nat, delayed : Nat]]

NetOK == /\ conn \in [Procs -> BOOLEAN]
         /\ faults \in 0..MaxFaults
         /\ crashes \in 0..MaxCrashes

HistoryOK == /\ submitted \in [Tasks -> Nat]
             /\ runs \in [Tasks -> Nat]
             /\ done \in [Tasks -> Nat]
             /\ merged \in [Tasks -> Nat]
             /\ doubled \in [Tasks -> Nat]

\* Every payload in the lists, the sorted set and in the actors' variables is
\* one enqueue or handle_failed_task can have written: in particular its
\* retry_count never passes max_retries.
TypeOK == RedisOK /\ LocalOK /\ NetOK /\ HistoryOK /\ now \in Nat

Init ==
    /\ pending = <<>> /\ delayed = {} /\ dead = <<>>
    /\ lockq = [p \in Procs |-> <<>>]
    /\ pc = [a \in Actors |-> "idle"]
    /\ hand = [a \in Actors |-> <<>>]
    /\ toRemove = [a \in Actors |-> <<>>]
    /\ stamp = [a \in Actors |-> 0]
    /\ stats = [a \in Actors |-> NoStats]
    /\ conn = [p \in Procs |-> TRUE]
    /\ now = 0 /\ faults = 0 /\ crashes = 0
    /\ submitted = [t \in Tasks |-> 0]
    /\ runs = [t \in Tasks |-> 0]
    /\ done = [t \in Tasks |-> 0]
    /\ merged = [t \in Tasks |-> 0]
    /\ doubled = [t \in Tasks |-> 0]

(***************************************************************************)
(* The mutex and the commands.                                             *)
(***************************************************************************)
\* Seeded fault for StatsAtomic: a guard that does not exclude anyone.
HoldsShared(a) == a \in Range(lockq[Home[a]])

Holds(a) == lockq[Home[a]] # <<>> /\ Head(lockq[Home[a]]) = a

\* Ask for the lock and wait at the command `at`.
Request(a, at) ==
    /\ lockq' = [lockq EXCEPT ![Home[a]] = Append(@, a)]
    /\ pc' = [pc EXCEPT ![a] = at]

Unlock(a) == lockq' = [lockq EXCEPT ![Home[a]] = Tail(@)]

\* Return from the function: the guard and the local variables are dropped.
Finish(a) ==
    /\ Unlock(a)
    /\ pc' = [pc EXCEPT ![a] = "idle"]
    /\ hand' = [hand EXCEPT ![a] = <<>>]
    /\ toRemove' = [toRemove EXCEPT ![a] = <<>>]
    /\ stamp' = [stamp EXCEPT ![a] = 0]
    /\ stats' = [stats EXCEPT ![a] = NoStats]

At(a, command) == pc[a] = command /\ Holds(a)

\* The server applied the command and the caller got the answer.
Answered(a) == conn[Home[a]] /\ UNCHANGED net

\* The server applied the command; the reply was lost with the connection.
ReplyLost(a) ==
    /\ conn[Home[a]] /\ faults < MaxFaults
    /\ faults' = faults + 1
    /\ conn' = [conn EXCEPT ![Home[a]] = FALSE]

\* Err without effect: an error reply, a connection that breaks, or one
\* that broke before.
Refused(a) ==
    \/ ~conn[Home[a]] /\ UNCHANGED net
    \/ /\ conn[Home[a]] /\ faults < MaxFaults
       /\ faults' = faults + 1
       /\ conn' \in {conn, [conn EXCEPT ![Home[a]] = FALSE]}

Applied(a) == Answered(a) \/ ReplyLost(a)

(***************************************************************************)
(* Clients: enqueue and schedule.                                          *)
(***************************************************************************)
MaySubmit(c, t) == pc[c] = "idle" /\ submitted[t] < MaxSubmits

Submit(c, t) ==
    /\ hand' = [hand EXCEPT ![c] = <<Fresh(t)>>]
    /\ submitted' = [submitted EXCEPT ![t] = @ + 1]
    /\ UNCHANGED <<toRemove, stats, redis, net, runs, done, merged, doubled, now, crashes>>

Enqueue(c, t) ==
    /\ MaySubmit(c, t)
    /\ Submit(c, t)
    /\ Request(c, "lpush")
    /\ UNCHANGED stamp

\* The score is computed before the lock is requested.
Schedule(c, t, d) ==
    /\ MaySubmit(c, t)
    /\ Submit(c, t)
    /\ stamp' = [stamp EXCEPT ![c] = now + d]
    /\ Request(c, "zadd")

LPush(c) ==
    /\ At(c, "lpush")
    /\ \/ Applied(c) /\ pending' = Append(pending, Head(hand[c]))
       \/ Refused(c) /\ UNCHANGED pending
    /\ Finish(c)
    /\ UNCHANGED <<delayed, dead, history, now, crashes>>

\* ZADD of a member already present only changes its score.
Scored(j, score) == {e \in delayed : e.job # j} \union {[job |-> j, score |-> score]}

Merges(j) == IF \E e \in delayed : e.job = j THEN 1 ELSE 0

\* Reached from a client's schedule and from a worker's handle_failed_task.
ZAdd(a) ==
    /\ At(a, "zadd")
    /\ LET j == Head(hand[a])
       IN \/ /\ Applied(a)
             /\ delayed' = Scored(j, stamp[a])
             /\ merged' = [merged EXCEPT ![j.task] = @ + Merges(j)]
          \/ Refused(a) /\ UNCHANGED <<delayed, merged>>
    /\ Finish(a)
    /\ UNCHANGED <<pending, dead, submitted, runs, done, doubled, now, crashes>>

(***************************************************************************)
(* Workers: worker_loop, process_next_task, handle_failed_task,            *)
(* move_to_dead_letter_queue.                                              *)
(***************************************************************************)
RequestPop(w) ==
    /\ pc[w] = "idle"
    /\ Request(w, "brpop")
    /\ UNCHANGED <<hand, toRemove, stamp, stats, redis, net, history, now, crashes>>

\* BRPOP delivers the oldest job; the guard is dropped before it runs.
Pop(w) ==
    /\ At(w, "brpop")
    /\ pending # <<>>
    /\ pending' = Tail(pending)
    /\ \/ /\ Answered(w)
          /\ Unlock(w)
          /\ pc' = [pc EXCEPT ![w] = "run"]
          /\ hand' = [hand EXCEPT ![w] = <<Head(pending)>>]
          /\ UNCHANGED <<toRemove, stamp, stats>>
       \/ ReplyLost(w) /\ Finish(w)
    /\ UNCHANGED <<delayed, dead, history, now, crashes>>

\* Seeded fault for LockGranted: BRPOP with timeout 0.
NeverTimesOut(w) == FALSE

\* BRPOP blocks for at most one second on an empty list.
TimesOut(w) == pending = <<>> /\ Answered(w)

PopNothing(w) ==
    /\ At(w, "brpop")
    /\ TimesOut(w) \/ Refused(w)
    /\ Finish(w)
    /\ UNCHANGED <<redis, history, now, crashes>>

\* execute_task_json ended Ok: a handler ran to its end, or none was found for
\* the task's type or payload, which ends the job as well.
RunOk(w) ==
    /\ pc[w] = "run"
    /\ LET t == Head(hand[w]).task
       IN /\ runs' = [runs EXCEPT ![t] = @ + 1]
          /\ done' = [done EXCEPT ![t] = @ + 1]
    /\ pc' = [pc EXCEPT ![w] = "idle"]
    /\ hand' = [hand EXCEPT ![w] = <<>>]
    /\ UNCHANGED <<lockq, toRemove, stamp, stats, redis, net, submitted, merged, doubled, now, crashes>>

\* A handler returned Err.  The built-in ones do not, but EmailTask::execute has
\* its `mailer.send(&email)?` in a comment; the code for what follows is there.
RunFails(w) ==
    /\ pc[w] = "run"
    /\ LET j == Head(hand[w])
       IN /\ j.task \in Fallible
          /\ runs' = [runs EXCEPT ![j.task] = @ + 1]
          /\ \/ /\ CanRetry(j)
                /\ hand' = [hand EXCEPT ![w] = <<Retried(j)>>]
                /\ stamp' = [stamp EXCEPT ![w] = now + Backoff(j)]
                /\ Request(w, "zadd")
             \/ /\ ~CanRetry(j)
                /\ Request(w, "bury")
                /\ UNCHANGED <<hand, stamp>>
    /\ UNCHANGED <<toRemove, stats, redis, net, submitted, done, merged, doubled, now, crashes>>

\* Seeded fault for Conserved: the exhausted task is only logged.
DeadLetterLogged(j) == dead

DeadLetter(j) == Append(dead, j)

Bury(w) ==
    /\ At(w, "bury")
    /\ \/ Applied(w) /\ dead' = DeadLetter(Head(hand[w]))
       \/ Refused(w) /\ UNCHANGED dead
    /\ Finish(w)
    /\ UNCHANGED <<pending, delayed, history, now, crashes>>

(***************************************************************************)
(* The delayed task processor: process_delayed_tasks.                      *)
(***************************************************************************)
\* `now` is read before the lock is requested.
StartPoll(p) ==
    /\ pc[p] = "idle"
    /\ stamp' = [stamp EXCEPT ![p] = now]
    /\ Request(p, "zrange")
    /\ UNCHANGED <<hand, toRemove, stats, redis, net, history, now, crashes>>

DueAt(time) == {e \in delayed : Due(e, time)}

\* ZRANGEBYSCORE 0 time: the members in the order of their scores.
ByScore(S) == {s \in SetToSeqs(S) :
                 \A i, k \in DOMAIN s : i < k => s[i].score <= s[k].score}

JobsOf(s) == [i \in DOMAIN s |-> s[i].job]

FetchDue(p) ==
    /\ At(p, "zrange")
    /\ \/ /\ Answered(p)
          /\ DueAt(stamp[p]) # {}
          /\ \E s \in ByScore(DueAt(stamp[p])) :
                /\ hand' = [hand EXCEPT ![p] = JobsOf(s)]
                /\ toRemove' = [toRemove EXCEPT ![p] = JobsOf(s)]
          /\ pc' = [pc EXCEPT ![p] = "zrem"]
          /\ UNCHANGED <<lockq, stamp, stats>>
       \/ /\ (Answered(p) /\ DueAt(stamp[p]) = {}) \/ ReplyLost(p) \/ Refused(p)
          /\ Finish(p)
    /\ UNCHANGED <<redis, history, now, crashes>>

\* Seeded fault for NoDuplication: the text sent does not match the member.
RemovedNothing(j) == delayed

\* Seeded fault for NothingDoubled: one ZREM takes whatever is due.
RemovedDue(j) == {e \in delayed : e.score > now}

Removed(j) == {e \in delayed : e.job # j}

Missing(j) == 1 - Merges(j)

\* One ZREM per due member.  Its result, the number of members removed, is
\* not looked at: a member that another process has removed meanwhile stays in
\* the batch.  An Err leaves the function and drops the whole batch.
AfterZRem(rest) == IF rest = <<>> THEN "repush" ELSE "zrem"

ZRem(p) ==
    /\ At(p, "zrem")
    /\ LET j    == Head(toRemove[p])
           rest == Tail(toRemove[p])
       IN \/ /\ Applied(p)
             /\ delayed' = Removed(j)
             /\ \/ /\ Answered(p)
                   /\ toRemove' = [toRemove EXCEPT ![p] = rest]
                   /\ pc' = [pc EXCEPT ![p] = AfterZRem(rest)]
                   /\ doubled' = [doubled EXCEPT ![j.task] = @ + Missing(j)]
                   /\ UNCHANGED <<lockq, hand, stamp, stats>>
                \/ ReplyLost(p) /\ Finish(p) /\ UNCHANGED doubled
          \/ Refused(p) /\ Finish(p) /\ UNCHANGED <<delayed, doubled>>
    /\ UNCHANGED <<pending, dead, submitted, runs, done, merged, now, crashes>>

\* One LPUSH per job of the batch, again leaving on the first Err.
RePush(p) ==
    /\ At(p, "repush")
    /\ \/ /\ Applied(p)
          /\ pending' = Append(pending, Head(hand[p]))
          /\ \/ /\ Answered(p) /\ Len(hand[p]) > 1
                /\ hand' = [hand EXCEPT ![p] = Tail(@)]
                /\ UNCHANGED <<lockq, pc, toRemove, stamp, stats>>
             \/ Answered(p) /\ Len(hand[p]) = 1 /\ Finish(p)
             \/ ReplyLost(p) /\ Finish(p)
       \/ Refused(p) /\ UNCHANGED pending /\ Finish(p)
    /\ UNCHANGED <<delayed, dead, history, now, crashes>>

(***************************************************************************)
(* get_queue_stats: three reads under one guard.                           *)
(***************************************************************************)
StartStats(m) ==
    /\ pc[m] = "idle"
    /\ Request(m, "llen")
    /\ UNCHANGED <<hand, toRemove, stamp, stats, redis, net, history, now, crashes>>

\* The first two commands store what they read and go on to the next.
ReadStat(m, command, field, value, next) ==
    /\ At(m, command)
    /\ \/ /\ Answered(m)
          /\ stats' = [stats EXCEPT ![m][field] = value]
          /\ pc' = [pc EXCEPT ![m] = next]
          /\ UNCHANGED <<lockq, hand, toRemove, stamp>>
       \/ (ReplyLost(m) \/ Refused(m)) /\ Finish(m)
    /\ UNCHANGED <<redis, history, now, crashes>>

LLenPending(m) == ReadStat(m, "llen", "pending", Len(pending), "zcard")

ZCard(m) == ReadStat(m, "zcard", "delayed", Cardinality(delayed), "ldead")

LLenDead(m) ==
    /\ At(m, "ldead")
    /\ Applied(m) \/ Refused(m)
    /\ Finish(m)
    /\ UNCHANGED <<redis, history, now, crashes>>

(***************************************************************************)
(* The environment: a process crashes and is started again with a new      *)
(* connection; time passes while a score lies in the future.               *)
(***************************************************************************)
Cleared(f, p, value) == [a \in Actors |-> IF Home[a] = p THEN value ELSE f[a]]

Crash(p) ==
    /\ crashes < MaxCrashes
    /\ crashes' = crashes + 1
    /\ lockq' = [lockq EXCEPT ![p] = <<>>]
    /\ conn' = [conn EXCEPT ![p] = TRUE]
    /\ pc' = Cleared(pc, p, "idle")
    /\ hand' = Cleared(hand, p, <<>>)
    /\ toRemove' = Cleared(toRemove, p, <<>>)
    /\ stamp' = Cleared(stamp, p, 0)
    /\ stats' = Cleared(stats, p, NoStats)
    /\ UNCHANGED <<redis, faults, history, now>>

Awaited == {e.score : e \in delayed} \union {stamp[a] : a \in {b \in Actors : pc[b] = "zadd"}}

Tick ==
    /\ \E score \in Awaited : score > now
    /\ now' = now + 1
    /\ UNCHANGED <<redis, local, net, history, crashes>>

-----------------------------------------------------------------------------
ClientStep(c)  == LPush(c) \/ ZAdd(c)
WorkerStep(w)  == RequestPop(w) \/ Pop(w) \/ PopNothing(w) \/ RunOk(w) \/ RunFails(w)
                  \/ ZAdd(w) \/ Bury(w)
PollerStep(p)  == StartPoll(p) \/ FetchDue(p) \/ ZRem(p) \/ RePush(p)
MonitorStep(m) == LLenPending(m) \/ ZCard(m) \/ LLenDead(m)

Next ==
    \/ \E c \in Clients, t \in Tasks :
          Enqueue(c, t) \/ \E d \in Delays : Schedule(c, t, d)
    \/ \E c \in Clients : ClientStep(c)
    \/ \E w \in Workers : WorkerStep(w)
    \/ \E p \in Pollers : PollerStep(p)
    \/ \E m \in Monitors : StartStats(m) \/ MonitorStep(m)
    \/ \E p \in Procs : Crash(p)
    \/ Tick

Spec == Init /\ [][Next]_vars

\* tokio polls every task that is ready and the mutex is FIFO: whoever can
\* take its next step eventually takes it.  Nobody has to submit or to ask
\* for statistics, and nothing has to fail.
Fairness ==
    /\ \A c \in Clients : WF_vars(ClientStep(c))
    /\ \A w \in Workers : WF_vars(WorkerStep(w))
    /\ \A p \in Pollers : WF_vars(PollerStep(p))
    /\ \A m \in Monitors : WF_vars(MonitorStep(m))
    /\ WF_vars(Tick)

FairSpec == Spec /\ Fairness

-----------------------------------------------------------------------------
(***************************************************************************)
(* Properties.                                                             *)
(***************************************************************************)
OfTask(seq, t) == Cardinality({i \in DOMAIN seq : seq[i].task = t})

Scheduled(t) == {e \in delayed : e.job.task = t}

\* The jobs an actor alone still knows: a poller's batch without the members
\* it has not removed from the sorted set yet.
Loose(a) == Range(hand[a]) \ Range(toRemove[a])

InHand(t) == UNION {{a} \X {j \in Loose(a) : j.task = t} : a \in Actors}

Copies(t) == OfTask(pending, t) + OfTask(dead, t)
             + Cardinality(Scheduled(t)) + Cardinality(InHand(t))

\* What may be delivered: the calls of enqueue and schedule, and one more for
\* each due member that a poller pushes although another poller removed it.
Issued(t) == submitted[t] + doubled[t]

\* However commands fail and processes crash, one submission never turns into
\* two deliveries, unless two pollers read it from the sorted set before either
\* removed it: the copies of a payload in the lists, in the sorted set and in
\* the hands of clients, workers and pollers, and its successful runs, never
\* outnumber what was issued.
NoDuplication == \A t \in Tasks : Copies(t) + done[t] <= Issued(t)

\* Without a failed command or a crash nothing is lost either, and every member
\* pushed twice is seen by the second ZREM: what was issued is accounted for by
\* a copy, a success, or a ZADD that found the same payload already scheduled.
Conserved ==
    faults + crashes = 0 =>
        \A t \in Tasks : Copies(t) + done[t] + merged[t] = Issued(t)

\* Where one process polls, nothing is ever doubled: whatever commands fail and
\* however often it crashes, a due member that was read is still in the sorted
\* set when its ZREM comes, although other processes go on scheduling.
PollsAlone == \A p, q \in Pollers : Home[p] = Home[q]

NothingDoubled == PollsAlone => \A t \in Tasks : doubled[t] = 0

\* A job that failed k times is back in the main list, or running again, only
\* once the clock has passed the failure by the backoff of handle_failed_task,
\* 2^(k - 1) seconds of the clock the scores are taken from.
Available == {pending[i] : i \in DOMAIN pending}
             \union {hand[w][1] : w \in {v \in Workers : pc[v] = "run"}}

Waited(j) == j.retry > 0 => now >= j.at + 2^(j.retry - 1)

BackoffRespected == \A j \in Available : Waited(j)

\* A payload is run at most MaxRetries + 1 times for each copy issued, and one
\* that reaches the dead letter list has used up every attempt.
AttemptsBounded ==
    \A t \in Tasks :
        /\ runs[t] <= (MaxRetries + 1) * Issued(t)
        /\ OfTask(dead, t) > 0 => runs[t] > MaxRetries

\* get_queue_stats reads the three sizes in three commands; when it is about
\* to read the last one, what it read first is still true, so the result
\* describes one moment of the queue.
StatsAtomic ==
    \A m \in Monitors : At(m, "ldead") =>
        /\ stats[m].pending = Len(pending)
        /\ stats[m].delayed = Cardinality(delayed)

\* Without failures and crashes every call of enqueue or schedule comes to an
\* end the queue promises: the task succeeded, is in the dead letter list, or
\* was merged into an equal one that does.
Settled(t) == done[t] + OfTask(dead, t) + merged[t] = submitted[t]

EveryTaskSettles == \A t \in Tasks : <>[](faults + crashes = 0 => Settled(t))

\* Whoever waits for the mutex of its process gets it (or the process dies),
\* although a worker keeps it across a blocking BRPOP and every command may
\* fail.
Waiting(a) == a \in Range(lockq[Home[a]]) /\ ~Holds(a)

LockGranted == \A a \in Actors : Waiting(a) ~> ~Waiting(a)

\* The jobs there still are, in the lists, the sorted set or some actor's hand.
Known == Range(pending) \union {e.job : e \in delayed}
         \union UNION {Loose(a) : a \in Actors}

\* What the queue promises, where each payload is submitted once.
Phase(t) ==
    IF \E w \in Workers : pc[w] = "run" /\ hand[w][1].task = t THEN "running"
    ELSE IF done[t] > 0 THEN "done"
    ELSE IF OfTask(dead, t) > 0 THEN "dead"
    ELSE IF \E j \in Known : j.task = t THEN "waiting"
    ELSE IF submitted[t] > 0 THEN "lost"
    ELSE "none"

Ledger == INSTANCE TaskLedger WITH
    phase    <- [t \in Tasks |-> Phase(t)],
    attempts <- runs,
    mishap   <- faults + crashes > 0

\* The queue implements the ledger: no task is started that has no attempt
\* left, buried before its last attempt, or lost without a mishap.
ImplementsLedger == Ledger!Spec
=============================================================================
