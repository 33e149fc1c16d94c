--------------------------- MODULE ImmediateRunner ---------------------------
(***************************************************************************)
(* TaskRunner of src/src/tasks.rs without a Redis connection.  Either the  *)
(* crate was built without the `redis` feature (the only build Cargo.toml  *)
(* offers), or with it and TaskRunner::new found no server: enqueue then   *)
(* runs the task inside the caller, and schedule sleeps there first or     *)
(* drops the task.  There are no workers, retries or dead letters.         *)
(*                                                                         *)
(* A task is JSON, and execute_task_json looks for a handler by its `type`.*)
(* What has no `type`, one that it does not know, or a payload that does   *)
(* not deserialise into the type's struct is passed over with Ok.          *)
(*                                                                         *)
(* Every caller makes one call; its future may be dropped while it sleeps  *)
(* or runs (a client that disconnects, a runtime that shuts down).         *)
(***************************************************************************)
EXTENDS Integers

CONSTANTS Callers,       \* one enqueue or schedule call each
          Tasks,         \* the tasks they may pass
          Serializable,  \* those that serde_json::to_value accepts
          Handled,       \* those of a known type with the payload it takes
          Fallible,      \* those whose handler may return Err
          Builds,        \* which builds to look at: with the redis feature or not
          Delays,        \* delays, in seconds, passed to schedule
          MaxDrops       \* bound: futures dropped before they finish

ASSUME BuildsAssumption == Builds \subseteq BOOLEAN
ASSUME TasksAssumption ==
    Fallible \subseteq Handled /\ Handled \subseteq Serializable /\ Serializable \subseteq Tasks
ASSUME DelaysAssumption == Delays \subseteq Nat
ASSUME BoundsAssumption == MaxDrops \in Nat

VARIABLES feature,  \* the crate was built with the redis feature
          task,     \* what each call passes
          pc,       \* where each call is
          wake,     \* when its sleep ends
          runs,     \* how often a handler ran its task to the end
          succeeded,\* whether a run of it succeeded
          result,   \* what the call returned
          now, drops

vars == <<feature, task, pc, wake, runs, succeeded, result, now, drops>>

Init ==
    /\ feature \in Builds
    /\ task \in [Callers -> Tasks]
    /\ pc = [c \in Callers |-> "idle"]
    /\ wake = [c \in Callers |-> 0]
    /\ runs = [c \in Callers |-> 0]
    /\ succeeded = [c \in Callers |-> FALSE]
    /\ result = [c \in Callers |-> "none"]
    /\ now = 0 /\ drops = 0

Goto(c, place) == pc' = [pc EXCEPT ![c] = place]

Return(c, value) == Goto(c, "returned") /\ result' = [result EXCEPT ![c] = value]

\* self.execute_task_json(&serde_json::to_value(task)?).await?, up to where the
\* handler's execute is awaited.
Execute(c) ==
    \/ task[c] \notin Serializable /\ Return(c, "Err")
    \/ task[c] \in Serializable \ Handled /\ Return(c, "Ok")
    \/ task[c] \in Handled /\ Goto(c, "run") /\ UNCHANGED result

\* "Redis not available, executing task immediately", in either build.
Enqueue(c) ==
    /\ pc[c] = "idle"
    /\ Execute(c)
    /\ UNCHANGED <<feature, task, wake, runs, succeeded, now, drops>>

\* Without the feature: "executing task after delay".
ScheduleSleeps(c, d) ==
    /\ ~feature
    /\ pc[c] = "idle"
    /\ Goto(c, "sleep")
    /\ wake' = [wake EXCEPT ![c] = now + d]
    /\ UNCHANGED <<feature, task, runs, succeeded, result, now, drops>>

\* With the feature: "cannot schedule task", and Ok, whatever was passed.
ScheduleDrops(c) ==
    /\ feature
    /\ pc[c] = "idle"
    /\ Return(c, "Ok")
    /\ UNCHANGED <<feature, task, wake, runs, succeeded, now, drops>>

\* Seeded fault for EveryCallEnds: a deadline compared for equality.
RipeExactly(c) == now = wake[c]

Ripe(c) == now >= wake[c]

Wake(c) ==
    /\ pc[c] = "sleep"
    /\ Ripe(c)
    /\ Execute(c)
    /\ UNCHANGED <<feature, task, wake, runs, succeeded, now, drops>>

\* Seeded fault for InMemoryResultTells: the result of execute is not looked at.
ReportedIgnored(ok) == "Ok"

\* execute().await? passes the handler's error on to the caller.
Reported(ok) == IF ok THEN "Ok" ELSE "Err"

Run(c) ==
    /\ pc[c] = "run"
    /\ \E ok \in BOOLEAN :
          /\ ok \/ task[c] \in Fallible
          /\ succeeded' = [succeeded EXCEPT ![c] = ok]
          /\ Return(c, Reported(ok))
    /\ runs' = [runs EXCEPT ![c] = @ + 1]
    /\ UNCHANGED <<feature, task, wake, now, drops>>

\* The caller's future is dropped: the sleep or the run stops where it is.
Drop(c) ==
    /\ pc[c] \in {"sleep", "run"}
    /\ drops < MaxDrops
    /\ Goto(c, "dropped")
    /\ drops' = drops + 1
    /\ UNCHANGED <<feature, task, wake, runs, succeeded, result, now>>

Tick ==
    /\ \E c \in Callers : pc[c] = "sleep" /\ wake[c] > now
    /\ now' = now + 1
    /\ UNCHANGED <<feature, task, pc, wake, runs, succeeded, result, drops>>

\* Every call has returned or was dropped: nothing is left to do.
Finished ==
    /\ \A c \in Callers : pc[c] \in {"returned", "dropped"}
    /\ UNCHANGED vars

Next ==
    \/ \E c \in Callers :
          \/ Enqueue(c) \/ ScheduleDrops(c) \/ Wake(c) \/ Run(c) \/ Drop(c)
          \/ \E d \in Delays : ScheduleSleeps(c, d)
    \/ Tick
    \/ Finished

Spec == Init /\ [][Next]_vars

\* The runtime polls a future whose sleep is over or whose handler is done.
FairSpec == Spec /\ \A c \in Callers : WF_vars(Wake(c)) /\ WF_vars(Run(c))
                 /\ WF_vars(Tick)

-----------------------------------------------------------------------------
Done(c) == runs[c] = 1 /\ succeeded[c]

\* A runner without a connection runs every task in its caller before it
\* answers Ok: what TaskRunner::new announces as "Tasks will run immediately".
OkMeansDone == \A c \in Callers : result[c] = "Ok" => Done(c)

\* What is true of that in the build without the feature, where schedule sleeps
\* first and a future may be dropped meanwhile: Ok means that the task was run
\* once, with success, or that it serialises and has no handler, in which case
\* nothing was run; Err means that no run succeeded, whether there was one or not.
InMemoryResultTells ==
    ~feature =>
        \A c \in Callers :
            /\ result[c] = "Ok" =>
                  \/ Done(c)
                  \/ task[c] \in Serializable \ Handled /\ runs[c] = 0
            /\ result[c] = "Err" => ~succeeded[c]

\* A call that was made returns, or its future is dropped.
EveryCallEnds ==
    \A c \in Callers : pc[c] \in {"sleep", "run"} ~> pc[c] \in {"returned", "dropped"}
=============================================================================
