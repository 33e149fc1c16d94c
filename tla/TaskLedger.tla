----------------------------- MODULE TaskLedger -----------------------------
(***************************************************************************)
(* What the background queue of src/src/tasks.rs promises to a caller that *)
(* submits each task once, with no mention of Redis, locks or processes:   *)
(* a task waits, runs, and after every failed run waits again until it has *)
(* used up its attempts and is buried.  A task may vanish only once        *)
(* something outside the queue's control went wrong (a command failed, a   *)
(* process crashed).                                                       *)
(***************************************************************************)
EXTENDS Naturals

CONSTANTS Tasks,        \* the payloads submitted
          MaxRetries    \* TaskRunner.max_retries

VARIABLES phase,        \* where each task is
          attempts,     \* how often its handler has finished
          mishap        \* whether a command failed or a process crashed

vars == <<phase, attempts, mishap>>

Init == /\ phase = [t \in Tasks |-> "none"]
        /\ attempts = [t \in Tasks |-> 0]
        /\ mishap = FALSE

Move(t, from, to) == phase[t] = from /\ phase' = [phase EXCEPT ![t] = to]

Attempted(t) == attempts' = [attempts EXCEPT ![t] = @ + 1]

Submit(t) == Move(t, "none", "waiting") /\ UNCHANGED <<attempts, mishap>>

\* Only a task that still has an attempt left is started.
Begin(t) == /\ attempts[t] <= MaxRetries
            /\ Move(t, "waiting", "running")
            /\ UNCHANGED <<attempts, mishap>>

Complete(t) == Move(t, "running", "done") /\ Attempted(t) /\ UNCHANGED mishap

Fail(t) == Move(t, "running", "waiting") /\ Attempted(t) /\ UNCHANGED mishap

\* The dead letter queue receives only tasks that failed MaxRetries + 1 times.
Bury(t) == /\ attempts[t] = MaxRetries + 1
           /\ Move(t, "waiting", "dead")
           /\ mishap' \in {mishap, TRUE}
           /\ UNCHANGED attempts

\* Something went wrong: any tasks that were waiting or running may be gone,
\* and a reply that was lost may hide that a task was taken or stored.
Mishap == /\ mishap' = TRUE
          /\ \E S \in SUBSET {t \in Tasks : phase[t] \in {"waiting", "running"}} :
                phase' = [t \in Tasks |-> IF t \in S THEN "lost" ELSE phase[t]]
          /\ UNCHANGED attempts

Next == \/ \E t \in Tasks : Submit(t) \/ Begin(t) \/ Complete(t) \/ Fail(t) \/ Bury(t)
        \/ Mishap

Spec == Init /\ [][Next]_vars
=============================================================================
