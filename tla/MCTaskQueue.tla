---------------------------- MODULE MCTaskQueue ----------------------------
(***************************************************************************)
(* Small instances of TaskQueue: one process, or two that share the server.*)
(***************************************************************************)
EXTENDS TaskQueue

CONSTANTS t1, t2, client, client2, w1, w2, poller, poller2, monitor, p1, p2

OneProcess == [a \in Actors |-> p1]

\* The second process runs the second worker, client and poller.
TwoProcesses == [a \in Actors |-> IF a \in {client2, w2, poller2} THEN p2 ELSE p1]

\* Bound of the shared instance: one member doubled, and one command that
\* fails or one crash.
FewMishaps == faults + crashes <= 1 /\ \A t \in Tasks : doubled[t] <= 1
=============================================================================
