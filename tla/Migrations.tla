----------------------------- MODULE Migrations -----------------------------
(***************************************************************************)
(* MigrationRunner of src/src/database.rs: several processes of one        *)
(* service start together and each calls run() with the same list, while   *)
(* an operator may call rollback_last().  PostgreSQL is modelled as those  *)
(* calls use it: autocommitted statements, transactions that show nothing  *)
(* before their commit, a UNIQUE version column on which an INSERT waits   *)
(* for an uncommitted rival, and CURRENT_TIMESTAMP as the time a           *)
(* transaction began.                                                      *)
(***************************************************************************)
EXTENDS Integers, SequencesExt

CONSTANTS Runners,      \* processes that call run()
          Rollbackers,  \* calls of rollback_last()
          Migrations,   \* MigrationRunner.migrations: versions in list order
          Exclusive,    \* versions whose SQL cannot run twice (CREATE TABLE)
          MaxFaults,    \* bound: statements that fail or lose their reply
          MaxRestarts   \* bound: processes that die, or retry after an Err

Versions == Range(Migrations)

ASSUME ListAssumption == Migrations \in Seq(Versions)
ASSUME ExclusiveAssumption == Exclusive \subseteq Versions
ASSUME ActorsAssumption == Runners \intersect Rollbackers = {}
ASSUME BoundsAssumption == MaxFaults \in Nat /\ MaxRestarts \in Nat

VARIABLES table,     \* _lime_migrations exists
          appliedAt, \* its rows: version -> applied_at, 0 if there is none
          effects,   \* how often each migration's SQL has been committed
          removed,   \* history: rows that rollback_last deleted
          pc,        \* where each call is; in "insert" and "commit" a
                     \* transaction is open that has run its SQL
          index,     \* per runner: the migration its loop is at
          saw,       \* per runner: whether CREATE TABLE found the table
          begun,     \* per runner: when its transaction began
          picked,    \* per rollbacker: the row it read
          clock, faults, restarts

vars == <<table, appliedAt, effects, removed, pc, index, saw, begun, picked,
          clock, faults, restarts>>

database == <<table, appliedAt, effects, removed>>
bounds == <<clock, faults, restarts>>

Actors == Runners \union Rollbackers

None == 0

Init ==
    /\ table = FALSE
    /\ appliedAt = [v \in Versions |-> None]
    /\ effects = [v \in Versions |-> 0]
    /\ removed = [v \in Versions |-> 0]
    /\ pc = [a \in Actors |-> "idle"]
    /\ index = [r \in Runners |-> 1]
    /\ saw = [r \in Runners |-> FALSE]
    /\ begun = [r \in Runners |-> 0]
    /\ picked = [b \in Rollbackers |-> None]
    /\ clock = 0 /\ faults = 0 /\ restarts = 0

Goto(a, place) == pc' = [pc EXCEPT ![a] = place]

Version(r) == Migrations[index[r]]

\* The rows somebody else's statement or query can see.
Applied(v) == appliedAt[v] # None

Recorded == {v \in Versions : Applied(v)}

(***************************************************************************)
(* run()                                                                   *)
(***************************************************************************)
\* Seeded faults: the loop goes one too far (TypeOK), or stops one short
\* (OkMeansApplied, SomebodyFinishes).
MoreFar(r) == index[r] <= Len(Migrations)
MoreShort(r) == index[r] + 1 < Len(Migrations)

More(r) == index[r] < Len(Migrations)

Continue(r) ==
    IF More(r)
    THEN Goto(r, "check") /\ index' = [index EXCEPT ![r] = @ + 1]
    ELSE Goto(r, "ok") /\ UNCHANGED index

\* Seeded fault for ListIsPrefix: a failed migration is skipped.
FailSkips(r) == Continue(r)

\* Every `?`: run() returns the Err and drops the transaction it has.
Fail(r) == Goto(r, "err") /\ UNCHANGED index

\* CREATE TABLE IF NOT EXISTS looks first and creates then.
StartRun(r) ==
    /\ pc[r] = "idle"
    /\ saw' = [saw EXCEPT ![r] = table]
    /\ Goto(r, "create")
    /\ UNCHANGED <<database, index, begun, picked, bounds>>

\* A rival that created the table in between makes the statement fail.
CreateTable(r) ==
    /\ pc[r] = "create"
    /\ table' = TRUE
    /\ IF table /\ ~saw[r] THEN Fail(r)
       ELSE Goto(r, IF Migrations = <<>> THEN "ok" ELSE "check") /\ UNCHANGED index
    /\ UNCHANGED <<appliedAt, effects, removed, saw, begun, picked, bounds>>

\* SELECT EXISTS, on a connection of its own.
Check(r) ==
    /\ pc[r] = "check"
    /\ IF Applied(Version(r)) THEN Continue(r) ELSE Goto(r, "begin") /\ UNCHANGED index
    /\ UNCHANGED <<database, saw, begun, picked, bounds>>

Begin(r) ==
    /\ pc[r] = "begin"
    /\ clock' = clock + 1
    /\ begun' = [begun EXCEPT ![r] = clock']
    /\ Goto(r, "sql")
    /\ UNCHANGED <<database, index, saw, picked, faults, restarts>>

\* Seeded fault for EveryRunEnds: an early return leaves the transaction open.
OpenLeaked(r) == pc[r] \in {"insert", "commit", "err"}

\* The transaction has run the migration's SQL and is not over.
Open(r) == pc[r] \in {"insert", "commit"}

Rivals(r) == {q \in Runners \ {r} : Open(q) /\ Version(q) = Version(r)}

\* Seeded fault for EffectsRecorded: the pool executes the SQL, not the transaction.
ExecuteOnPool(r) == effects' = [effects EXCEPT ![Version(r)] = @ + 1]

\* &mut *transaction: nobody sees the migration before the commit.
Execute(r) == UNCHANGED effects

RunSql(r) ==
    /\ pc[r] = "sql"
    /\ IF Version(r) \in Exclusive
       THEN /\ Rivals(r) = {}
            /\ IF effects[Version(r)] > 0 THEN Fail(r) /\ UNCHANGED effects
               ELSE Goto(r, "insert") /\ Execute(r) /\ UNCHANGED index
       ELSE Goto(r, "insert") /\ Execute(r) /\ UNCHANGED index
    /\ UNCHANGED <<table, appliedAt, removed, saw, begun, picked, bounds>>

\* UNIQUE(version): waits for a rival's row, and fails once it is committed.
InsertRow(r) ==
    /\ pc[r] = "insert"
    /\ \A q \in Rivals(r) : pc[q] = "insert"
    /\ IF Applied(Version(r)) THEN Fail(r) ELSE Goto(r, "commit") /\ UNCHANGED index
    /\ UNCHANGED <<database, saw, begun, picked, bounds>>

Committed(r) ==
    /\ effects' = [effects EXCEPT ![Version(r)] = @ + 1]
    /\ appliedAt' = [appliedAt EXCEPT ![Version(r)] = begun[r]]
    /\ UNCHANGED <<table, removed>>

Commit(r) ==
    /\ pc[r] = "commit"
    /\ Committed(r)
    /\ Continue(r)
    /\ UNCHANGED <<saw, begun, picked, bounds>>

\* Any statement fails; the transaction, if there is one, rolls back.
StatementFails(r) ==
    /\ pc[r] \in {"create", "check", "begin", "sql", "insert", "commit"}
    /\ faults < MaxFaults /\ faults' = faults + 1
    /\ Fail(r)
    /\ UNCHANGED <<database, saw, begun, picked, clock, restarts>>

\* The commit took effect and its reply was lost: run() returns Err.
CommitReplyLost(r) ==
    /\ pc[r] = "commit"
    /\ faults < MaxFaults /\ faults' = faults + 1
    /\ Committed(r)
    /\ Fail(r)
    /\ UNCHANGED <<saw, begun, picked, clock, restarts>>

\* The process dies wherever it is, or gives up, and is started again.  Its
\* transaction ends at that moment; the server may notice somewhat later.
Restart(r) ==
    /\ pc[r] # "idle"
    /\ restarts < MaxRestarts /\ restarts' = restarts + 1
    /\ Goto(r, "idle")
    /\ index' = [index EXCEPT ![r] = 1]
    /\ UNCHANGED <<database, saw, begun, picked, clock, faults>>

(***************************************************************************)
(* rollback_last()                                                         *)
(***************************************************************************)
Newest(v) == \A u \in Recorded : appliedAt[u] <= appliedAt[v]

\* Err without the table, nothing to roll back without a row.
PickLast(b) ==
    /\ pc[b] = "idle"
    /\ \/ ~table /\ Goto(b, "err") /\ UNCHANGED picked
       \/ table /\ Recorded = {} /\ Goto(b, "ok") /\ UNCHANGED picked
       \/ \E v \in Recorded : /\ Newest(v)
                              /\ picked' = [picked EXCEPT ![b] = v]
                              /\ Goto(b, "delete")
    /\ UNCHANGED <<database, index, saw, begun, bounds>>

\* DELETE by version: the row goes, the migration's effects stay.
DeleteRow(b) ==
    /\ pc[b] = "delete"
    /\ LET v == picked[b]
       IN /\ appliedAt' = [appliedAt EXCEPT ![v] = None]
          /\ removed' = IF Applied(v) THEN [removed EXCEPT ![v] = @ + 1] ELSE removed
    /\ Goto(b, "ok")
    /\ UNCHANGED <<table, effects, index, saw, begun, picked, bounds>>

-----------------------------------------------------------------------------
RunStep(r) ==
    \/ CreateTable(r) \/ Check(r) \/ Begin(r) \/ RunSql(r) \/ InsertRow(r) \/ Commit(r)

Next ==
    \/ \E r \in Runners :
          \/ StartRun(r) \/ RunStep(r)
          \/ StatementFails(r) \/ CommitReplyLost(r) \/ Restart(r)
    \/ \E b \in Rollbackers : PickLast(b) \/ DeleteRow(b)

Spec == Init /\ [][Next]_vars

\* The server answers every statement that no lock holds up.
FairSpec == Spec /\ \A r \in Runners : WF_vars(RunStep(r))

-----------------------------------------------------------------------------
\* list_applied: the rows ORDER BY applied_at ASC.
ListApplied ==
    CHOOSE rows \in SetToSeqs(Recorded) :
        \A i, j \in DOMAIN rows : i < j => appliedAt[rows[i]] <= appliedAt[rows[j]]

\* The places inside the loop of run().
Loop == {"check", "begin", "sql", "insert", "commit"}

TypeOK ==
    /\ table \in BOOLEAN
    /\ appliedAt \in [Versions -> Nat]
    /\ effects \in [Versions -> Nat] /\ removed \in [Versions -> Nat]
    /\ pc \in [Actors -> Loop \union {"idle", "create", "delete", "ok", "err"}]
    /\ \A b \in Rollbackers : pc[b] = "delete" => picked[b] \in Versions
    /\ index \in [Runners -> Nat]
    /\ \A r \in Runners : pc[r] \in Loop => index[r] \in 1..Len(Migrations)
    /\ saw \in [Runners -> BOOLEAN]
    /\ begun \in [Runners -> Nat]
    /\ picked \in [Rollbackers -> Versions \union {None}]
    /\ clock \in Nat /\ faults \in Nat /\ restarts \in Nat

\* However many processes run the list at once, fail, lose replies, die and
\* start again while rows are rolled back, each migration's SQL has taken
\* effect exactly once for every row it ever got: never without its row,
\* never a second time beside it.
EffectsRecorded ==
    \A v \in Versions : effects[v] = removed[v] + (IF Applied(v) THEN 1 ELSE 0)

\* Until something is rolled back, list_applied shows the first migrations of
\* the list in the order of the list, although applied_at is the time the
\* transaction began and rivals overtake each other.
RolledBack == \E v \in Versions : removed[v] > 0

ListIsPrefix == ~RolledBack => IsPrefix(ListApplied, Migrations)

\* run() returns Ok only after every migration has been committed.
OkMeansApplied == \A r \in Runners : pc[r] = "ok" => \A v \in Versions : effects[v] > 0

\* Processes that race to the same migration may fail on each other, but not
\* all of them: without faults and rollbacks, once every call has returned
\* the whole list is applied and one of the calls said so.
Ended(a) == pc[a] \in {"ok", "err"}

SomebodyFinishes ==
    (\A r \in Runners : Ended(r)) /\ faults + restarts = 0 /\ ~RolledBack =>
        Recorded = Versions /\ \E r \in Runners : pc[r] = "ok"

\* No call of run() waits for ever on the row or the locks of another.
EveryRunEnds == \A r \in Runners : pc[r] # "idle" ~> Ended(r) \/ pc[r] = "idle"

\* "Migration rolled back": a migration without a row has no effect left.
RolledBackIsUndone == \A v \in Versions : ~Applied(v) => effects[v] = 0
=============================================================================
