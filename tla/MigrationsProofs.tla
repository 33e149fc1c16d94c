-------------------------- MODULE MigrationsProofs --------------------------
(***************************************************************************)
(* Migrations: every row stands for exactly one execution of its           *)
(* migration's SQL, for any number of processes, rollbacks, faults and     *)
(* restarts.                                                               *)
(*                                                                         *)
(* EffectsRecorded is not inductive: a commit adds an effect and a row,    *)
(* which keeps the balance only if the row was not there before.  That it  *)
(* was not follows from the UNIQUE constraint: whoever is about to commit  *)
(* has inserted a row nobody had, and nobody else can do so meanwhile.     *)
(*                                                                         *)
(* ListIsPrefix follows from the order in which a call goes through the    *)
(* list, SomebodyFinishes from a leader: among the calls that have not     *)
(* failed there is always one with every row behind it.                    *)
(***************************************************************************)
EXTENDS Migrations, TLAPS, FiniteSetTheorems, WellFoundedInduction

\* Whoever is about to commit holds a row that is not there yet, alone.
RowsUnique ==
    \A r \in Runners : pc[r] = "commit" =>
        /\ ~Applied(Version(r))
        /\ \A q \in Runners \ {r} : pc[q] = "commit" => Version(q) # Version(r)

\* A transaction's timestamp differs from None.
Stamped == \A r \in Runners : pc[r] \in {"sql", "insert", "commit"} => begun[r] > 0

\* Every call of run() begins with the first migration.
FromTheStart == \A r \in Runners : pc[r] \in {"idle", "create"} => index[r] = 1

Inv == TypeOK /\ EffectsRecorded /\ RowsUnique /\ Stamped /\ FromTheStart

\* The loop is at a version of the list.
LEMMA VersionInList ==
    ASSUME TypeOK, NEW r \in Runners, pc[r] \in Loop
    PROVE  Version(r) \in Versions
<1>1. index[r] \in DOMAIN Migrations
  BY ListAssumption DEF TypeOK
<1>2. QED
  BY <1>1 DEF Version, Versions, Range

\* Moving on to the next migration, or returning Ok, keeps the types.
LEMMA ContinueTyped ==
    ASSUME TypeOK, NEW r \in Runners, pc[r] \in Loop, Continue(r)
    PROVE  /\ pc' \in [Actors -> Loop \union {"idle", "create", "delete", "ok", "err"}]
           /\ index' \in [Runners -> Nat]
           /\ pc'[r] \in {"check", "ok"}
           /\ \A a \in Actors \ {r} : pc'[a] = pc[a]
           /\ \A q \in Runners \ {r} : index'[q] = index[q]
           /\ pc'[r] = "check" => index'[r] \in 1..Len(Migrations)
<1>1. Len(Migrations) \in Nat
  BY ListAssumption
<1>2. r \in Actors
  BY DEF Actors
<1>3. CASE More(r)
  <2>1. index[r] \in Nat /\ index[r] + 1 \in 1..Len(Migrations)
    BY <1>1, <1>3 DEF More, TypeOK
  <2>2. /\ pc' = [pc EXCEPT ![r] = "check"]
        /\ index' = [index EXCEPT ![r] = index[r] + 1]
    BY <1>3 DEF Continue, Goto
  <2>3. index' \in [Runners -> Nat] /\ index'[r] \in 1..Len(Migrations)
    BY <2>1, <2>2 DEF TypeOK
  <2>4. QED
    BY <1>2, <2>2, <2>3 DEF TypeOK, Loop
<1>4. CASE ~More(r)
  BY <1>1, <1>2, <1>4 DEF Continue, Goto, TypeOK, Loop
<1>5. QED
  BY <1>3, <1>4

LEMMA InitInv == Init => Inv
<1> SUFFICES ASSUME Init PROVE Inv
  OBVIOUS
<1>1. TypeOK
  BY DEF Init, TypeOK, Actors, Loop, None
<1>2. EffectsRecorded
  BY DEF Init, EffectsRecorded, Applied
<1>3. RowsUnique /\ Stamped /\ FromTheStart
  BY DEF Init, RowsUnique, Stamped, FromTheStart, Actors
<1>4. QED
  BY <1>1, <1>2, <1>3 DEF Inv

\* A step that leaves the rows and the effects alone keeps the balance.
LEMMA Balance ==
    ASSUME EffectsRecorded, UNCHANGED <<appliedAt, effects, removed>>
    PROVE  EffectsRecorded'
BY DEF EffectsRecorded, Applied

\* So does a step after which only those hold a row or a timestamp who did
\* before it, at the same version.
LEMMA Fewer ==
    ASSUME RowsUnique, Stamped, UNCHANGED <<appliedAt, begun>>,
           \A q \in Runners : pc'[q] \in {"sql", "insert", "commit"} =>
                 pc'[q] = pc[q] /\ index'[q] = index[q]
    PROVE  RowsUnique' /\ Stamped'
BY DEF RowsUnique, Stamped, Applied, Version

LEMMA StartRunInv ==
    ASSUME Inv, NEW r \in Runners, StartRun(r)
    PROVE  Inv'
<1>1. TypeOK'
  BY DEF Inv, TypeOK, StartRun, Goto, Actors, Loop, database, bounds
<1>2. EffectsRecorded'
  BY Balance DEF Inv, StartRun, database
<1>3. RowsUnique' /\ Stamped'
  BY Fewer DEF Inv, StartRun, Goto, TypeOK, Actors, database
<1>4. FromTheStart'
  BY DEF Inv, FromTheStart, StartRun, Goto, TypeOK, Actors
<1>5. QED
  BY <1>1, <1>2, <1>3, <1>4 DEF Inv

LEMMA CreateTableInv ==
    ASSUME Inv, NEW r \in Runners, CreateTable(r)
    PROVE  Inv'
<1>1. /\ \E place \in {"err", "ok", "check"} : Goto(r, place)
      /\ pc'[r] = "check" => Migrations # <<>>
      /\ UNCHANGED index
  BY DEF CreateTable, Fail, Goto, Inv, TypeOK, Actors
<1>2. TypeOK'
  <2>1. Migrations # <<>> => 1 \in 1..Len(Migrations)
    BY ListAssumption
  <2>2. \A q \in Runners : pc'[q] \in Loop => index'[q] \in 1..Len(Migrations)
    BY <1>1, <2>1 DEF Inv, TypeOK, FromTheStart, CreateTable, Goto, Actors, Loop
  <2>3. QED
    BY <1>1, <2>2 DEF Inv, TypeOK, CreateTable, Goto, Actors, Loop, bounds
<1>3. EffectsRecorded'
  BY Balance DEF Inv, CreateTable
<1>4. RowsUnique' /\ Stamped'
  BY <1>1, Fewer DEF Inv, CreateTable, Goto, TypeOK, Actors
<1>5. FromTheStart'
  BY <1>1 DEF Inv, FromTheStart, Goto, CreateTable, TypeOK, Actors
<1>6. QED
  BY <1>2, <1>3, <1>4, <1>5 DEF Inv

\* An Err ends the call; if the database has not changed, nothing else has.
LEMMA FailInv ==
    ASSUME Inv, NEW r \in Runners, Fail(r), UNCHANGED <<database, saw, begun, picked>>,
           clock' \in Nat, faults' \in Nat, restarts' \in Nat
    PROVE  Inv'
<1>1. TypeOK'
  BY DEF Inv, TypeOK, Fail, Goto, Actors, Loop, database
<1>2. EffectsRecorded'
  BY Balance DEF Inv, database
<1>3. RowsUnique' /\ Stamped'
  BY Fewer DEF Inv, Fail, Goto, TypeOK, Actors, database
<1>4. FromTheStart'
  BY DEF Inv, FromTheStart, Fail, Goto, TypeOK, Actors
<1>5. QED
  BY <1>1, <1>2, <1>3, <1>4 DEF Inv

\* A step of a run() that only moves between the places of the loop and its
\* end keeps the types.
LEMMA RunnersAlone ==
    ASSUME TypeOK, NEW r \in Runners,
           pc' \in [Actors -> Loop \union {"idle", "create", "delete", "ok", "err"}],
           index' \in [Runners -> Nat],
           pc'[r] # "delete",
           \A a \in Actors \ {r} : pc'[a] = pc[a],
           \A q \in Runners \ {r} : index'[q] = index[q],
           pc'[r] \in Loop => index'[r] \in 1..Len(Migrations),
           UNCHANGED <<table, appliedAt, effects, removed, saw, begun, picked,
                       clock, faults, restarts>>
    PROVE  TypeOK'
<1>1. \A q \in Runners : pc'[q] \in Loop => index'[q] \in 1..Len(Migrations)
  BY DEF TypeOK, Actors
<1>2. \A b \in Rollbackers : pc'[b] = "delete" => picked'[b] \in Versions
  BY DEF TypeOK, Actors
<1>3. QED
  BY <1>1, <1>2 DEF TypeOK

LEMMA CheckInv ==
    ASSUME Inv, NEW r \in Runners, Check(r)
    PROVE  Inv'
<1>1. pc[r] \in Loop /\ r \in Actors
  BY DEF Check, Loop, Actors
<1>2. /\ pc' \in [Actors -> Loop \union {"idle", "create", "delete", "ok", "err"}]
      /\ index' \in [Runners -> Nat]
      /\ pc'[r] \in {"check", "begin", "ok"}
      /\ \A a \in Actors \ {r} : pc'[a] = pc[a]
      /\ \A q \in Runners \ {r} : index'[q] = index[q]
      /\ pc'[r] \in Loop => index'[r] \in 1..Len(Migrations)
  <2>1. CASE Continue(r)
    BY <1>1, <2>1, ContinueTyped DEF Inv, Loop
  <2>2. CASE Goto(r, "begin") /\ UNCHANGED index
    BY <1>1, <2>2 DEF Inv, TypeOK, Goto, Loop
  <2>3. QED
    BY <2>1, <2>2 DEF Check
<1>3. UNCHANGED <<database, saw, begun, picked, bounds>>
  BY DEF Check
<1>4. TypeOK'
  BY <1>2, <1>3, RunnersAlone DEF Inv, database, bounds
<1>5. EffectsRecorded'
  BY <1>3, Balance DEF Inv, database
<1>6. RowsUnique' /\ Stamped'
  BY <1>2, <1>3, Fewer DEF Inv, Actors, database
<1>7. FromTheStart'
  BY <1>2 DEF Inv, FromTheStart, Actors
<1>8. QED
  BY <1>4, <1>5, <1>6, <1>7 DEF Inv

LEMMA BeginInv ==
    ASSUME Inv, NEW r \in Runners, Begin(r)
    PROVE  Inv'
<1>1. TypeOK'
  BY DEF Inv, TypeOK, Begin, Goto, Actors, Loop, database
<1>2. EffectsRecorded'
  BY Balance DEF Inv, Begin, database
<1>3. RowsUnique'
  BY DEF Inv, TypeOK, RowsUnique, Applied, Version, Begin, Goto, Actors, database
<1>4. Stamped'
  BY DEF Inv, TypeOK, Stamped, Begin, Goto, Actors
<1>5. FromTheStart'
  BY DEF Inv, FromTheStart, Begin, Goto, TypeOK, Actors
<1>6. QED
  BY <1>1, <1>2, <1>3, <1>4, <1>5 DEF Inv

LEMMA RunSqlInv ==
    ASSUME Inv, NEW r \in Runners, RunSql(r)
    PROVE  Inv'
<1>1. UNCHANGED <<database, saw, begun, picked, bounds>>
  BY DEF RunSql, Execute, database
<1>2. CASE Fail(r)
  BY <1>1, <1>2, FailInv DEF Inv, TypeOK, bounds
<1>3. CASE Goto(r, "insert") /\ UNCHANGED index
  <2>1. pc[r] = "sql"
    BY DEF RunSql
  <2>2. TypeOK'
    BY <1>1, <1>3, <2>1 DEF Inv, TypeOK, Goto, Actors, Loop, database, bounds
  <2>3. EffectsRecorded'
    BY <1>1, Balance DEF Inv, database
  <2>4. RowsUnique'
    BY <1>1, <1>3 DEF Inv, TypeOK, RowsUnique, Applied, Version, Goto, Actors, database
  <2>5. Stamped'
    BY <1>1, <1>3, <2>1 DEF Inv, TypeOK, Stamped, Goto, Actors
  <2>6. FromTheStart'
    BY <1>3 DEF Inv, FromTheStart, Goto, TypeOK, Actors
  <2>7. QED
    BY <2>2, <2>3, <2>4, <2>5, <2>6 DEF Inv
<1>4. QED
  BY <1>2, <1>3 DEF RunSql

\* The UNIQUE constraint: whoever gets past the INSERT is alone with its row.
LEMMA InsertRowInv ==
    ASSUME Inv, NEW r \in Runners, InsertRow(r)
    PROVE  Inv'
<1>1. UNCHANGED <<database, saw, begun, picked, bounds>> /\ pc[r] = "insert"
  BY DEF InsertRow
<1>2. CASE Applied(Version(r))
  BY <1>1, <1>2, FailInv DEF Inv, TypeOK, bounds, InsertRow
<1>3. CASE ~Applied(Version(r))
  <2>1. Goto(r, "commit") /\ UNCHANGED index
    BY <1>3 DEF InsertRow
  <2>2. TypeOK'
    BY <1>1, <2>1 DEF Inv, TypeOK, Goto, Actors, Loop, database, bounds
  <2>3. EffectsRecorded'
    BY <1>1, Balance DEF Inv, database
  <2>4. \A q \in Runners \ {r} : pc[q] = "commit" => Version(q) # Version(r)
    BY DEF InsertRow, Rivals, Open
  <2>5. RowsUnique'
    BY <1>1, <1>3, <2>1, <2>4 DEF Inv, TypeOK, RowsUnique, Applied, Version, Goto, Actors, database
  <2>6. Stamped'
    BY <1>1, <2>1 DEF Inv, TypeOK, Stamped, Goto, Actors
  <2>7. FromTheStart'
    BY <2>1 DEF Inv, FromTheStart, Goto, TypeOK, Actors
  <2>8. QED
    BY <2>2, <2>3, <2>5, <2>6, <2>7 DEF Inv
<1>4. QED
  BY <1>2, <1>3

\* A commit, whether its reply arrives or not, adds one effect and the row
\* nobody had, and takes the committing call out of "commit".
LEMMA CommittedInv ==
    ASSUME Inv, NEW r \in Runners, pc[r] = "commit", Committed(r),
           Continue(r) \/ Fail(r),
           UNCHANGED <<saw, begun, picked>>,
           clock' \in Nat, faults' \in Nat, restarts' \in Nat
    PROVE  Inv'
<1>1. pc[r] \in Loop /\ r \in Actors /\ Version(r) \in Versions
  BY VersionInList DEF Inv, Loop, Actors
<1>2. /\ pc' \in [Actors -> Loop \union {"idle", "create", "delete", "ok", "err"}]
      /\ index' \in [Runners -> Nat]
      /\ pc'[r] \in {"check", "ok", "err"}
      /\ \A a \in Actors \ {r} : pc'[a] = pc[a]
      /\ \A q \in Runners \ {r} : index'[q] = index[q]
      /\ pc'[r] \in Loop => index'[r] \in 1..Len(Migrations)
  <2>1. CASE Continue(r)
    BY <1>1, <2>1, ContinueTyped DEF Inv, Loop
  <2>2. CASE Fail(r)
    BY <1>1, <2>2 DEF Inv, TypeOK, Fail, Goto, Loop
  <2>3. QED
    BY <2>1, <2>2
<1>3. begun[r] \in Nat \ {0} /\ ~Applied(Version(r))
  BY DEF Inv, TypeOK, Stamped, RowsUnique
<1>4. TypeOK'
  <2>1. appliedAt' \in [Versions -> Nat] /\ effects' \in [Versions -> Nat]
    BY <1>1, <1>3 DEF Committed, Inv, TypeOK
  <2>2. \A q \in Runners : pc'[q] \in Loop => index'[q] \in 1..Len(Migrations)
    BY <1>2 DEF Inv, TypeOK, Actors
  <2>3. \A b \in Rollbackers : pc'[b] = "delete" => picked'[b] \in Versions
    BY <1>2 DEF Inv, TypeOK, Actors, Loop
  <2>4. QED
    BY <1>2, <2>1, <2>2, <2>3 DEF Inv, TypeOK, Committed
<1>5. EffectsRecorded'
  <2> SUFFICES ASSUME NEW v \in Versions
               PROVE  effects'[v] = removed'[v] + (IF appliedAt'[v] # None THEN 1 ELSE 0)
    BY DEF EffectsRecorded, Applied
  <2>1. effects[v] = removed[v] + (IF appliedAt[v] # None THEN 1 ELSE 0)
    BY DEF Inv, EffectsRecorded, Applied
  <2>2. CASE v = Version(r)
    BY <1>1, <1>3, <2>1, <2>2 DEF Committed, Applied, None, Inv, TypeOK
  <2>3. CASE v # Version(r)
    BY <1>1, <2>1, <2>3 DEF Committed, Inv, TypeOK
  <2>4. QED
    BY <2>2, <2>3
<1>6. RowsUnique'
  <2> SUFFICES ASSUME NEW q \in Runners, pc'[q] = "commit"
               PROVE  /\ appliedAt'[Migrations[index'[q]]] = None
                      /\ \A p \in Runners \ {q} : pc'[p] = "commit" =>
                             Migrations[index'[p]] # Migrations[index'[q]]
    BY DEF RowsUnique, Applied, Version
  <2>1. q # r /\ pc[q] = "commit" /\ index'[q] = index[q]
    BY <1>2 DEF Actors
  <2>2. Version(q) # Version(r) /\ ~Applied(Version(q))
    BY <2>1 DEF Inv, RowsUnique
  <2>3. appliedAt'[Version(q)] = appliedAt[Version(q)]
    BY <2>1, <2>2, VersionInList DEF Committed, Inv, TypeOK, Loop
  <2>4. \A p \in Runners \ {q} : pc'[p] = "commit" => pc[p] = "commit" /\ index'[p] = index[p]
    BY <1>2 DEF Actors
  <2>5. QED
    BY <2>1, <2>2, <2>3, <2>4 DEF Inv, RowsUnique, Applied, Version
<1>7. Stamped'
  BY <1>2 DEF Inv, Stamped, Actors
<1>8. FromTheStart'
  BY <1>2 DEF Inv, FromTheStart, Actors
<1>9. QED
  BY <1>4, <1>5, <1>6, <1>7, <1>8 DEF Inv

LEMMA RestartInv ==
    ASSUME Inv, NEW r \in Runners, Restart(r)
    PROVE  Inv'
<1>1. TypeOK'
  BY DEF Inv, TypeOK, Restart, Goto, Actors, Loop, database
<1>2. EffectsRecorded'
  BY Balance DEF Inv, Restart, database
<1>3. RowsUnique' /\ Stamped'
  BY Fewer DEF Inv, Restart, Goto, TypeOK, Actors, database
<1>4. FromTheStart'
  BY DEF Inv, FromTheStart, Restart, Goto, TypeOK, Actors
<1>5. QED
  BY <1>1, <1>2, <1>3, <1>4 DEF Inv

LEMMA PickLastInv ==
    ASSUME Inv, NEW b \in Rollbackers, PickLast(b)
    PROVE  Inv'
<1>1. b \in Actors /\ b \notin Runners
  BY ActorsAssumption DEF Actors
<1>2. TypeOK'
  BY <1>1 DEF Inv, TypeOK, PickLast, Goto, Actors, Loop, database, bounds, Recorded
<1>3. EffectsRecorded'
  BY Balance DEF Inv, PickLast, database
<1>4. \A r \in Runners : pc'[r] = pc[r]
  BY <1>1 DEF PickLast, Goto, Inv, TypeOK, Actors
<1>5. RowsUnique' /\ Stamped'
  BY <1>4, Fewer DEF Inv, PickLast, database
<1>6. FromTheStart'
  BY <1>4 DEF Inv, FromTheStart, PickLast
<1>7. QED
  BY <1>2, <1>3, <1>5, <1>6 DEF Inv

\* Deleting a row moves its effect to the history of rollbacks.
LEMMA DeleteRowInv ==
    ASSUME Inv, NEW b \in Rollbackers, DeleteRow(b)
    PROVE  Inv'
<1>1. b \in Actors /\ b \notin Runners /\ picked[b] \in Versions
  BY ActorsAssumption DEF Actors, DeleteRow, Inv, TypeOK
<1>2. /\ appliedAt' = [appliedAt EXCEPT ![picked[b]] = None]
      /\ removed' = IF Applied(picked[b])
                      THEN [removed EXCEPT ![picked[b]] = removed[picked[b]] + 1] ELSE removed
      /\ Goto(b, "ok")
      /\ UNCHANGED <<table, effects, index, saw, begun, picked, bounds>>
  BY DEF DeleteRow
<1>3. \A r \in Runners : pc'[r] = pc[r]
  BY <1>1, <1>2 DEF Goto, Inv, TypeOK, Actors
<1>4. TypeOK'
  <2>1. appliedAt' \in [Versions -> Nat] /\ removed' \in [Versions -> Nat]
    BY <1>1, <1>2 DEF Inv, TypeOK, None
  <2>2. QED
    BY <1>1, <1>2, <1>3, <2>1 DEF Inv, TypeOK, Goto, Actors, Loop, bounds
<1>5. EffectsRecorded'
  <2> SUFFICES ASSUME NEW v \in Versions
               PROVE  effects'[v] = removed'[v] + (IF appliedAt'[v] # None THEN 1 ELSE 0)
    BY DEF EffectsRecorded, Applied
  <2>1. effects[v] = removed[v] + (IF appliedAt[v] # None THEN 1 ELSE 0)
    BY DEF Inv, EffectsRecorded, Applied
  <2>2. CASE v = picked[b]
    BY <1>1, <1>2, <2>1, <2>2 DEF Applied, Inv, TypeOK
  <2>3. CASE v # picked[b]
    BY <1>1, <1>2, <2>1, <2>3 DEF Applied, Inv, TypeOK
  <2>4. QED
    BY <2>2, <2>3
<1>6. RowsUnique'
  <2>1. \A v : v \in Versions /\ appliedAt[v] = None => appliedAt'[v] = None
    BY <1>1, <1>2 DEF Inv, TypeOK
  <2>2. \A r \in Runners : pc[r] = "commit" => Version(r) \in Versions
    BY VersionInList DEF Inv, Loop
  <2>3. QED
    BY <1>2, <1>3, <2>1, <2>2 DEF Inv, RowsUnique, Applied, Version
<1>7. Stamped' /\ FromTheStart'
  BY <1>2, <1>3 DEF Inv, Stamped, FromTheStart
<1>8. QED
  BY <1>4, <1>5, <1>6, <1>7 DEF Inv

LEMMA NextInv == Inv /\ [Next]_vars => Inv'
<1> SUFFICES ASSUME Inv, [Next]_vars PROVE Inv'
  OBVIOUS
<1>1. ASSUME NEW r \in Runners, StartRun(r) PROVE Inv'
  BY <1>1, StartRunInv
<1>2. ASSUME NEW r \in Runners, CreateTable(r) PROVE Inv'
  BY <1>2, CreateTableInv
<1>3. ASSUME NEW r \in Runners, Check(r) PROVE Inv'
  BY <1>3, CheckInv
<1>4. ASSUME NEW r \in Runners, Begin(r) PROVE Inv'
  BY <1>4, BeginInv
<1>5. ASSUME NEW r \in Runners, RunSql(r) PROVE Inv'
  BY <1>5, RunSqlInv
<1>6. ASSUME NEW r \in Runners, InsertRow(r) PROVE Inv'
  BY <1>6, InsertRowInv
<1>7. ASSUME NEW r \in Runners, Commit(r) PROVE Inv'
  BY <1>7, CommittedInv DEF Commit, bounds, Inv, TypeOK
<1>8. ASSUME NEW r \in Runners, StatementFails(r) PROVE Inv'
  BY <1>8, FailInv DEF StatementFails, Inv, TypeOK
<1>9. ASSUME NEW r \in Runners, CommitReplyLost(r) PROVE Inv'
  BY <1>9, CommittedInv DEF CommitReplyLost, Inv, TypeOK
<1>10. ASSUME NEW r \in Runners, Restart(r) PROVE Inv'
  BY <1>10, RestartInv
<1>11. ASSUME NEW b \in Rollbackers, PickLast(b) PROVE Inv'
  BY <1>11, PickLastInv
<1>12. ASSUME NEW b \in Rollbackers, DeleteRow(b) PROVE Inv'
  BY <1>12, DeleteRowInv
<1>13. CASE UNCHANGED vars
  <2>1. TypeOK'
    BY <1>13 DEF Inv, TypeOK, vars, Loop
  <2>2. EffectsRecorded'
    BY <1>13, Balance DEF Inv, vars
  <2>3. RowsUnique' /\ Stamped'
    BY <1>13, Fewer DEF Inv, vars
  <2>4. FromTheStart'
    BY <1>13 DEF Inv, FromTheStart, vars
  <2>5. QED
    BY <2>1, <2>2, <2>3, <2>4 DEF Inv
<1>14. QED
  BY <1>1, <1>2, <1>3, <1>4, <1>5, <1>6, <1>7, <1>8, <1>9, <1>10, <1>11, <1>12, <1>13
  DEF Next, RunStep

LEMMA InvHolds == Spec => []Inv
<1>1. QED
  BY InitInv, NextInv, PTL DEF Spec

\* Every variable stays in its range; in particular a running call is always
\* at a migration of the list, and a rollback at a version that exists.
THEOREM TypeCorrect == Spec => []TypeOK
<1>1. Inv => TypeOK
  BY DEF Inv
<1>2. QED
  BY <1>1, InvHolds, PTL

\* Each migration's SQL has taken effect exactly as often as it got a row,
\* for any number of processes, rollbacks, faults and restarts: run() and
\* rollback_last() never lose an effect and never repeat one beside its row.
THEOREM EffectsRecordedCorrect == Spec => []EffectsRecorded
<1>1. Inv => EffectsRecorded
  BY DEF Inv
<1>2. QED
  BY <1>1, InvHolds, PTL

-----------------------------------------------------------------------------
\* What the loop has left behind has taken effect, for good: a rollback takes
\* the row only.
Behind ==
    \A r \in Runners :
        /\ pc[r] \in Loop => \A i \in 1..Len(Migrations) : i < index[r] => effects[Migrations[i]] > 0
        /\ pc[r] = "ok" => \A v \in Versions : effects[v] > 0

LEMMA ListVersion ==
    /\ Len(Migrations) \in Nat
    /\ \A i \in 1..Len(Migrations) : Migrations[i] \in Versions
    /\ \A v \in Versions : \E i \in 1..Len(Migrations) : Migrations[i] = v
<1>1. Len(Migrations) \in Nat /\ DOMAIN Migrations = 1..Len(Migrations)
  BY ListAssumption
<1>2. QED
  BY <1>1 DEF Versions, Range

LEMMA RowHasEffect ==
    ASSUME Inv, NEW v \in Versions, Applied(v)
    PROVE  effects[v] > 0
BY DEF Inv, TypeOK, EffectsRecorded

LEMMA EffectsGrow ==
    ASSUME Inv, Next
    PROVE  \A v \in Versions : effects[v] > 0 => effects'[v] > 0
<1>1. ASSUME NEW r \in Runners, pc[r] = "commit", Committed(r)
      PROVE  \A v \in Versions : effects[v] > 0 => effects'[v] > 0
  BY <1>1, VersionInList DEF Inv, TypeOK, Loop, Committed
<1>2. CASE UNCHANGED effects
  BY <1>2
<1>3. QED
  BY <1>1, <1>2
  DEF Next, RunStep, StartRun, CreateTable, Check, Begin, RunSql, Execute, InsertRow, Commit,
      StatementFails, CommitReplyLost, Restart, PickLast, DeleteRow, database

\* Past a migration that has an effect, the loop goes on or is over.
LEMMA ContinueBehind ==
    ASSUME Inv, Behind, NEW r \in Runners, pc[r] \in Loop, Continue(r),
           \A v \in Versions : effects[v] > 0 => effects'[v] > 0,
           effects'[Version(r)] > 0
    PROVE  Behind'
<1>1. /\ pc'[r] \in {"check", "ok"}
      /\ \A q \in Runners \ {r} : pc'[q] = pc[q] /\ index'[q] = index[q]
  BY ContinueTyped DEF Inv, Actors
<1>2. index[r] \in 1..Len(Migrations)
  BY DEF Inv, TypeOK
<1>3. \A i \in 1..Len(Migrations) : i <= index[r] => effects'[Migrations[i]] > 0
  BY <1>2, ListVersion DEF Behind, Version
<1>4. ASSUME NEW q \in Runners \ {r}
      PROVE  /\ pc'[q] \in Loop => \A i \in 1..Len(Migrations) :
                    i < index'[q] => effects'[Migrations[i]] > 0
             /\ pc'[q] = "ok" => \A v \in Versions : effects'[v] > 0
  BY <1>1, ListVersion DEF Behind
<1>5. CASE More(r)
  <2>1. pc'[r] = "check" /\ index'[r] = index[r] + 1
    BY <1>5 DEF Continue, Goto, Inv, TypeOK, Actors
  <2>2. \A i \in 1..Len(Migrations) : i < index'[r] => effects'[Migrations[i]] > 0
    BY <1>2, <1>3, <2>1
  <2>3. QED
    BY <1>4, <2>1, <2>2 DEF Behind
<1>6. CASE ~More(r)
  <2>1. pc'[r] = "ok"
    BY <1>6 DEF Continue, Goto, Inv, TypeOK, Actors
  <2>2. index[r] = Len(Migrations)
    BY <1>2, <1>6, ListVersion DEF More
  <2>3. \A v \in Versions : effects'[v] > 0
    BY <1>3, <2>2, ListVersion
  <2>4. QED
    BY <1>4, <2>1, <2>3 DEF Behind, Loop
<1>7. QED
  BY <1>5, <1>6

\* The call goes to another place at the same migration, or starts again.
LEMMA StaysBehind ==
    ASSUME Inv, Behind, NEW a \in Actors,
           \A v \in Versions : effects[v] > 0 => effects'[v] > 0,
           \A q \in Runners \ {a} : pc'[q] = pc[q] /\ index'[q] = index[q],
           a \in Runners =>
               \/ pc'[a] \in {"idle", "create", "err"}
               \/ pc'[a] \in Loop /\ (index'[a] = 1 \/ (pc[a] \in Loop /\ index'[a] = index[a]))
               \/ pc'[a] = "ok" /\ Versions = {}
    PROVE  Behind'
<1>1. ASSUME NEW q \in Runners
      PROVE  /\ pc'[q] \in Loop => \A i \in 1..Len(Migrations) :
                    i < index'[q] => effects'[Migrations[i]] > 0
             /\ pc'[q] = "ok" => \A v \in Versions : effects'[v] > 0
  <2>1. CASE q # a
    BY <2>1, ListVersion DEF Behind
  <2>2. CASE q = a
    BY <2>2, ListVersion DEF Behind, Loop
  <2>3. QED
    BY <2>1, <2>2
<1>2. QED
  BY <1>1 DEF Behind

LEMMA BehindStep ==
    ASSUME Inv, Behind, Next
    PROVE  Behind'
<1>0. /\ \A v \in Versions : effects[v] > 0 => effects'[v] > 0
      /\ pc \in [Actors -> Loop \union {"idle", "create", "delete", "ok", "err"}]
      /\ index \in [Runners -> Nat]
      /\ Runners \subseteq Actors /\ Rollbackers \subseteq Actors
  BY EffectsGrow DEF Inv, TypeOK, Actors
<1>1. ASSUME NEW r \in Runners, StartRun(r) PROVE Behind'
  BY <1>0, <1>1, StaysBehind DEF StartRun, Goto
<1>2. ASSUME NEW r \in Runners, CreateTable(r) PROVE Behind'
  <2>1. index[r] = 1 /\ index' = index
    BY <1>2 DEF Inv, FromTheStart, CreateTable, Fail
  <2>2. Migrations = <<>> => Versions = {}
    BY DEF Versions, Range
  <2>3. \E place \in {"err", "ok", "check"} :
            pc' = [pc EXCEPT ![r] = place] /\ (place = "ok" => Versions = {})
    BY <1>2, <2>2 DEF CreateTable, Fail, Goto
  <2>4. QED
    BY <1>0, <2>1, <2>3, StaysBehind DEF Loop
<1>3. ASSUME NEW r \in Runners, Check(r) PROVE Behind'
  <2>1. pc[r] \in Loop
    BY <1>3 DEF Check, Loop
  <2>2. CASE Applied(Version(r))
    <3>1. Version(r) \in Versions
      BY <2>1, VersionInList DEF Inv
    <3>2. effects'[Version(r)] > 0
      BY <1>0, <2>2, <3>1, RowHasEffect
    <3>3. QED
      BY <1>0, <1>3, <2>1, <2>2, <3>2, ContinueBehind DEF Check
  <2>3. CASE ~Applied(Version(r))
    BY <1>0, <1>3, <2>1, <2>3, StaysBehind DEF Check, Goto, Loop
  <2>4. QED
    BY <2>2, <2>3
<1>4. ASSUME NEW r \in Runners, Begin(r) PROVE Behind'
  BY <1>0, <1>4, StaysBehind DEF Begin, Goto, Loop
<1>5. ASSUME NEW r \in Runners, RunSql(r) \/ InsertRow(r) PROVE Behind'
  <2>1. pc[r] \in Loop /\ index' = index
        /\ \E place \in {"err", "insert", "commit"} : pc' = [pc EXCEPT ![r] = place]
    BY <1>5 DEF RunSql, InsertRow, Fail, Goto, Loop
  <2>2. QED
    BY <1>0, <2>1, StaysBehind DEF Loop
<1>6. ASSUME NEW r \in Runners, Commit(r) PROVE Behind'
  <2>1. pc[r] \in Loop /\ Continue(r)
    BY <1>6 DEF Commit, Loop
  <2>2. Version(r) \in Versions
    BY <2>1, VersionInList DEF Inv
  <2>3. effects'[Version(r)] > 0
    BY <1>6, <2>2 DEF Commit, Committed, Inv, TypeOK
  <2>4. QED
    BY <1>0, <2>1, <2>3, ContinueBehind
<1>7. ASSUME NEW r \in Runners, StatementFails(r) \/ CommitReplyLost(r) \/ Restart(r) PROVE Behind'
  <2>1. /\ \E place \in {"err", "idle"} : pc' = [pc EXCEPT ![r] = place]
        /\ \A q \in Runners \ {r} : index'[q] = index[q]
    BY <1>0, <1>7 DEF StatementFails, CommitReplyLost, Restart, Fail, Goto
  <2>2. QED
    BY <1>0, <2>1, StaysBehind
<1>8. ASSUME NEW b \in Rollbackers, PickLast(b) \/ DeleteRow(b) PROVE Behind'
  <2>1. index' = index /\ \E place \in {"err", "ok", "delete"} : pc' = [pc EXCEPT ![b] = place]
    BY <1>8 DEF PickLast, DeleteRow, Goto
  <2>2. b \notin Runners
    BY ActorsAssumption
  <2>3. QED
    BY <1>0, <2>1, <2>2, StaysBehind
<1>9. QED
  BY <1>1, <1>2, <1>3, <1>4, <1>5, <1>6, <1>7, <1>8 DEF Next, RunStep

\* A call of run() that returned Ok leaves every migration of the list in
\* effect, whoever committed it and whatever is rolled back afterwards.
THEOREM OkMeansAppliedCorrect == Spec => []OkMeansApplied
<1>1. Init => Behind
  BY DEF Init, Behind, Actors, Loop
<1>2. Inv /\ Behind /\ [Next]_vars => Behind'
  <2>1. CASE Next
    BY <2>1, BehindStep
  <2>2. CASE UNCHANGED vars
    BY <2>2 DEF vars, database, bounds, Behind
  <2>3. QED
    BY <2>1, <2>2
<1>3. Behind => OkMeansApplied
  BY DEF Behind, OkMeansApplied
<1>4. QED
  BY InitInv, NextInv, <1>1, <1>2, <1>3, PTL DEF Spec

-----------------------------------------------------------------------------
(***************************************************************************)
(* The order of the rows, until something is rolled back.                  *)
(***************************************************************************)
VersionsDistinct == IsInjective(Migrations)

\* The places of a migration that was found missing.
Applying == {"begin", "sql", "insert", "commit"}

Places == 1..Len(Migrations)

\* Nothing is applied before what comes before it in the list, and a call that
\* applies a migration has no row of it behind it.
InTurn ==
    /\ \A v \in Recorded : \E f \in Places :
          Migrations[f] = v /\ \A j \in Places : j < f => Applied(Migrations[j])
    /\ \A r \in Runners : pc[r] \in Applying =>
          \A j \in Places : j < index[r] => Migrations[j] # Version(r)

\* Times grow along the list, if no version is in it twice.
Rising ==
    /\ \A v \in Versions : appliedAt[v] <= clock
    /\ \A r \in Runners : pc[r] \in Applying \ {"begin"} =>
          /\ begun[r] <= clock
          /\ \A j \in Places : j < index[r] => appliedAt[Migrations[j]] < begun[r]
    /\ \A i, j \in Places :
          i < j /\ Applied(Migrations[i]) /\ Applied(Migrations[j]) =>
              appliedAt[Migrations[i]] < appliedAt[Migrations[j]]

Orderly == ~RolledBack => InTurn
Dated == ~RolledBack => Rising

\* The call has every row behind it: no rival can make it fail.
Leads(q) ==
    \/ pc[q] = "ok"
    \/ /\ pc[q] \in Loop
       /\ \A v \in Recorded : \E j \in Places : j < index[q] /\ Migrations[j] = v

Led ==
    /\ \A r \in Runners : saw[r] => table
    /\ Recorded # {} => table
    /\ \A r \in Runners : pc[r] \in Loop \union {"ok"} => table
    /\ faults + restarts = 0 /\ ~RolledBack =>
          IF table THEN \E q \in Runners : Leads(q)
          ELSE \A r \in Runners : pc[r] \in {"idle", "create"}

LoopInv == Inv /\ Behind

\* Until a rollback, what has taken effect has its row.
LEMMA EffectHasRow ==
    ASSUME Inv, ~RolledBack, NEW v \in Versions
    PROVE  effects[v] > 0 <=> Applied(v)
BY DEF Inv, TypeOK, EffectsRecorded, RolledBack

\* Everything behind the loop is applied.
LEMMA BehindApplied ==
    ASSUME LoopInv, ~RolledBack, NEW r \in Runners, pc[r] \in Loop
    PROVE  \A j \in Places : j < index[r] => Applied(Migrations[j])
BY EffectHasRow, ListVersion DEF LoopInv, Behind, Places

LEMMA RolledBackStays ==
    ASSUME Inv, Next, ~RolledBack'
    PROVE  ~RolledBack
<1>1. UNCHANGED removed \/ \E b \in Rollbackers : DeleteRow(b)
  BY DEF Next, RunStep, StartRun, CreateTable, Check, Begin, RunSql, InsertRow, Commit,
         Committed, StatementFails, CommitReplyLost, Restart, PickLast, database
<1>2. removed \in [Versions -> Nat]
  BY DEF Inv, TypeOK
<1>3. ASSUME NEW b \in Rollbackers, DeleteRow(b), NEW v \in Versions, removed[v] > 0
      PROVE  removed'[v] > 0
  <2>1. removed' = removed \/ removed' = [removed EXCEPT ![picked[b]] = removed[picked[b]] + 1]
    BY <1>3 DEF DeleteRow
  <2>2. QED
    BY <1>2, <1>3, <2>1
<1>4. QED
  BY <1>1, <1>3 DEF RolledBack

\* Without a rollback the rows change by a commit only.
LEMMA RowsChange ==
    ASSUME Inv, Next, ~RolledBack'
    PROVE  \/ appliedAt' = appliedAt
           \/ \E r \in Runners : /\ pc[r] = "commit"
                                 /\ Committed(r)
                                 /\ Continue(r) \/ Fail(r)
                                 /\ UNCHANGED <<saw, begun, picked, clock>>
<1>1. ASSUME NEW b \in Rollbackers, DeleteRow(b) PROVE appliedAt' = appliedAt
  <2>1. picked[b] \in Versions
    BY <1>1 DEF DeleteRow, Inv, TypeOK
  <2>2. ~Applied(picked[b])
    BY <1>1, <2>1 DEF DeleteRow, RolledBack, Inv, TypeOK
  <2>3. QED
    BY <1>1, <2>1, <2>2 DEF DeleteRow, Applied, Inv, TypeOK
<1>2. QED
  BY <1>1 DEF Next, RunStep, StartRun, CreateTable, Check, Begin, RunSql, InsertRow, Commit,
         CommitReplyLost, StatementFails, Restart, PickLast, database, bounds

\* How a call comes to apply a migration, and when its transaction begins.
LEMMA Applier ==
    ASSUME Inv, Next, NEW r \in Runners, pc'[r] \in Applying
    PROVE  /\ index'[r] = index[r]
           /\ pc[r] \in Applying \/ (pc[r] = "check" /\ ~Applied(Version(r)))
           /\ pc'[r] # "begin" =>
                 \/ pc[r] \in Applying \ {"begin"} /\ begun'[r] = begun[r]
                 \/ pc[r] = "begin" /\ begun'[r] = clock + 1 /\ clock' = clock + 1
<1>0. /\ pc \in [Actors -> Loop \union {"idle", "create", "delete", "ok", "err"}]
      /\ index \in [Runners -> Nat] /\ begun \in [Runners -> Nat]
      /\ r \in Actors /\ Runners \subseteq Actors /\ Rollbackers \subseteq Actors
      /\ \A b \in Rollbackers : b # r
  BY ActorsAssumption DEF Inv, TypeOK, Actors
<1>1. ASSUME NEW q \in Runners, StartRun(q) \/ CreateTable(q) PROVE pc'[r] = pc[r] /\ q # r
             /\ index'[r] = index[r] /\ begun'[r] = begun[r]
  BY <1>0, <1>1 DEF StartRun, CreateTable, Fail, Goto, Applying
<1>2. ASSUME NEW q \in Runners, Check(q)
      PROVE  /\ index'[r] = index[r] /\ begun'[r] = begun[r]
             /\ pc[r] = pc'[r] \/ (pc'[r] = "begin" /\ pc[r] = "check" /\ ~Applied(Version(r)))
  <2>1. CASE q = r
    <3>1. pc[r] = "check"
      BY <1>2, <2>1 DEF Check
    <3>2. ~Continue(r)
      BY <3>1, ContinueTyped DEF Inv, Applying, Loop
    <3>3. QED
      BY <1>0, <1>2, <2>1, <3>1, <3>2 DEF Check, Goto
  <2>2. CASE q # r
    BY <1>0, <1>2, <2>2 DEF Check, Continue, Goto
  <2>3. QED
    BY <2>1, <2>2
<1>3. ASSUME NEW q \in Runners, Begin(q)
      PROVE  /\ index'[r] = index[r]
             /\ \/ pc[r] = pc'[r] /\ begun'[r] = begun[r]
                \/ pc'[r] = "sql" /\ pc[r] = "begin" /\ begun'[r] = clock + 1 /\ clock' = clock + 1
  BY <1>0, <1>3 DEF Begin, Goto
<1>4. ASSUME NEW q \in Runners, RunSql(q) \/ InsertRow(q)
      PROVE  /\ index'[r] = index[r] /\ begun'[r] = begun[r]
             /\ \/ pc[r] = pc'[r]
                \/ pc[r] \in {"sql", "insert"} /\ pc'[r] \in {"insert", "commit"}
  BY <1>0, <1>4 DEF RunSql, InsertRow, Fail, Goto, Applying
<1>5. ASSUME NEW q \in Runners, Commit(q)
      PROVE  pc'[r] = pc[r] /\ index'[r] = index[r] /\ begun'[r] = begun[r]
  <2>1. pc[q] = "commit" /\ Continue(q) /\ begun' = begun
    BY <1>5 DEF Commit
  <2>2. QED
    BY <1>0, <2>1, ContinueTyped DEF Inv, Applying, Loop
<1>6. ASSUME NEW q \in Runners, StatementFails(q) \/ CommitReplyLost(q) \/ Restart(q)
      PROVE  pc'[r] = pc[r] /\ index'[r] = index[r] /\ begun'[r] = begun[r]
  BY <1>0, <1>6 DEF StatementFails, CommitReplyLost, Restart, Fail, Goto, Applying
<1>7. ASSUME NEW b \in Rollbackers, PickLast(b) \/ DeleteRow(b)
      PROVE  pc'[r] = pc[r] /\ index'[r] = index[r] /\ begun'[r] = begun[r]
  BY <1>0, <1>7 DEF PickLast, DeleteRow, Goto
<1>8. QED
  BY <1>1, <1>2, <1>3, <1>4, <1>5, <1>6, <1>7 DEF Next, RunStep, Applying

LEMMA ClockGrows ==
    ASSUME Inv, Next
    PROVE  clock \in Nat /\ clock' \in Nat /\ clock' >= clock
<1>1. clock' = clock \/ clock' = clock + 1
  BY DEF Next, RunStep, StartRun, CreateTable, Check, Begin, RunSql, InsertRow, Commit,
         CommitReplyLost, StatementFails, Restart, PickLast, DeleteRow, bounds
<1>2. QED
  BY <1>1 DEF Inv, TypeOK

\* What a commit does to the rows.
LEMMA CommitRow ==
    ASSUME Inv, NEW r \in Runners, pc[r] = "commit", Committed(r)
    PROVE  /\ index[r] \in Places
           /\ Version(r) \in Versions
           /\ ~Applied(Version(r))
           /\ begun[r] > 0
           /\ appliedAt'[Version(r)] = begun[r]
           /\ \A v \in Versions : v # Version(r) => appliedAt'[v] = appliedAt[v]
           /\ \A v \in Versions : (Applied(v))' <=> Applied(v) \/ v = Version(r)
<1>1. index[r] \in Places /\ Version(r) \in Versions /\ ~Applied(Version(r))
      /\ begun[r] \in Nat /\ begun[r] > 0
  BY VersionInList DEF Inv, TypeOK, RowsUnique, Stamped, Loop, Places
<1>2. /\ appliedAt'[Version(r)] = begun[r]
      /\ \A v \in Versions : v # Version(r) => appliedAt'[v] = appliedAt[v]
  BY <1>1 DEF Committed, Inv, TypeOK
<1>3. QED
  BY <1>1, <1>2 DEF Applied, None

LEMMA OrderlyStep ==
    ASSUME LoopInv, Orderly, Next
    PROVE  Orderly'
<1> SUFFICES ASSUME ~RolledBack' PROVE InTurn'
  BY DEF Orderly
<1>0. Inv /\ ~RolledBack /\ InTurn
  BY RolledBackStays DEF LoopInv, Orderly
<1>1. ASSUME NEW v \in Versions, (Applied(v))'
      PROVE  \E f \in Places : Migrations[f] = v
                               /\ \A j \in Places : j < f => (Applied(Migrations[j]))'
  <2>1. CASE appliedAt' = appliedAt
    BY <1>0, <1>1, <2>1 DEF InTurn, Recorded, Applied
  <2>2. ASSUME NEW r \in Runners, pc[r] = "commit", Committed(r)
        PROVE  \E f \in Places : Migrations[f] = v
                               /\ \A j \in Places : j < f => (Applied(Migrations[j]))'
    <3>1. \A u \in Versions : (Applied(u))' <=> Applied(u) \/ u = Version(r)
      BY <1>0, <2>2, CommitRow
    <3>2. CASE v = Version(r)
      <4>1. index[r] \in Places /\ Migrations[index[r]] = v
        BY <1>0, <2>2, <3>2, CommitRow DEF Version
      <4>2. \A j \in Places : j < index[r] => Applied(Migrations[j])
        BY <1>0, <2>2, BehindApplied DEF Loop
      <4>3. QED
        BY <3>1, <4>1, <4>2, ListVersion DEF Places
    <3>3. CASE v # Version(r)
      <4>1. v \in Recorded
        BY <1>1, <3>1, <3>3 DEF Recorded
      <4>2. QED
        BY <1>0, <3>1, <4>1, ListVersion DEF InTurn, Places
    <3>4. QED
      BY <3>2, <3>3
  <2>3. QED
    BY <1>0, <2>1, <2>2, RowsChange
<1>2. ASSUME NEW r \in Runners, pc'[r] \in Applying
      PROVE  \A j \in Places : j < index'[r] => Migrations[j] # Migrations[index'[r]]
  <2>1. index'[r] = index[r]
        /\ (pc[r] \in Applying \/ (pc[r] = "check" /\ ~Applied(Version(r))))
    BY <1>0, <1>2, Applier
  <2>2. CASE pc[r] \in Applying
    BY <1>0, <2>1, <2>2 DEF InTurn, Version
  <2>3. CASE pc[r] = "check" /\ ~Applied(Version(r))
    BY <1>0, <2>1, <2>3, BehindApplied DEF Version, Loop
  <2>4. QED
    BY <2>1, <2>2, <2>3
<1>3. QED
  BY <1>1, <1>2 DEF InTurn, Recorded, Version

LEMMA DatedStep ==
    ASSUME LoopInv, Orderly, Dated, VersionsDistinct, Next
    PROVE  Dated'
<1> SUFFICES ASSUME ~RolledBack' PROVE Rising'
  BY DEF Dated
<1>0. Inv /\ ~RolledBack /\ InTurn /\ Rising
  BY RolledBackStays DEF LoopInv, Orderly, Dated
<1>1. clock \in Nat /\ clock' \in Nat /\ clock' >= clock
  BY <1>0, ClockGrows
<1>2. appliedAt \in [Versions -> Nat] /\ begun \in [Runners -> Nat]
  BY <1>0 DEF Inv, TypeOK
<1>3. ASSUME NEW v \in Versions PROVE appliedAt'[v] <= clock'
  <2>1. CASE appliedAt' = appliedAt
    BY <1>0, <1>1, <1>2, <2>1 DEF Rising
  <2>2. ASSUME NEW r \in Runners, pc[r] = "commit", Committed(r)
        PROVE  appliedAt'[v] <= clock'
    <3>1. begun[r] <= clock
      BY <1>0, <2>2 DEF Rising, Applying
    <3>2. appliedAt'[v] = begun[r] \/ appliedAt'[v] = appliedAt[v]
      BY <1>0, <2>2, CommitRow
    <3>3. QED
      BY <1>0, <1>1, <1>2, <3>1, <3>2 DEF Rising
  <2>3. QED
    BY <1>0, <2>1, <2>2, RowsChange
\* The rows behind a transaction do not move.
<1>4. ASSUME NEW v \in Versions, Applied(v) PROVE appliedAt'[v] = appliedAt[v]
  BY <1>0, <1>4, RowsChange, CommitRow
<1>5. ASSUME NEW r \in Runners, pc'[r] \in Applying \ {"begin"}
      PROVE  /\ begun'[r] <= clock'
             /\ \A j \in Places : j < index'[r] => appliedAt'[Migrations[j]] < begun'[r]
  <2>1. /\ index'[r] = index[r]
        /\ \/ pc[r] \in Applying \ {"begin"} /\ begun'[r] = begun[r]
           \/ pc[r] = "begin" /\ begun'[r] = clock + 1 /\ clock' = clock + 1
    BY <1>0, <1>5, Applier DEF Applying
  <2>2. \A j \in Places : j < index[r] =>
            Migrations[j] \in Versions /\ appliedAt'[Migrations[j]] = appliedAt[Migrations[j]]
    BY <1>0, <1>4, <2>1, BehindApplied, ListVersion DEF Applying, Loop, Places
  <2>3. CASE pc[r] \in Applying \ {"begin"} /\ begun'[r] = begun[r]
    BY <1>0, <1>1, <1>2, <2>1, <2>2, <2>3 DEF Rising
  <2>4. CASE pc[r] = "begin" /\ begun'[r] = clock + 1 /\ clock' = clock + 1
    <3>1. \A j \in Places : j < index[r] => appliedAt[Migrations[j]] <= clock
      BY <1>0, <2>2 DEF Rising
    <3>2. QED
      BY <1>1, <1>2, <2>1, <2>2, <2>4, <3>1
  <2>5. QED
    BY <2>1, <2>3, <2>4
<1>6. ASSUME NEW i \in Places, NEW j \in Places, i < j,
             (Applied(Migrations[i]))', (Applied(Migrations[j]))'
      PROVE  appliedAt'[Migrations[i]] < appliedAt'[Migrations[j]]
  <2>0. Migrations[i] \in Versions /\ Migrations[j] \in Versions
    BY ListVersion DEF Places
  <2>1. CASE appliedAt' = appliedAt
    BY <1>0, <1>6, <2>1 DEF Rising, Applied
  <2>2. ASSUME NEW r \in Runners, pc[r] = "commit", Committed(r)
        PROVE  appliedAt'[Migrations[i]] < appliedAt'[Migrations[j]]
    <3>0. /\ \A v \in Versions : (Applied(v))' <=> Applied(v) \/ v = Version(r)
          /\ index[r] \in Places /\ ~Applied(Version(r))
          /\ appliedAt'[Version(r)] = begun[r]
      BY <1>0, <2>2, CommitRow
    <3>1. CASE Applied(Migrations[i]) /\ Applied(Migrations[j])
      BY <1>0, <1>4, <1>6, <2>0, <3>1 DEF Rising
    <3>2. CASE Migrations[j] = Version(r)
      <4>1. j = index[r]
        BY <3>0, <3>2, ListVersion DEF VersionsDistinct, IsInjective, Version, Places
      <4>2. appliedAt[Migrations[i]] < begun[r]
        BY <1>0, <1>6, <2>2, <4>1 DEF Rising, Applying
      <4>3. Applied(Migrations[i])
        BY <1>0, <1>6, <2>2, <4>1, BehindApplied DEF Loop
      <4>4. QED
        BY <1>4, <2>0, <3>0, <3>2, <4>2, <4>3
    <3>3. CASE Migrations[j] # Version(r) /\ Migrations[i] = Version(r)
      <4>1. i = index[r]
        BY <3>0, <3>3, ListVersion DEF VersionsDistinct, IsInjective, Version, Places
      <4>2. Migrations[j] \in Recorded
        BY <1>6, <2>0, <3>0, <3>3 DEF Recorded
      <4>3. PICK f \in Places : Migrations[f] = Migrations[j]
                                /\ \A k \in Places : k < f => Applied(Migrations[k])
        BY <1>0, <4>2 DEF InTurn
      <4>4. f = j
        BY <4>3, ListVersion DEF VersionsDistinct, IsInjective, Places
      <4>5. QED
        BY <1>6, <3>0, <3>3, <4>3, <4>4
    <3>4. QED
      BY <1>6, <2>0, <3>0, <3>1, <3>2, <3>3
  <2>3. QED
    BY <1>0, <2>1, <2>2, RowsChange
<1>7. QED
  BY <1>3, <1>5, <1>6 DEF Rising

OrderInv == LoopInv /\ Orderly

LEMMA OrderHolds == Spec => []OrderInv
<1>1. Init => OrderInv
  <2>1. Init => Behind /\ Orderly
    BY DEF Init, Behind, Orderly, InTurn, Recorded, Applied, Actors, Loop, Applying
  <2>2. QED
    BY <2>1, InitInv DEF OrderInv, LoopInv
<1>2. OrderInv /\ [Next]_vars => OrderInv'
  <2> SUFFICES ASSUME OrderInv, [Next]_vars PROVE OrderInv'
    OBVIOUS
  <2>1. Inv'
    BY NextInv DEF OrderInv, LoopInv
  <2>2. CASE Next
    BY <2>1, <2>2, BehindStep, OrderlyStep DEF OrderInv, LoopInv
  <2>3. CASE UNCHANGED vars
    <3>1. Behind' /\ Orderly'
      BY <2>3 DEF vars, database, bounds, OrderInv, LoopInv, Behind, Orderly, InTurn, Recorded,
                  Applied, Version, RolledBack
    <3>2. QED
      BY <2>1, <3>1 DEF OrderInv, LoopInv
  <2>4. QED
    BY <2>2, <2>3
<1>3. QED
  BY <1>1, <1>2, PTL DEF Spec

LEMMA DatedHolds == ASSUME VersionsDistinct PROVE Spec => []Dated
<1>1. Init => Dated
  BY ListVersion DEF Init, Dated, Rising, Applied, None, Actors, Applying, Places
<1>2. OrderInv /\ Dated /\ [Next]_vars => Dated'
  <2> SUFFICES ASSUME OrderInv, Dated, [Next]_vars PROVE Dated'
    OBVIOUS
  <2>1. CASE Next
    BY <2>1, DatedStep DEF OrderInv
  <2>2. CASE UNCHANGED vars
    BY <2>2 DEF vars, database, bounds, Dated, Rising, RolledBack, Applied
  <2>3. QED
    BY <2>1, <2>2
<1>3. QED
  BY <1>1, <1>2, OrderHolds, PTL DEF Spec

LEMMA LeastNumber ==
    ASSUME NEW S \in SUBSET Nat, S # {}
    PROVE  \E m \in S : \A n \in S : m <= n
<1>1. PICK m \in S : \A n \in S : <<n, m>> \notin OpToRel(<, Nat)
  BY NatLessThanWellFounded, WFMin
<1>2. \A n \in S : ~(n < m)
  BY <1>1 DEF OpToRel
<1>3. QED
  BY <1>2

\* The versions with a row are the first of the list.
LEMMA RecordedFirst ==
    ASSUME InTurn
    PROVE  \E k \in 0..Len(Migrations) : Recorded = {Migrations[i] : i \in 1..k}
<1> DEFINE U == {i \in Places : ~Applied(Migrations[i])}
<1>1. ASSUME NEW k \in 0..Len(Migrations),
             \A i \in 1..k : Applied(Migrations[i]),
             k = Len(Migrations) \/ ~Applied(Migrations[k + 1])
      PROVE  Recorded = {Migrations[i] : i \in 1..k}
  <2>1. \A i \in 1..k : Migrations[i] \in Recorded
    BY <1>1, ListVersion DEF Recorded
  <2>2. ASSUME NEW v \in Recorded PROVE \E i \in 1..k : v = Migrations[i]
    <3>1. PICK f \in Places : Migrations[f] = v
                              /\ \A j \in Places : j < f => Applied(Migrations[j])
      BY DEF InTurn
    <3>2. Applied(Migrations[f])
      BY <3>1 DEF Recorded
    <3>3. f \in 1..k
      <4>1. CASE k = Len(Migrations)
        BY <4>1, ListVersion DEF Places
      <4>2. CASE k # Len(Migrations)
        <5>1. k + 1 \in Places /\ ~Applied(Migrations[k + 1])
          BY <1>1, <4>2, ListVersion DEF Places
        <5>2. ~(k + 1 < f) /\ k + 1 # f
          BY <3>1, <3>2, <5>1
        <5>3. QED
          BY <5>1, <5>2, ListVersion DEF Places
      <4>3. QED
        BY <4>1, <4>2
    <3>4. QED
      BY <3>1, <3>3
  <2>3. QED
    BY <2>1, <2>2
<1>2. CASE U = {}
  <2>1. Len(Migrations) \in 0..Len(Migrations) /\ \A i \in 1..Len(Migrations) : Applied(Migrations[i])
    BY <1>2, ListVersion DEF Places
  <2>2. QED
    BY <1>1, <2>1
<1>3. CASE U # {}
  <2>1. PICK m \in U : \A n \in U : m <= n
    <3>1. U \in SUBSET Nat
      BY ListVersion DEF Places
    <3>2. QED
      BY <1>3, <3>1, LeastNumber
  <2>2. m \in Places /\ ~Applied(Migrations[m])
    BY <2>1
  <2>3. /\ m - 1 \in 0..Len(Migrations)
        /\ \A i \in 1..(m - 1) : Applied(Migrations[i])
        /\ (m - 1) + 1 = m
    BY <2>1, <2>2, ListVersion DEF Places
  <2>4. QED
    BY <1>1, <2>2, <2>3
<1>4. QED
  BY <1>2, <1>3

\* Whatever order the query returns, sorted by time it is that of the list.
LEMMA SortedIsPrefix ==
    ASSUME Inv, InTurn, Rising, VersionsDistinct
    PROVE  IsPrefix(ListApplied, Migrations)
<1>1. PICK k \in 0..Len(Migrations) : Recorded = {Migrations[i] : i \in 1..k}
  BY RecordedFirst
<1> DEFINE D == 1..k
           list == [i \in D |-> Migrations[i]]
           Ordered(rows) == \A i, j \in DOMAIN rows :
                                i < j => appliedAt[rows[i]] <= appliedAt[rows[j]]
<1>2. /\ k \in Nat /\ Len(Migrations) \in Nat /\ k <= Len(Migrations)
      /\ \A i \in D : i \in Places /\ i \in Nat /\ Migrations[i] \in Versions /\ Applied(Migrations[i])
      /\ \A i, j \in D : Migrations[i] = Migrations[j] => i = j
  BY <1>1, ListVersion DEF Places, Recorded, VersionsDistinct, IsInjective
<1>3. IsFiniteSet(Recorded) /\ Cardinality(Recorded) = k
  <2>1. list \in Bijection(D, Recorded)
    BY <1>1, <1>2 DEF Bijection, Injection, Surjection, IsInjective
  <2>2. ExistsBijection(1..k, Recorded)
    BY <2>1 DEF ExistsBijection
  <2>3. QED
    BY <1>2, <2>2, FS_CountingElements, FS_NatBijection
<1>4. SetToSeqs(Recorded) = {f \in [D -> Recorded] : \A i, j \in D : i # j => f[i] # f[j]}
  BY <1>3 DEF SetToSeqs
<1>5. \A i \in D : appliedAt[Migrations[i]] \in Nat
  BY <1>2 DEF Inv, TypeOK
<1>6. \A i, j \in D : i < j => appliedAt[Migrations[i]] < appliedAt[Migrations[j]]
  BY <1>2 DEF Rising
<1>7. list \in SetToSeqs(Recorded) /\ Ordered(list)
  <2>1. list \in [D -> Recorded]
    BY <1>1
  <2>2. Ordered(list)
    BY <1>2, <1>5, <1>6
  <2>3. QED
    BY <1>2, <1>4, <2>1, <2>2
<1> DEFINE rows == ListApplied
<1>8. rows \in SetToSeqs(Recorded) /\ Ordered(rows)
  BY <1>7 DEF ListApplied
<1>9. /\ rows \in [D -> Recorded]
      /\ \A i, j \in D : i # j => rows[i] # rows[j]
      /\ \A i, j \in D : i < j => appliedAt[rows[i]] <= appliedAt[rows[j]]
  <2>1. rows \in [D -> Recorded]
    BY <1>4, <1>8
  <2>2. DOMAIN rows = D
    BY <2>1
  <2>3. QED
    BY <1>4, <1>8, <2>1, <2>2
<1> HIDE DEF rows, list, Ordered
<1>10. \A v \in Recorded : \E i \in D : rows[i] = v
  <2>1. rows \in Injection(D, Recorded)
    BY <1>9 DEF Injection, IsInjective
  <2>2. IsFiniteSet(D) /\ Cardinality(D) = k
    BY <1>2, FS_Interval
  <2>3. rows \in Surjection(D, Recorded)
    BY <1>3, <2>1, <2>2, FS_Injection
  <2>4. QED
    BY <2>3 DEF Surjection
<1>11. \A i \in D : rows[i] = Migrations[i]
  <2> DEFINE B == {i \in D : rows[i] # Migrations[i]}
  <2>1. SUFFICES ASSUME B # {} PROVE FALSE
    OBVIOUS
  <2>2. PICK b \in B : \A n \in B : b <= n
    <3>1. B \in SUBSET Nat
      BY <1>2
    <3>2. QED
      BY <2>1, <3>1, LeastNumber
  <2>3. b \in D /\ b \in Nat /\ rows[b] # Migrations[b] /\ \A n \in D : n < b => rows[n] = Migrations[n]
    BY <1>2, <2>2
  <2> HIDE DEF B
  <2>4. PICK j \in D : rows[j] = Migrations[b]
    BY <1>1, <1>10, <2>3
  <2>5. PICK c \in D : rows[b] = Migrations[c]
    BY <1>1, <1>9, <2>3
  <2>6. j \in Nat /\ c \in Nat
    BY <1>2
  <2>7. j > b
    BY <1>2, <2>3, <2>4, <2>6
  <2>8. c > b
    BY <1>9, <2>3, <2>5, <2>6
  <2>9. appliedAt[Migrations[c]] <= appliedAt[Migrations[b]]
    BY <1>9, <2>3, <2>4, <2>5, <2>7
  <2>10. appliedAt[Migrations[b]] < appliedAt[Migrations[c]]
    BY <1>6, <2>3, <2>8
  <2>11. QED
    BY <1>5, <2>3, <2>9, <2>10
<1>12. rows \in Seq(Versions) /\ Len(rows) = k
  <2>1. Recorded \subseteq Versions
    BY DEF Recorded
  <2>2. QED
    BY <1>2, <1>9, <2>1
<1>13. SubSeq(rows, 1, k) = SubSeq(Migrations, 1, k)
  BY <1>2, <1>11, <1>12, ListAssumption
<1>14. QED
  BY <1>2, <1>12, <1>13 DEF IsPrefix, rows

\* Until something is rolled back, list_applied shows the first migrations of
\* the list in the order of the list, if no version is in it twice: although
\* the rows carry the time their transactions began and processes overtake
\* each other, none begins before all of its predecessors are committed.
THEOREM ListIsPrefixCorrect == ASSUME VersionsDistinct PROVE Spec => []ListIsPrefix
<1>1. OrderInv /\ Dated => ListIsPrefix
  BY SortedIsPrefix DEF OrderInv, LoopInv, Orderly, Dated, ListIsPrefix
<1>2. QED
  BY <1>1, OrderHolds, DatedHolds, PTL

-----------------------------------------------------------------------------
(***************************************************************************)
(* Of the calls that race, one always leads: it has every row behind it,   *)
(* and nothing but a fault can stop it.                                    *)
(***************************************************************************)
LEMMA TableStays ==
    ASSUME TypeOK, Next
    PROVE  /\ table => table'
           /\ \A q \in Runners : saw'[q] => saw[q] \/ table
<1>1. ASSUME NEW r \in Runners, StartRun(r)
      PROVE  table' = table /\ \A q \in Runners : saw'[q] => saw[q] \/ table
  BY <1>1 DEF StartRun, database, TypeOK
<1>2. QED
  BY <1>1 DEF Next, RunStep, CreateTable, Check, Begin, RunSql, InsertRow, Commit, Committed,
         CommitReplyLost, StatementFails, Restart, PickLast, DeleteRow, database

\* A leader that a step leaves alone leads after it.
LEMMA LeadKept ==
    ASSUME NEW q \in Runners, Leads(q), pc'[q] = pc[q], index'[q] = index[q],
           appliedAt' = appliedAt
    PROVE  Leads(q)'
BY DEF Leads, Recorded, Applied

\* A leader finds nobody's row at its migration.
LEMMA LeaderAlone ==
    ASSUME Inv, InTurn, ~RolledBack, NEW q \in Runners, Leads(q), pc[q] \in Applying
    PROVE  ~Applied(Version(q)) /\ ~(effects[Version(q)] > 0)
<1>1. Version(q) \in Versions
  BY VersionInList DEF Inv, Applying, Loop
<1>2. ~Applied(Version(q))
  BY <1>1 DEF InTurn, Leads, Recorded, Applying
<1>3. QED
  BY <1>1, <1>2, EffectHasRow

\* Moving on past a migration that has its row.
LEMMA LeadOn ==
    ASSUME Inv, NEW r \in Runners, pc[r] \in Loop, Continue(r),
           \A v \in Versions : (Applied(v))' =>
               \E j \in Places : j <= index[r] /\ Migrations[j] = v
    PROVE  Leads(r)'
<1>1. index[r] \in Places /\ index \in [Runners -> Nat]
      /\ pc \in [Actors -> Loop \union {"idle", "create", "delete", "ok", "err"}] /\ r \in Actors
  BY DEF Inv, TypeOK, Places, Actors
<1>2. CASE More(r)
  <2>1. pc'[r] = "check" /\ index'[r] = index[r] + 1
    BY <1>1, <1>2 DEF Continue, Goto
  <2>2. \A j \in Places : j <= index[r] => j < index'[r]
    BY <1>1, <2>1, ListVersion DEF Places
  <2>3. QED
    BY <2>1, <2>2 DEF Leads, Loop, Recorded
<1>3. CASE ~More(r)
  BY <1>1, <1>3 DEF Continue, Goto, Leads
<1>4. QED
  BY <1>2, <1>3

\* Whoever commits leads from there on.
LEMMA CommitLeads ==
    ASSUME Inv, InTurn, NEW r \in Runners, Commit(r)
    PROVE  Leads(r)'
<1>1. pc[r] = "commit" /\ Committed(r) /\ Continue(r)
  BY DEF Commit
<1>2. /\ index[r] \in Places /\ ~Applied(Version(r))
      /\ \A v \in Versions : (Applied(v))' <=> Applied(v) \/ v = Version(r)
  BY <1>1, CommitRow
<1>3. ASSUME NEW v \in Versions, (Applied(v))'
      PROVE  \E j \in Places : j <= index[r] /\ Migrations[j] = v
  <2>1. CASE v = Version(r)
    BY <1>2, <2>1, ListVersion DEF Version, Places
  <2>2. CASE v # Version(r)
    <3>1. v \in Recorded
      BY <1>2, <1>3, <2>2 DEF Recorded
    <3>2. PICK f \in Places : Migrations[f] = v
                              /\ \A j \in Places : j < f => Applied(Migrations[j])
      BY <3>1 DEF InTurn
    <3>3. ~(index[r] < f)
      BY <1>2, <3>2 DEF Version
    <3>4. QED
      BY <1>2, <3>2, <3>3, ListVersion DEF Places
  <2>3. QED
    BY <2>1, <2>2
<1>4. QED
  BY <1>1, <1>3, LeadOn DEF Loop

LedInv == OrderInv /\ Led

Calm == faults + restarts = 0 /\ ~RolledBack

\* A step without a fault or a rollback leaves a leader.
LEMMA LeaderStep ==
    ASSUME LedInv, Next, Calm', table
    PROVE  \E q \in Runners : Leads(q)'
<1>0. Inv /\ ~RolledBack /\ InTurn /\ faults \in Nat /\ restarts \in Nat
  BY RolledBackStays DEF LedInv, OrderInv, LoopInv, Orderly, Calm, Inv, TypeOK
<1>1. faults' = faults /\ restarts' = restarts /\ faults + restarts = 0
      /\ \A r \in Runners : ~StatementFails(r) /\ ~CommitReplyLost(r) /\ ~Restart(r)
  <2>1. /\ faults' = faults \/ faults' = faults + 1
        /\ restarts' = restarts \/ restarts' = restarts + 1
    BY DEF Next, RunStep, StartRun, CreateTable, Check, Begin, RunSql, InsertRow, Commit,
         CommitReplyLost, StatementFails, Restart, PickLast, DeleteRow, bounds
  <2>2. faults' = faults /\ restarts' = restarts /\ faults + restarts = 0
    BY <1>0, <2>1 DEF Calm
  <2>3. QED
    BY <1>0, <2>2 DEF StatementFails, CommitReplyLost, Restart
<1>2. PICK q \in Runners : Leads(q)
  BY <1>0, <1>1 DEF LedInv, Led
<1>3. /\ pc \in [Actors -> Loop \union {"idle", "create", "delete", "ok", "err"}]
      /\ index \in [Runners -> Nat]
      /\ Runners \subseteq Actors
      /\ \A b \in Rollbackers : b # q
  BY <1>0, ActorsAssumption DEF Inv, TypeOK, Actors
<1>4. pc[q] \in Loop \union {"ok"}
  BY <1>2 DEF Leads
<1>5. ASSUME NEW r \in Runners, StartRun(r) \/ CreateTable(r) PROVE Leads(q)'
  BY <1>2, <1>3, <1>4, <1>5, LeadKept DEF StartRun, CreateTable, Fail, Goto, Loop, database
<1>6. ASSUME NEW r \in Runners, Check(r) PROVE Leads(q)'
  <2>1. CASE r # q
    BY <1>2, <1>3, <1>6, <2>1, LeadKept DEF Check, Continue, Goto, database
  <2>2. CASE r = q /\ Applied(Version(r))
    <3>1. Continue(r) /\ appliedAt' = appliedAt /\ pc[r] = "check"
      BY <1>6, <2>2 DEF Check, database
    <3>2. ASSUME NEW v \in Versions, (Applied(v))'
          PROVE  \E j \in Places : j <= index[r] /\ Migrations[j] = v
      BY <1>2, <1>3, <2>2, <3>1, <3>2, ListVersion DEF Leads, Recorded, Applied, Places
    <3>3. QED
      BY <1>0, <2>2, <3>1, <3>2, LeadOn DEF Loop
  <2>3. CASE r = q /\ ~Applied(Version(r))
    BY <1>2, <1>3, <1>6, <2>3 DEF Check, Goto, Leads, Loop, Recorded, Applied, database
  <2>4. QED
    BY <2>1, <2>2, <2>3
<1>7. ASSUME NEW r \in Runners, Begin(r) \/ RunSql(r) \/ InsertRow(r) PROVE Leads(q)'
  <2>1. CASE r # q
    BY <1>2, <1>3, <1>7, <2>1, LeadKept
    DEF Begin, RunSql, Execute, InsertRow, Fail, Goto, database
  <2>2. CASE r = q
    <3>1. pc[q] \in Applying
      BY <1>7, <2>2 DEF Begin, RunSql, InsertRow, Applying
    <3>2. ~Applied(Version(q)) /\ ~(effects[Version(q)] > 0)
      BY <1>0, <1>2, <3>1, LeaderAlone
    <3>3. /\ \E place \in {"sql", "insert", "commit"} : Goto(q, place)
          /\ index' = index /\ appliedAt' = appliedAt
      BY <1>7, <2>2, <3>2 DEF Begin, RunSql, InsertRow, database
    <3>4. pc'[q] \in Loop /\ pc[q] \in Loop
      BY <1>3, <3>1, <3>3 DEF Goto, Loop, Applying
    <3>5. QED
      BY <1>2, <3>3, <3>4 DEF Leads, Recorded, Applied, Loop
  <2>3. QED
    BY <2>1, <2>2
<1>8. ASSUME NEW b \in Rollbackers, PickLast(b) \/ DeleteRow(b) PROVE Leads(q)'
  <2>1. pc'[q] = pc[q] /\ index' = index
    BY <1>3, <1>8 DEF PickLast, DeleteRow, Goto
  <2>2. appliedAt' = appliedAt
    <3>1. CASE PickLast(b)
      BY <3>1 DEF PickLast, database
    <3>2. CASE DeleteRow(b)
      <4>1. appliedAt' = appliedAt \/ \E r \in Runners : pc[r] = "commit" /\ (Continue(r) \/ Fail(r))
        BY <1>0, RowsChange DEF Calm
      <4>2. ASSUME NEW r \in Runners, pc[r] = "commit", Continue(r) \/ Fail(r) PROVE FALSE
        <5>1. pc'[r] # "commit"
          BY <1>3, <4>2 DEF Continue, Fail, Goto
        <5>2. pc'[r] = pc[r]
          BY <1>3, <3>2, ActorsAssumption DEF DeleteRow, Goto
        <5>3. QED
          BY <4>2, <5>1, <5>2
      <4>3. QED
        BY <4>1, <4>2
    <3>3. QED
      BY <1>8, <3>1, <3>2
  <2>3. QED
    BY <1>2, <2>1, <2>2, LeadKept
<1>9. QED
  BY <1>0, <1>1, <1>5, <1>6, <1>7, <1>8, CommitLeads DEF Next, RunStep

LEMMA LedStep ==
    ASSUME LedInv, Next
    PROVE  Led'
<1>0. Inv /\ TypeOK /\ Led
  BY DEF LedInv, OrderInv, LoopInv, Inv
<1>1. /\ pc \in [Actors -> Loop \union {"idle", "create", "delete", "ok", "err"}]
      /\ Runners \subseteq Actors /\ Rollbackers \subseteq Actors
      /\ \A b \in Rollbackers : b \notin Runners
  BY <1>0, ActorsAssumption DEF TypeOK, Actors
<1>2. \A r \in Runners : saw'[r] => table'
  BY <1>0, TableStays DEF Led
<1>3. ASSUME NEW r \in Runners, pc'[r] \in Loop \union {"ok"} PROVE table'
  <2>1. CASE table
    BY <1>0, <2>1, TableStays
  <2>2. CASE ~table
    <3>1. pc[r] \notin Loop \union {"ok"}
      BY <1>0, <2>2 DEF Led
    <3>2. \E q \in Runners : CreateTable(q)
      <4>1. ASSUME NEW q \in Runners, StartRun(q) \/ StatementFails(q) \/ Restart(q) PROVE FALSE
        BY <1>1, <1>3, <3>1, <4>1 DEF StartRun, StatementFails, Restart, Fail, Goto, Loop
      <4>2. ASSUME NEW q \in Runners,
                   Check(q) \/ Begin(q) \/ RunSql(q) \/ InsertRow(q) \/ Commit(q) \/ CommitReplyLost(q)
            PROVE  FALSE
        <5>1. pc[q] \in Loop
          BY <4>2 DEF Check, Begin, RunSql, InsertRow, Commit, CommitReplyLost, Loop
        <5>2. QED
          BY <1>0, <2>2, <5>1 DEF Led
      <4>3. ASSUME NEW b \in Rollbackers, PickLast(b) \/ DeleteRow(b) PROVE FALSE
        BY <1>1, <1>3, <3>1, <4>3 DEF PickLast, DeleteRow, Goto
      <4>4. QED
        BY <4>1, <4>2, <4>3 DEF Next, RunStep
    <3>3. QED
      BY <3>2 DEF CreateTable
  <2>3. QED
    BY <2>1, <2>2
<1>4. ASSUME Recorded' # {} PROVE table'
  <2>1. CASE Recorded # {}
    BY <1>0, <2>1, TableStays DEF Led
  <2>2. CASE Recorded = {}
    <3>1. ASSUME NEW r \in Runners, pc[r] = "commit" PROVE table'
      BY <1>0, <3>1, TableStays DEF Led, Loop
    <3>2. ASSUME NEW b \in Rollbackers, DeleteRow(b) PROVE Recorded' = {}
      <4>1. picked[b] \in Versions
        BY <1>0, <3>2 DEF DeleteRow, TypeOK
      <4>2. QED
        BY <1>0, <2>2, <3>2, <4>1 DEF DeleteRow, Recorded, Applied, TypeOK, None
    <3>3. appliedAt' = appliedAt \/ (\E r \in Runners : pc[r] = "commit")
          \/ \E b \in Rollbackers : DeleteRow(b)
      BY DEF Next, RunStep, StartRun, CreateTable, Check, Begin, RunSql, InsertRow, Commit,
         CommitReplyLost, StatementFails, Restart, PickLast, database
    <3>4. QED
      BY <1>4, <2>2, <3>1, <3>2, <3>3 DEF Recorded, Applied
  <2>3. QED
    BY <2>1, <2>2
<1>5. ASSUME Calm' PROVE IF table' THEN \E q \in Runners : Leads(q)'
                         ELSE \A r \in Runners : pc'[r] \in {"idle", "create"}
  <2>1. CASE table
    BY <1>0, <1>5, <2>1, TableStays, LeaderStep
  <2>2. CASE ~table
    <3>0. Calm
      <4>1. /\ faults' = faults \/ faults' = faults + 1
            /\ restarts' = restarts \/ restarts' = restarts + 1
        BY DEF Next, RunStep, StartRun, CreateTable, Check, Begin, RunSql, InsertRow, Commit,
             CommitReplyLost, StatementFails, Restart, PickLast, DeleteRow, bounds
      <4>2. QED
        BY <1>0, <1>5, <4>1, RolledBackStays DEF Calm, TypeOK
    <3>1. \A r \in Runners : pc[r] \in {"idle", "create"}
      BY <1>0, <2>2, <3>0 DEF Led, Calm
    <3>2. ASSUME NEW r \in Runners, StartRun(r)
          PROVE  table' = table /\ \A q \in Runners : pc'[q] \in {"idle", "create"}
      BY <1>1, <3>1, <3>2 DEF StartRun, Goto, database
    <3>3. ASSUME NEW r \in Runners, CreateTable(r)
          PROVE  table' /\ Leads(r)'
      <4>1. table' /\ pc'[r] \in {"ok", "check"} /\ appliedAt' = appliedAt
        BY <1>1, <2>2, <3>3 DEF CreateTable, Goto
      <4>2. Recorded' = {}
        BY <1>0, <2>2, <4>1 DEF Led, Recorded, Applied
      <4>3. QED
        BY <4>1, <4>2 DEF Leads, Loop
    <3>4. ASSUME NEW b \in Rollbackers, PickLast(b)
          PROVE  table' = table /\ \A q \in Runners : pc'[q] \in {"idle", "create"}
      BY <1>1, <3>1, <3>4 DEF PickLast, Goto, database
    <3>5. ASSUME NEW b \in Rollbackers, DeleteRow(b)
          PROVE  table' = table /\ \A q \in Runners : pc'[q] \in {"idle", "create"}
      BY <1>1, <3>1, <3>5 DEF DeleteRow, Goto
    <3>6. ASSUME NEW r \in Runners, StatementFails(r) \/ CommitReplyLost(r) \/ Restart(r) PROVE FALSE
      BY <1>0, <1>5, <3>6 DEF StatementFails, CommitReplyLost, Restart, Calm, TypeOK
    <3>7. ASSUME NEW r \in Runners,
                 Check(r) \/ Begin(r) \/ RunSql(r) \/ InsertRow(r) \/ Commit(r)
          PROVE  FALSE
      BY <3>1, <3>7 DEF Check, Begin, RunSql, InsertRow, Commit
    <3>8. QED
      BY <2>2, <3>2, <3>3, <3>4, <3>5, <3>6, <3>7 DEF Next, RunStep
  <2>3. QED
    BY <2>1, <2>2
<1>6. QED
  BY <1>2, <1>3, <1>4, <1>5 DEF Led, Calm

LEMMA LedHolds == Spec => []LedInv
<1>1. Init => Led
  BY DEF Init, Led, Recorded, Applied, Actors, Loop
<1>2. LedInv /\ OrderInv' /\ [Next]_vars => LedInv'
  <2> SUFFICES ASSUME LedInv, OrderInv', [Next]_vars PROVE Led'
    BY DEF LedInv
  <2>1. CASE Next
    BY <2>1, LedStep
  <2>2. CASE UNCHANGED vars
    BY <2>2 DEF vars, database, bounds, LedInv, Led, Leads, Recorded, Applied, RolledBack
  <2>3. QED
    BY <2>1, <2>2
<1>3. QED
  BY <1>1, <1>2, OrderHolds, PTL DEF Spec, LedInv

\* However many processes race, without faults and rollbacks they do not all
\* fail on each other: when every call has returned, the whole list is applied
\* and one of them returned Ok.
THEOREM SomebodyFinishesCorrect == ASSUME Runners # {} PROVE Spec => []SomebodyFinishes
<1>1. LedInv => SomebodyFinishes
  <2> SUFFICES ASSUME LedInv, \A r \in Runners : Ended(r), faults + restarts = 0, ~RolledBack
               PROVE  Recorded = Versions /\ \E r \in Runners : pc[r] = "ok"
    BY DEF SomebodyFinishes
  <2>1. table
    BY DEF LedInv, Led, Ended
  <2>2. PICK q \in Runners : Leads(q)
    BY <2>1 DEF LedInv, Led
  <2>3. pc[q] = "ok"
    BY <2>2 DEF Leads, Loop, Ended
  <2>4. \A v \in Versions : Applied(v)
    BY <2>3, EffectHasRow DEF LedInv, OrderInv, LoopInv, Behind
  <2>5. QED
    BY <2>3, <2>4 DEF Recorded
<1>2. QED
  BY <1>1, LedHolds, PTL

=============================================================================
