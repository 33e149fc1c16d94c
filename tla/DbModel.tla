------------------------------ MODULE DbModel -------------------------------
(***************************************************************************)
(* A model made by db_model! (src/src/lib.rs) and its table.  Clients      *)
(* create, update and delete rows, one statement each but for update,      *)
(* which writes back a struct that was read earlier, while another client  *)
(* walks through the pages: paginate is two statements, and Pagination     *)
(* (src/src/api.rs) says how many pages there are.  What a call returns is *)
(* told apart only where the client goes on with it.                       *)
(***************************************************************************)
EXTENDS Integers, FiniteSets

CONSTANTS Clients,   \* one call of update or delete each, or calls of create
                     \* with one struct; also the id of the row they make
          Rows0,     \* ids of the rows there are at the start
          Fields,    \* the model's own fields
          PerPages,  \* page sizes to walk with
          MaxU32,    \* u32::MAX
          MaxClock,  \* bound: how far the clock goes
          MaxFaults  \* bound: statements that fail or lose their reply

ASSUME IdsAssumption == Clients \intersect Rows0 = {}
ASSUME BoundsAssumption ==
    /\ MaxU32 \in Nat \ {0} /\ MaxClock \in Nat /\ MaxFaults \in Nat
    /\ PerPages \subseteq 0..MaxU32

VARIABLES table,   \* id -> row
          clock,   \* chrono::Utc::now
          pc,      \* where each client is
          copy,    \* the struct it holds
          walk,    \* the walk through the pages
          born,    \* history: created_at of every row there ever was
          faults

vars == <<table, clock, pc, copy, walk, born, faults>>

Ids == Clients \union Rows0

\* Fewer rows than u32 counts.
ASSUME RowsAssumption == IsFiniteSet(Ids) /\ Cardinality(Ids) <= MaxU32

Stamps == 0..MaxClock
Values == [Fields -> Clients \union {"first"}]   \* who wrote each field
Row == [created : Stamps, updated : Stamps, value : Values]

First == [f \in Fields |-> "first"]
NoStruct == [id |-> "none"]

NoWalk == [at |-> "idle", perPage |-> 0, page |-> 0, pages |-> 0, total |-> 0,
           items |-> {},           \* the page that is being read
           seen |-> {},            \* rows it was shown
           again |-> {},           \* rows it was shown once more
           start |-> {},           \* rows there were when it began
           came |-> {}, gone |-> {}]  \* rows inserted and deleted since

Init ==
    /\ \E stamp \in [Rows0 -> Stamps] :
          /\ table = [i \in Rows0 |-> [created |-> stamp[i], updated |-> stamp[i], value |-> First]]
          /\ born = stamp
          /\ \E now \in Stamps : clock = now /\ \A i \in Rows0 : stamp[i] <= now
    /\ pc = [c \in Clients |-> "idle"]
    /\ copy = [c \in Clients |-> NoStruct]
    /\ walk = NoWalk
    /\ faults = 0

Goto(c, place) == pc' = [pc EXCEPT ![c] = place]

Walking == walk.at \in {"items", "count"}

(***************************************************************************)
(* Rows                                                                    *)
(***************************************************************************)
\* new stamps the struct, which is inserted some time later.
New(c) ==
    /\ pc[c] = "idle"
    /\ copy' = [copy EXCEPT ![c] = [id |-> c,
                                    row |-> [created |-> clock, updated |-> clock,
                                             value |-> [f \in Fields |-> c]]]]
    /\ Goto(c, "create")
    /\ UNCHANGED <<table, clock, walk, born, faults>>

\* The id is a new UUID and the primary key (as that of users, auth.rs:530):
\* where the row is there already the INSERT is an error, and changes nothing.
Inserted(c) ==
    IF c \in DOMAIN table
    THEN UNCHANGED <<table, born, walk>>
    ELSE /\ table' = [i \in DOMAIN table \union {c} |-> IF i = c THEN copy[c].row ELSE table[i]]
         /\ born' = [i \in DOMAIN born \union {c} |->
                        IF i = c THEN copy[c].row.created ELSE born[i]]
         /\ walk' = IF Walking THEN [walk EXCEPT !.came = @ \union {c}] ELSE walk

\* create(&self): whatever it returned, the client may call it again.
Create(c) ==
    /\ pc[c] = "create"
    /\ Inserted(c)
    /\ UNCHANGED <<clock, pc, copy, faults>>

FindById(c) ==
    /\ pc[c] = "idle"
    /\ \E i \in DOMAIN table : copy' = [copy EXCEPT ![c] = [id |-> i, row |-> table[i]]]
    /\ Goto(c, "found")
    /\ UNCHANGED <<table, clock, walk, born, faults>>

\* The client sets a field and calls update, which stamps the struct first.
StartUpdate(c) ==
    /\ pc[c] = "found"
    /\ \E f \in Fields :
          copy' = [copy EXCEPT ![c].row.value[f] = c, ![c].row.updated = clock]
    /\ Goto(c, "update")
    /\ UNCHANGED <<table, clock, walk, born, faults>>

\* Seeded fault for RowWhole: SET names the field that was changed only.
SetOwn(c) ==
    LET row == table[copy[c].id]
    IN  [row EXCEPT !.updated = copy[c].row.updated,
                    !.value = [f \in Fields |-> IF copy[c].row.value[f] = c THEN c ELSE @[f]]]

\* SET updated_at and every field, but not created_at
Set(c) ==
    [table[copy[c].id] EXCEPT !.updated = copy[c].row.updated, !.value = copy[c].row.value]

\* Seeded fault for DeleteFinal: the row is written whether or not it is there.
UpdatedAnyway(c) ==
    table' = [i \in DOMAIN table \union {copy[c].id} |->
                 IF i = copy[c].id THEN copy[c].row ELSE table[i]]

\* .. WHERE id = $n RETURNING *: no row is an error, and changes nothing.
Updated(c) ==
    IF copy[c].id \in DOMAIN table
    THEN table' = [table EXCEPT ![copy[c].id] = Set(c)]
    ELSE UNCHANGED table

Update(c) ==
    /\ pc[c] = "update"
    /\ Updated(c)
    /\ Goto(c, "done")
    /\ UNCHANGED <<clock, copy, walk, born, faults>>

Deleted(i) ==
    /\ table' = [j \in DOMAIN table \ {i} |-> table[j]]
    /\ walk' = IF Walking /\ i \in DOMAIN table THEN [walk EXCEPT !.gone = @ \union {i}] ELSE walk

\* Of a row that was there once.
Delete(c) ==
    /\ pc[c] = "idle"
    /\ \E i \in DOMAIN born : Deleted(i)
    /\ Goto(c, "done")
    /\ UNCHANGED <<clock, copy, born, faults>>

\* A statement returns Err, and may have been executed nevertheless.
Fails(c) ==
    /\ faults < MaxFaults /\ faults' = faults + 1
    /\ \/ /\ pc[c] = "create"
          /\ Inserted(c) \/ UNCHANGED <<table, born, walk>>
          /\ UNCHANGED pc
       \/ /\ pc[c] = "update"
          /\ Updated(c) \/ UNCHANGED table
          /\ Goto(c, "done")
          /\ UNCHANGED <<born, walk>>
    /\ UNCHANGED <<clock, copy>>

(***************************************************************************)
(* Pages                                                                   *)
(***************************************************************************)
\* ORDER BY created_at DESC.  Seeded fault for WalkMisses: .. updated_at.
KeyUpdated(i) == table[i].updated

Key(i) == table[i].created

NoneBefore(S, T) == \A i \in S, j \in T : Key(i) >= Key(j)

AtMost(n, m) == IF n < m THEN n ELSE m

Offset(page, perPage) == ((page - 1) * perPage) % (MaxU32 + 1)

\* Seeded fault for WalkRepeats: one row more than the page has.
LimitAndOne(perPage) == perPage + 1

Limit(perPage) == perPage

\* .. LIMIT $1 OFFSET $2 may skip these rows and show those: rows of equal
\* created_at come in any order.
Shows(skipped, shown, offset, limit) ==
    LET rest == DOMAIN table \ skipped
    IN  /\ Cardinality(skipped) = AtMost(offset, Cardinality(DOMAIN table))
        /\ NoneBefore(skipped, rest)
        /\ Cardinality(shown) = AtMost(limit, Cardinality(rest))
        /\ NoneBefore(shown, rest \ shown)

\* Seeded fault for TypeOK: the cast does not saturate.
TotalPagesWide(perPage, total) ==
    IF perPage = 0 THEN (IF total = 0 THEN 0 ELSE MaxU32 + 1)
    ELSE (total + perPage - 1) \div perPage

\* Seeded fault for PagesExact: the quotient is not rounded up.
TotalPagesFloor(perPage, total) ==
    IF perPage = 0 THEN (IF total = 0 THEN 0 ELSE MaxU32)
    ELSE AtMost(total \div perPage, MaxU32)

\* Pagination::new divides as f64, and as u32 takes NaN for 0 and infinity for
\* the maximum.
TotalPages(perPage, total) ==
    IF perPage = 0 THEN (IF total = 0 THEN 0 ELSE MaxU32)
    ELSE AtMost((total + perPage - 1) \div perPage, MaxU32)

StartWalk ==
    /\ walk.at = "idle"
    /\ \E perPage \in PerPages :
          walk' = [NoWalk EXCEPT !.at = "items", !.perPage = perPage, !.page = 1,
                                 !.start = DOMAIN table]
    /\ UNCHANGED <<table, clock, pc, copy, born, faults>>

ReadItems ==
    /\ walk.at = "items"
    /\ \E skipped \in SUBSET DOMAIN table : \E shown \in SUBSET (DOMAIN table \ skipped) :
          /\ Shows(skipped, shown, Offset(walk.page, walk.perPage), Limit(walk.perPage))
          /\ walk' = [walk EXCEPT !.at = "count", !.items = shown]
    /\ UNCHANGED <<table, clock, pc, copy, born, faults>>

\* SELECT COUNT(*); the client goes on while there are pages.
ReadCount ==
    /\ walk.at = "count"
    /\ LET total == Cardinality(DOMAIN table)
           pages == TotalPages(walk.perPage, total)
           more == walk.page < pages
       IN  walk' = [walk EXCEPT !.total = total, !.pages = pages,
                                !.at = IF more THEN "items" ELSE "done",
                                !.page = IF more THEN @ + 1 ELSE @,
                                !.items = {}, !.seen = @ \union walk.items,
                                !.again = @ \union (walk.seen \intersect walk.items)]
    /\ UNCHANGED <<table, clock, pc, copy, born, faults>>

\* paginate returns Err, and the client asks for the page again.
PageFails ==
    /\ Walking
    /\ faults < MaxFaults /\ faults' = faults + 1
    /\ walk' = [walk EXCEPT !.at = "items", !.items = {}]
    /\ UNCHANGED <<table, clock, pc, copy, born>>

Tick ==
    /\ clock < MaxClock /\ clock' = clock + 1
    /\ UNCHANGED <<table, pc, copy, walk, born, faults>>

Next ==
    \/ \E c \in Clients :
          New(c) \/ Create(c) \/ FindById(c) \/ StartUpdate(c) \/ Update(c) \/ Delete(c) \/ Fails(c)
    \/ StartWalk \/ ReadItems \/ ReadCount \/ PageFails
    \/ Tick

Spec == Init /\ [][Next]_vars

-----------------------------------------------------------------------------
WalkType ==
    [at : {"idle", "items", "count", "done"}, perPage : 0..MaxU32, page : 0..MaxU32, pages : 0..MaxU32,
     total : 0..MaxU32,
     items : SUBSET Ids, seen : SUBSET Ids, again : SUBSET Ids, start : SUBSET Ids,
     came : SUBSET Ids, gone : SUBSET Ids]

TypeOK ==
    /\ DOMAIN table \subseteq DOMAIN born /\ \A i \in DOMAIN table : table[i] \in Row
    /\ DOMAIN born \subseteq Ids /\ \A i \in DOMAIN born : born[i] \in Stamps
    /\ clock \in Stamps
    /\ pc \in [Clients -> {"idle", "create", "found", "update", "done"}]
    /\ walk \in WalkType
    /\ faults \in 0..MaxFaults

\* Pages of at least one row hold all rows that were counted, none of them is
\* empty, and the u32 product of their offsets does not wrap.
PagesExact ==
    walk.perPage > 0 =>
        /\ walk.total <= walk.pages * walk.perPage
        /\ \A page \in 1..walk.pages :
              /\ (page - 1) * walk.perPage < walk.total
              /\ Offset(page, walk.perPage) = (page - 1) * walk.perPage

\* Two rows of one created_at have no order, and each page may choose another.
Tied(i) == \E j \in DOMAIN born \ {i} : born[j] = born[i]

\* The pages are read one by one while the table changes.  A row that was
\* there at the start is shown, unless it or a newer row was deleted on the
\* way, or its place among the others is not determined.
WalkMisses ==
    walk.at = "done" /\ walk.perPage > 0 =>
        \A i \in walk.start \ walk.seen :
            Tied(i) \/ \E j \in walk.gone : born[j] >= born[i]

\* A row is shown on two pages only if a newer one was inserted on the way,
\* or its place among the others is not determined.
WalkRepeats ==
    \A i \in walk.again : Tied(i) \/ \E j \in walk.came : born[j] > born[i]

\* Updates write back what they read earlier, and the last one stays; but a
\* row is always the whole struct of one client, never a mixture of two.
RowWhole ==
    \A i \in DOMAIN table :
        \/ table[i].value = First
        \/ \E c \in Clients : copy[c].id = i /\ copy[c].row.value = table[i].value

\* A row that was deleted comes back only by another call of create with the
\* struct it was made from, and then as it was made: never by an update, also
\* when a client that read it before the delete updates it afterwards.
DeleteFinal ==
    [][\A i \in DOMAIN table' \ DOMAIN table :
          i \in Clients /\ pc[i] = "create" /\ table'[i] = copy[i].row]_vars
=============================================================================
