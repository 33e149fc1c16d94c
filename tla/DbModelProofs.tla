--------------------------- MODULE DbModelProofs ---------------------------
(***************************************************************************)
(* DbModel: what a walk through the pages may miss or repeat, that its     *)
(* pages are as many as it takes, that a row is one client's whole struct  *)
(* and that no update brings a deleted row back, for any number of         *)
(* clients, rows and fields and any page size.                             *)
(*                                                                         *)
(* The argument for the walk is about the number of newer rows, Newer(i).  *)
(* Unless a tie hides its place, a page shows row i exactly if that number *)
(* is at least the page's offset and less than offset and limit together.  *)
(* Insertions of newer rows raise the number, deletions lower it: so       *)
(* without deletions no row slips behind the pages that were read, and     *)
(* without insertions none that was shown moves on to the next.            *)
(***************************************************************************)
EXTENDS DbModel, FiniteSetTheorems, TLAPS

Newer(i) == {j \in DOMAIN table : born[j] > born[i]}

Stamped ==
    /\ DOMAIN table \subseteq DOMAIN born /\ DOMAIN born \subseteq Ids
    /\ \A i \in DOMAIN born : born[i] \in Stamps
    /\ \A i \in DOMAIN table : table[i].created = born[i]

LEMMA FiniteIds ==
  \A T \in SUBSET Ids : IsFiniteSet(T) /\ Cardinality(T) \in 0..MaxU32
  <1> SUFFICES ASSUME NEW T \in SUBSET Ids PROVE IsFiniteSet(T) /\ Cardinality(T) \in 0..MaxU32
    OBVIOUS
  <1>1. IsFiniteSet(T) /\ Cardinality(T) <= Cardinality(Ids)
    BY RowsAssumption, FS_Subset
  <1> QED  BY <1>1, RowsAssumption, BoundsAssumption, FS_CardinalityType

LEMMA FiniteRows ==
  ASSUME Stamped
  PROVE  /\ IsFiniteSet(DOMAIN table)
         /\ Cardinality(DOMAIN table) \in 0..MaxU32
         /\ \A i : IsFiniteSet(Newer(i)) /\ Cardinality(Newer(i)) \in Nat
  <1>1. DOMAIN table \subseteq Ids /\ \A i : Newer(i) \subseteq Ids
    BY DEF Stamped, Newer
  <1>2. MaxU32 \in Nat
    BY BoundsAssumption
  <1> QED  BY <1>1, <1>2, FiniteIds

\* A set with fewer of the same elements has fewer.
LEMMA ProperSubset ==
  ASSUME NEW S, IsFiniteSet(S), NEW T \in SUBSET S, NEW x \in S, x \notin T
  PROVE  Cardinality(T) < Cardinality(S)
  <1>1. Cardinality(T) <= Cardinality(S) /\ Cardinality(T) # Cardinality(S)
    BY FS_Subset
  <1>2. Cardinality(T) \in Nat /\ Cardinality(S) \in Nat
    BY FS_Subset, FS_CardinalityType
  <1> QED  BY <1>1, <1>2

LEMMA DisjointUnion ==
  ASSUME NEW S, IsFiniteSet(S), NEW T, IsFiniteSet(T), S \intersect T = {}
  PROVE  /\ IsFiniteSet(S \union T)
         /\ Cardinality(S \union T) = Cardinality(S) + Cardinality(T)
  BY FS_Union, FS_EmptySet, FS_CardinalityType

\* Where a row without ties stands decides whether a page shows it.
LEMMA PageShows ==
  ASSUME Stamped, NEW offset \in Nat, NEW limit \in Nat,
         NEW skipped \in SUBSET DOMAIN table,
         NEW shown \in SUBSET (DOMAIN table \ skipped),
         Shows(skipped, shown, offset, limit),
         NEW i \in DOMAIN table, ~Tied(i)
  PROVE  i \in shown <=> /\ offset <= Cardinality(Newer(i))
                         /\ Cardinality(Newer(i)) < offset + limit
  <1> DEFINE rest == DOMAIN table \ skipped
  <1>1. /\ IsFiniteSet(DOMAIN table) /\ IsFiniteSet(skipped) /\ IsFiniteSet(shown) /\ IsFiniteSet(rest)
        /\ Cardinality(skipped) \in Nat /\ Cardinality(shown) \in Nat /\ Cardinality(rest) \in Nat
        /\ Cardinality(DOMAIN table) \in Nat
        /\ IsFiniteSet(Newer(i)) /\ Cardinality(Newer(i)) \in Nat
    BY FiniteRows, FS_Subset, FS_CardinalityType
  <1>2. /\ Cardinality(skipped) = AtMost(offset, Cardinality(DOMAIN table))
        /\ Cardinality(shown) = AtMost(limit, Cardinality(rest))
    BY DEF Shows
  <1>3. \A j \in DOMAIN table : j # i /\ Key(j) >= Key(i) => j \in Newer(i)
    BY DEF Tied, Stamped, Key, Newer, Stamps
  <1>4. \A j \in Newer(i) : j # i /\ ~(Key(i) >= Key(j))
    BY DEF Stamped, Key, Newer, Stamps
  <1>5. ASSUME i \in skipped PROVE Cardinality(Newer(i)) < offset
    <2>1. Newer(i) \subseteq skipped
      BY <1>4, <1>5 DEF Shows, NoneBefore, Newer
    <2>2. Cardinality(Newer(i)) < Cardinality(skipped)
      BY <1>1, <1>4, <1>5, <2>1, ProperSubset
    <2> QED  BY <1>1, <1>2, <2>2 DEF AtMost
  <1>6. ASSUME i \in rest
        PROVE  Cardinality(skipped) = offset /\ skipped \subseteq Newer(i)
    <2>1. Cardinality(skipped) < Cardinality(DOMAIN table)
      BY <1>1, <1>6, ProperSubset
    <2>2. skipped \subseteq Newer(i)
      BY <1>3, <1>6 DEF Shows, NoneBefore
    <2> QED  BY <1>1, <1>2, <2>1, <2>2 DEF AtMost
  <1>7. IsFiniteSet(skipped \union shown)
        /\ Cardinality(skipped \union shown) = Cardinality(skipped) + Cardinality(shown)
    BY <1>1, DisjointUnion
  <1>8. ASSUME i \in shown
        PROVE  offset <= Cardinality(Newer(i)) /\ Cardinality(Newer(i)) < offset + limit
    <2>1. offset <= Cardinality(Newer(i))
      BY <1>1, <1>6, <1>8, FS_Subset
    <2>2. Newer(i) \subseteq skipped \union shown
      BY <1>4, <1>8 DEF Shows, NoneBefore, Newer
    <2>3. Cardinality(Newer(i)) < Cardinality(skipped \union shown)
      BY <1>4, <1>7, <1>8, <2>2, ProperSubset
    <2>4. Cardinality(shown) <= limit
      BY <1>1, <1>2 DEF AtMost
    <2> QED  BY <1>1, <1>6, <1>7, <1>8, <2>1, <2>3, <2>4
  <1>9. ASSUME i \in rest \ shown PROVE offset + limit <= Cardinality(Newer(i))
    <2>1. Cardinality(shown) < Cardinality(rest)
      BY <1>1, <1>9, ProperSubset
    <2>2. Cardinality(shown) = limit
      BY <1>1, <1>2, <2>1 DEF AtMost
    <2>3. shown \subseteq Newer(i)
      BY <1>3, <1>9 DEF Shows, NoneBefore
    <2>4. Cardinality(skipped \union shown) <= Cardinality(Newer(i))
      BY <1>1, <1>6, <1>9, <2>3, FS_Subset
    <2> QED  BY <1>6, <1>7, <1>9, <2>2, <2>4
  <1> QED  BY <1>1, <1>5, <1>8, <1>9

\* There are pages for all rows, and the last has at least one.
LEMMA EnoughPages ==
  ASSUME NEW perPage \in 1..MaxU32, NEW total \in 0..MaxU32
  PROVE  /\ TotalPages(perPage, total) \in 0..MaxU32
         /\ total <= TotalPages(perPage, total) * perPage
         /\ \A page \in 1..TotalPages(perPage, total) : (page - 1) * perPage < total
  <1> DEFINE q == (total + perPage - 1) \div perPage
  <1>0. MaxU32 \in Nat
    BY BoundsAssumption
  <1>1. q \in Nat /\ total <= q * perPage /\ (q - 1) * perPage < total
    BY <1>0
  <1>2. q <= total
    BY <1>0, <1>1
  <1>3. TotalPages(perPage, total) = q
    BY <1>0, <1>1, <1>2 DEF TotalPages, AtMost
  <1>4. ASSUME NEW page \in 1..q PROVE (page - 1) * perPage < total
    BY <1>0, <1>1, <1>4
  <1> QED  BY <1>0, <1>1, <1>2, <1>3, <1>4

-----------------------------------------------------------------------------
\* A client's struct, from new or find_by_id to its statement.  A row that a
\* client made, however often it calls create, is of its one struct.
Structs ==
    /\ DOMAIN copy = Clients
    /\ \A c \in Clients :
          /\ pc[c] \in {"create", "found", "update"} => copy[c].id \in Ids /\ copy[c].row \in Row
          /\ pc[c] = "create" => copy[c].id = c
          /\ c \in DOMAIN born => pc[c] = "create" /\ born[c] = copy[c].row.created

\* The client changes its struct no more.
Settled(c) == pc[c] \in {"create", "done"}

\* As RowWhole, and the client is settled.
Whole ==
    \A i \in DOMAIN table :
        \/ table[i].value = First
        \/ \E c \in Clients :
              Settled(c) /\ copy[c].id = i /\ copy[c].row.value = table[i].value

Rows == TypeOK /\ Stamped /\ Structs /\ Whole

Offset0 == (walk.page - 1) * walk.perPage

\* The walk knows only rows there were, and its offset does not wrap.
Bounded ==
    /\ walk.start \subseteq DOMAIN born /\ walk.came \subseteq DOMAIN born
    /\ walk.seen \subseteq DOMAIN born /\ walk.items \subseteq DOMAIN born
    /\ walk.again \subseteq DOMAIN born /\ walk.gone \subseteq DOMAIN born
    /\ walk.at \in {"items", "count"} => walk.page >= 1 /\ Offset0 <= MaxU32

\* The pages are those of the last count.
Counted == walk.pages = TotalPages(walk.perPage, walk.total)

Excused(i) == Tied(i) \/ \E j \in walk.gone : born[j] >= born[i]

Pushed(i) == Tied(i) \/ \E j \in walk.came : born[j] > born[i]

\* Rows whose place is before what was read have been seen ..
Missing(i) ==
    /\ walk.at \in {"items", "count"} => i \in DOMAIN table
    /\ walk.at \in {"items", "count"} => (Cardinality(Newer(i)) < Offset0 => i \in walk.seen)
    /\ walk.at = "count" =>
          (Cardinality(Newer(i)) < Offset0 + walk.perPage => i \in walk.seen \union walk.items)
    /\ walk.at = "done" => i \in walk.seen

\* .. and rows that have been seen are before what was read.
Repeating(i) ==
    /\ walk.at = "items" /\ i \in walk.seen => Cardinality(Newer(i)) < Offset0
    /\ walk.at = "count" /\ i \in walk.seen => Cardinality(Newer(i)) < Offset0 /\ i \notin walk.items
    /\ walk.at = "count" /\ i \in walk.items => Cardinality(Newer(i)) < Offset0 + walk.perPage
    /\ i \notin walk.again

NoneMissed == walk.perPage > 0 => \A i \in walk.start : Excused(i) \/ Missing(i)

NoneRepeated == \A i \in DOMAIN born : Pushed(i) \/ Repeating(i)

Pages == Bounded /\ Counted /\ NoneMissed /\ NoneRepeated

Inv == Rows /\ Pages

LEMMA InitInv == Init => Inv
  <1> SUFFICES ASSUME Init PROVE Inv
    OBVIOUS
  <1>1. PICK stamp \in [Rows0 -> Stamps] :
          /\ table = [i \in Rows0 |-> [created |-> stamp[i], updated |-> stamp[i], value |-> First]]
          /\ born = stamp
    BY DEF Init
  <1>2. DOMAIN table = Rows0 /\ DOMAIN born = Rows0
    BY <1>1
  <1>3. First \in Values
    BY DEF First, Values
  <1>4. \A i \in DOMAIN table : table[i] \in Row /\ table[i].created = born[i] /\ table[i].value = First
    BY <1>1, <1>3 DEF Row
  <1>5. walk \in WalkType
    BY BoundsAssumption DEF Init, NoWalk, WalkType
  <1>6. Stamped
    BY <1>1, <1>2, <1>4 DEF Stamped, Ids
  <1>7. TypeOK
    BY <1>1, <1>2, <1>4, <1>5, BoundsAssumption DEF Init, TypeOK, Ids
  <1>8. Structs /\ Whole
    BY <1>2, <1>4, IdsAssumption DEF Init, Structs, Whole
  <1>9. Counted
    BY DEF Init, NoWalk, Counted, TotalPages
  <1>10. Pages
    BY <1>9 DEF Init, NoWalk, Pages, Bounded, NoneMissed, NoneRepeated, Repeating
  <1> QED  BY <1>6, <1>7, <1>8, <1>10 DEF Inv, Rows

-----------------------------------------------------------------------------
(***************************************************************************)
(* The rows: one lemma per way a step changes the table.                   *)
(***************************************************************************)
\* Nothing happens to the table, and a client may end.
LEMMA RowsStay ==
  ASSUME Rows, UNCHANGED <<table, born, copy>>, walk' \in WalkType,
         clock' \in Stamps, faults' \in 0..MaxFaults,
         \/ UNCHANGED pc
         \/ \E c \in Clients : pc[c] # "create" /\ pc' = [pc EXCEPT ![c] = "done"]
  PROVE  Rows'
  BY DEF Rows, Stamped, TypeOK, Structs, Whole, Settled

\* Nothing happens to the table, and a client goes on with a struct.
LEMMA RowsGoOn ==
  ASSUME Rows, NEW c \in Clients, ~Settled(c), NEW s, NEW place \in {"create", "found", "update"},
         pc' = [pc EXCEPT ![c] = place], copy' = [copy EXCEPT ![c] = s],
         s.id \in Ids, s.row \in Row, place = "create" => s.id = c,
         UNCHANGED <<table, clock, walk, born, faults>>
  PROVE  Rows'
  <1>1. TypeOK' /\ Stamped'
    BY DEF Rows, TypeOK, Stamped
  <1>2. Structs'
    BY DEF Rows, TypeOK, Structs, Settled
  <1>3. Whole'
    <2> SUFFICES ASSUME NEW i \in DOMAIN table, table[i].value # First
                 PROVE  \E d \in Clients :
                           Settled(d)' /\ copy'[d].id = i /\ copy'[d].row.value = table[i].value
      BY DEF Whole
    <2>1. PICK d \in Clients :
             Settled(d) /\ copy[d].id = i /\ copy[d].row.value = table[i].value
      BY DEF Rows, Whole
    <2>2. d # c /\ Settled(d)' /\ copy'[d] = copy[d]
      BY <2>1 DEF Rows, TypeOK, Structs, Settled
    <2> QED  BY <2>1, <2>2
  <1> QED  BY <1>1, <1>2, <1>3 DEF Rows

\* A client's row is inserted, for the first time or once more.
LEMMA RowsInsert ==
  ASSUME Rows, NEW c \in Clients, pc[c] = "create", Inserted(c), c \notin DOMAIN table,
         UNCHANGED <<clock, pc, copy>>, faults' \in 0..MaxFaults
  PROVE  Rows' /\ \A i \in DOMAIN born : born'[i] = born[i]
  <1>1. /\ c \in DOMAIN born => born[c] = copy[c].row.created
        /\ copy[c].id = c /\ copy[c].row \in Row
    BY DEF Rows, Structs
  <1>2. /\ DOMAIN table' = DOMAIN table \union {c} /\ DOMAIN born' = DOMAIN born \union {c}
        /\ table'[c] = copy[c].row /\ born'[c] = copy[c].row.created
        /\ \A i \in DOMAIN table : table'[i] = table[i]
        /\ \A i \in DOMAIN born : born'[i] = born[i]
    BY <1>1 DEF Inserted
  <1>3. Stamped'
    BY <1>1, <1>2 DEF Rows, Stamped, Ids, Row
  <1>4. walk' \in WalkType
    BY DEF Inserted, Rows, TypeOK, WalkType, Ids
  <1>5. TypeOK'
    BY <1>1, <1>2, <1>3, <1>4 DEF Rows, TypeOK, Stamped
  <1>6. Structs'
    BY <1>2 DEF Rows, TypeOK, Structs
  <1>7. Whole'
    BY <1>1, <1>2 DEF Rows, TypeOK, Structs, Whole, Settled
  <1> QED  BY <1>2, <1>3, <1>5, <1>6, <1>7 DEF Rows

\* A client's struct is written over a row.
LEMMA RowsUpdate ==
  ASSUME Rows, NEW c \in Clients, pc[c] = "update", Updated(c),
         pc' = [pc EXCEPT ![c] = "done"], UNCHANGED <<clock, copy, walk, born>>,
         faults' \in 0..MaxFaults
  PROVE  /\ Rows'
         /\ DOMAIN table' = DOMAIN table
         /\ \A i \in DOMAIN table : table'[i].created = table[i].created
  <1>1. copy[c].id \in Ids /\ copy[c].row \in Row
    BY DEF Rows, Structs
  <1>2. /\ DOMAIN table' = DOMAIN table
        /\ \A i \in DOMAIN table :
              /\ table'[i] \in Row /\ table'[i].created = table[i].created
              /\ table'[i] = table[i] \/ (i = copy[c].id /\ table'[i].value = copy[c].row.value)
    <2>1. CASE copy[c].id \in DOMAIN table
      <3>1. table' = [table EXCEPT ![copy[c].id] = Set(c)]
        BY <2>1 DEF Updated
      <3>2. table[copy[c].id] \in Row
        BY <2>1 DEF Rows, TypeOK
      <3>3. /\ Set(c) \in Row /\ Set(c).created = table[copy[c].id].created
            /\ Set(c).value = copy[c].row.value
        BY <1>1, <3>2 DEF Set, Row
      <3> QED  BY <3>1, <3>3 DEF Rows, TypeOK
    <2>2. CASE copy[c].id \notin DOMAIN table
      BY <2>2 DEF Updated, Rows, TypeOK
    <2> QED  BY <2>1, <2>2
  <1>3. Stamped'
    BY <1>2 DEF Rows, Stamped
  <1>4. TypeOK'
    BY <1>2 DEF Rows, TypeOK
  <1>5. Structs'
    BY DEF Rows, TypeOK, Structs
  <1>6. Whole'
    <2> SUFFICES ASSUME NEW i \in DOMAIN table, table'[i].value # First
                 PROVE  \E d \in Clients :
                           Settled(d)' /\ copy[d].id = i /\ copy[d].row.value = table'[i].value
      BY <1>2 DEF Whole
    <2>1. CASE table'[i] = table[i]
      BY <2>1 DEF Rows, TypeOK, Whole, Settled
    <2>2. CASE i = copy[c].id /\ table'[i].value = copy[c].row.value
      BY <2>2 DEF Rows, TypeOK, Settled
    <2> QED  BY <1>2, <2>1, <2>2
  <1> QED  BY <1>2, <1>3, <1>4, <1>5, <1>6 DEF Rows

\* A row is deleted.
LEMMA RowsDelete ==
  ASSUME Rows, NEW i \in DOMAIN born, Deleted(i), NEW c \in Clients, pc[c] = "idle",
         pc' = [pc EXCEPT ![c] = "done"], UNCHANGED <<clock, copy, born, faults>>
  PROVE  Rows'
  <1>1. /\ DOMAIN table' = DOMAIN table \ {i}
        /\ \A j \in DOMAIN table' : table'[j] = table[j]
    BY DEF Deleted
  <1>2. walk' \in WalkType
    BY DEF Deleted, Rows, Stamped, TypeOK, WalkType
  <1>3. Stamped' /\ TypeOK'
    BY <1>1, <1>2 DEF Rows, Stamped, TypeOK
  <1>4. Structs' /\ Whole'
    BY <1>1 DEF Rows, TypeOK, Structs, Whole, Settled
  <1> QED  BY <1>3, <1>4 DEF Rows

-----------------------------------------------------------------------------
(***************************************************************************)
(* The pages: one lemma per way a step changes the rows or the walk.       *)
(***************************************************************************)
\* The rows keep their places.
LEMMA PagesStay ==
  ASSUME Rows, Pages, Rows', DOMAIN table' = DOMAIN table, UNCHANGED <<born, walk>>
  PROVE  Pages'
  <1>1. \A i : Newer(i)' = Newer(i) /\ Excused(i)' = Excused(i) /\ Pushed(i)' = Pushed(i)
    BY DEF Newer, Excused, Pushed, Tied
  <1>2. Bounded'
    BY DEF Pages, Bounded, Offset0
  <1>3. \A i : Missing(i)' = Missing(i) /\ Repeating(i)' = Repeating(i)
    BY <1>1 DEF Missing, Repeating, Offset0
  <1>4. Counted'
    BY DEF Pages, Counted
  <1> QED  BY <1>1, <1>2, <1>3, <1>4 DEF Pages, NoneMissed, NoneRepeated

\* An inserted row pushes older ones back, and they are excused for that.
LEMMA PagesInsert ==
  ASSUME Rows, Pages, Rows', NEW c \in Clients, c \notin DOMAIN table, Inserted(c),
         \A i \in DOMAIN born : born'[i] = born[i]
  PROVE  Pages'
  <1>0. /\ \A i : Newer(i) \subseteq Ids /\ Newer(i)' \subseteq Ids
        /\ walk \in WalkType /\ walk.perPage \in Int /\ Offset0 \in Int
    <2>1. \A i : Newer(i) \subseteq Ids /\ Newer(i)' \subseteq Ids
      BY DEF Newer, Rows, Stamped
    <2>2. walk \in WalkType /\ walk.perPage \in Int /\ walk.page \in Int
      BY BoundsAssumption DEF Rows, TypeOK, WalkType
    <2> QED  BY <2>1, <2>2 DEF Offset0
  <1>1. /\ DOMAIN table' = DOMAIN table \union {c} /\ DOMAIN born' = DOMAIN born \union {c}
        /\ \A i \in DOMAIN born : born'[i] = born[i]
        /\ walk' = IF Walking THEN [walk EXCEPT !.came = @ \union {c}] ELSE walk
        /\ walk \in WalkType
    BY DEF Inserted, Rows, TypeOK
  <1>2. /\ \A field \in {"at", "perPage", "page", "pages", "total", "items", "seen", "again",
                      "start", "gone"} :
              walk'[field] = walk[field]
        /\ walk'.came = IF Walking THEN walk.came \union {c} ELSE walk.came
    BY <1>1 DEF WalkType
  <1>3. Offset0' = Offset0
    BY <1>2 DEF Offset0
  <1>4. Bounded'
    BY <1>1, <1>2, <1>3 DEF Pages, Bounded
  <1>5. DOMAIN table \subseteq DOMAIN born
    BY DEF Rows, Stamped
  <1>6. ASSUME NEW i \in DOMAIN born
        PROVE  /\ Excused(i) => Excused(i)'
               /\ Pushed(i) => Pushed(i)'
               /\ Newer(i) \subseteq Newer(i)'
               /\ Walking => Pushed(i)' \/ Newer(i)' = Newer(i)
    <2>1. Tied(i) => Tied(i)'
      BY <1>1, <1>6 DEF Tied
    <2>2. Excused(i) => Excused(i)'
      <3>1. CASE \E j \in walk.gone : born[j] >= born[i]
        BY <1>1, <1>2, <1>6, <3>1 DEF Excused, Pages, Bounded
      <3> QED  BY <2>1, <3>1 DEF Excused
    <2>3. Pushed(i) => Pushed(i)'
      <3>1. \A j \in walk.came : j \in DOMAIN born /\ j \in walk'.came
        BY <1>2 DEF Pages, Bounded
      <3> QED  BY <1>1, <1>6, <2>1, <3>1 DEF Pushed
    <2>4. Newer(i) \subseteq Newer(i)'
      BY <1>1, <1>5, <1>6 DEF Newer
    <2>5. ASSUME Walking, ~(born'[c] > born'[i]) PROVE Newer(i)' = Newer(i)
      BY <1>1, <1>5, <1>6, <2>5 DEF Newer
    <2>6. ASSUME Walking, born'[c] > born'[i] PROVE Pushed(i)'
      BY <1>2, <2>6 DEF Pushed
    <2> QED  BY <2>2, <2>3, <2>4, <2>5, <2>6
  <1>7. ASSUME NEW i \in DOMAIN born, Missing(i) PROVE Missing(i)'
    <2>1. /\ Cardinality(Newer(i)) \in Nat /\ Cardinality(Newer(i)') \in Nat
          /\ Cardinality(Newer(i)) <= Cardinality(Newer(i)')
      BY <1>0, <1>6, FiniteIds, FS_Subset
    <2> QED  BY <1>0, <1>1, <1>2, <1>3, <1>7, <2>1 DEF Missing
  <1>8. ASSUME NEW i \in DOMAIN born, Repeating(i) PROVE Pushed(i)' \/ Repeating(i)'
    <2>1. CASE Walking
      BY <1>2, <1>3, <1>6, <1>8, <2>1 DEF Repeating
    <2>2. CASE ~Walking
      BY <1>2, <1>8, <2>2 DEF Repeating, Walking
    <2> QED  BY <2>1, <2>2
  <1>9. NoneMissed'
    <2> SUFFICES ASSUME walk'.perPage > 0, NEW i \in walk'.start
                 PROVE  Excused(i)' \/ Missing(i)'
      BY DEF NoneMissed
    <2>1. i \in DOMAIN born /\ (Excused(i) \/ Missing(i))
      BY <1>2 DEF Pages, Bounded, NoneMissed
    <2> QED  BY <1>6, <1>7, <2>1
  <1>10. NoneRepeated'
    <2>1. ASSUME c \notin DOMAIN born PROVE Repeating(c)'
      <3>1. c \notin walk'.seen /\ c \notin walk'.items /\ c \notin walk'.again
        BY <1>2, <2>1 DEF Pages, Bounded
      <3> QED  BY <3>1 DEF Repeating
    <2>2. ASSUME NEW i \in DOMAIN born PROVE Pushed(i)' \/ Repeating(i)'
      BY <1>6, <1>8, <2>2 DEF Pages, NoneRepeated
    <2> QED  BY <1>1, <2>1, <2>2 DEF NoneRepeated
  <1>11. Counted'
    BY <1>2 DEF Pages, Counted
  <1> QED  BY <1>4, <1>9, <1>10, <1>11 DEF Pages

\* A deleted row lets older ones move forward, and they are excused for that.
LEMMA PagesDelete ==
  ASSUME Rows, Pages, Rows', NEW d \in DOMAIN born, Deleted(d), born' = born
  PROVE  Pages'
  <1>0. /\ \A i : Newer(i) \subseteq Ids /\ Newer(i)' \subseteq Ids
        /\ walk \in WalkType /\ walk.perPage \in Int /\ Offset0 \in Int
    <2>1. \A i : Newer(i) \subseteq Ids /\ Newer(i)' \subseteq Ids
      BY DEF Newer, Rows, Stamped
    <2>2. walk \in WalkType /\ walk.perPage \in Int /\ walk.page \in Int
      BY BoundsAssumption DEF Rows, TypeOK, WalkType
    <2> QED  BY <2>1, <2>2 DEF Offset0
  <1>1. /\ DOMAIN table' = DOMAIN table \ {d}
        /\ walk \in WalkType
    BY DEF Deleted, Rows, TypeOK
  <1>2. /\ \A field \in {"at", "perPage", "page", "pages", "total", "items", "seen", "again",
                      "start", "came"} :
              walk'[field] = walk[field]
        /\ walk'.gone = IF Walking /\ d \in DOMAIN table THEN walk.gone \union {d} ELSE walk.gone
    BY <1>1 DEF WalkType, Deleted
  <1>3. Offset0' = Offset0
    BY <1>2 DEF Offset0
  <1>4. Bounded'
    BY <1>1, <1>2, <1>3 DEF Pages, Bounded
  <1>5. \A i : Pushed(i)' = Pushed(i) /\ (Excused(i) => Excused(i)')
    BY <1>2 DEF Pushed, Excused, Tied
  <1>6. \A i : Newer(i)' \subseteq Newer(i)
    BY <1>1 DEF Newer
  <1>7. ASSUME NEW i \in DOMAIN born, Missing(i) PROVE Excused(i)' \/ Missing(i)'
    <2>1. CASE ~Walking
      BY <1>2, <1>7, <2>1 DEF Missing, Walking
    <2>2. CASE Walking /\ d \in DOMAIN table /\ born[d] >= born[i]
      BY <1>2, <2>2 DEF Excused
    <2>3. CASE Walking /\ ~(d \in DOMAIN table /\ born[d] >= born[i])
      <3>1. born[i] \in Int /\ born[d] \in Int
        BY DEF Rows, Stamped, Stamps
      <3>2. i # d \/ d \notin DOMAIN table
        BY <2>3, <3>1
      <3>3. Newer(i)' = Newer(i)
        BY <1>1, <2>3, <3>1 DEF Newer
      <3> QED  BY <1>1, <1>2, <1>3, <1>7, <3>2, <3>3 DEF Missing
    <2> QED  BY <2>1, <2>2, <2>3
  <1>8. ASSUME NEW i \in DOMAIN born, Repeating(i) PROVE Repeating(i)'
    <2>1. /\ Cardinality(Newer(i)) \in Nat /\ Cardinality(Newer(i)') \in Nat
          /\ Cardinality(Newer(i)') <= Cardinality(Newer(i))
      BY <1>0, <1>6, FiniteIds, FS_Subset
    <2> QED  BY <1>0, <1>2, <1>3, <1>8, <2>1 DEF Repeating
  <1>9. NoneMissed'
    BY <1>2, <1>5, <1>7 DEF Pages, Bounded, NoneMissed
  <1>10. NoneRepeated'
    BY <1>1, <1>5, <1>8 DEF Pages, NoneRepeated
  <1>11. Counted'
    BY <1>2 DEF Pages, Counted
  <1> QED  BY <1>4, <1>9, <1>10, <1>11 DEF Pages

\* The rows stay and the walk goes on.
LEMMA WalkStays ==
  ASSUME UNCHANGED <<table, born>>
  PROVE  \A i : /\ Newer(i)' = Newer(i)
                /\ walk'.gone = walk.gone => Excused(i)' = Excused(i)
                /\ walk'.came = walk.came => Pushed(i)' = Pushed(i)
  BY DEF Newer, Excused, Pushed, Tied

LEMMA PagesStart ==
  ASSUME Rows, Pages, Rows', StartWalk
  PROVE  Pages'
  <1>1. PICK perPage \in PerPages :
          walk' = [NoWalk EXCEPT !.at = "items", !.perPage = perPage, !.page = 1,
                                 !.start = DOMAIN table]
    BY DEF StartWalk
  <1>2. /\ walk'.at = "items" /\ walk'.perPage = perPage /\ walk'.page = 1
        /\ walk'.start = DOMAIN table /\ walk'.pages = 0 /\ walk'.total = 0
        /\ walk'.items = {} /\ walk'.seen = {} /\ walk'.again = {}
        /\ walk'.came = {} /\ walk'.gone = {}
        /\ UNCHANGED <<table, born>>
    BY <1>1 DEF NoWalk, StartWalk
  <1>3. Offset0' = 0
    BY <1>2, BoundsAssumption DEF Offset0
  <1>4. Bounded'
    BY <1>2, <1>3, BoundsAssumption DEF Bounded, Rows, Stamped
  <1>5. NoneMissed'
    <2>1. \A i : Cardinality(Newer(i)') \in Nat
      <3>1. \A i : Newer(i)' \subseteq Ids
        BY DEF Newer, Rows, Stamped
      <3> QED  BY <3>1, FiniteIds, BoundsAssumption
    <2>2. \A i : Cardinality(Newer(i)') < Offset0' => FALSE
      BY <1>3, <2>1
    <2> QED  BY <1>2, <2>2 DEF NoneMissed, Missing
  <1>6. NoneRepeated'
    BY <1>2 DEF NoneRepeated, Repeating
  <1>7. Counted'
    <2>1. perPage \in Nat
      BY BoundsAssumption
    <2>2. perPage > 0 => (0 + perPage - 1) \div perPage = 0
      BY <2>1
    <2> QED  BY <1>2, <2>1, <2>2, BoundsAssumption DEF Counted, TotalPages, AtMost
  <1> QED  BY <1>4, <1>5, <1>6, <1>7 DEF Pages

LEMMA PagesItems ==
  ASSUME Rows, Pages, Rows', ReadItems
  PROVE  Pages'
  <1>1. PICK skipped \in SUBSET DOMAIN table : \E shown \in SUBSET (DOMAIN table \ skipped) :
          /\ Shows(skipped, shown, Offset(walk.page, walk.perPage), Limit(walk.perPage))
          /\ walk' = [walk EXCEPT !.at = "count", !.items = shown]
    BY DEF ReadItems
  <1>2. PICK shown \in SUBSET (DOMAIN table \ skipped) :
          /\ Shows(skipped, shown, Offset(walk.page, walk.perPage), Limit(walk.perPage))
          /\ walk' = [walk EXCEPT !.at = "count", !.items = shown]
    BY <1>1
  <1>3. /\ walk.at = "items" /\ walk \in WalkType /\ walk'.at = "count" /\ walk'.items = shown
        /\ \A field \in {"perPage", "page", "pages", "total", "seen", "again",
                         "start", "came", "gone"} : walk'[field] = walk[field]
        /\ UNCHANGED <<table, born>>
    BY <1>2 DEF ReadItems, Rows, TypeOK, WalkType
  <1>4. /\ walk.perPage \in Nat /\ walk.page \in Nat /\ walk.page >= 1 /\ MaxU32 \in Nat
        /\ Offset0 <= MaxU32
    BY <1>3, BoundsAssumption DEF WalkType, Pages, Bounded
  <1>5. Offset0 \in Nat
    BY <1>4 DEF Offset0
  <1>6. Offset(walk.page, walk.perPage) = Offset0 /\ Limit(walk.perPage) = walk.perPage
    BY <1>4, <1>5 DEF Offset, Offset0, Limit
  <1>7. Offset0' = Offset0
    BY <1>3 DEF Offset0
  <1>8. \A i : Newer(i)' = Newer(i) /\ Excused(i)' = Excused(i) /\ Pushed(i)' = Pushed(i)
    BY <1>3, WalkStays
  <1>9. \A i \in DOMAIN table : ~Tied(i) =>
          (i \in shown <=> /\ Offset0 <= Cardinality(Newer(i))
                           /\ Cardinality(Newer(i)) < Offset0 + walk.perPage)
    BY <1>2, <1>4, <1>5, <1>6, PageShows DEF Rows
  <1>10. Bounded'
    BY <1>3, <1>7 DEF Pages, Bounded, Rows, Stamped
  <1>11. NoneMissed'
    <2> SUFFICES ASSUME walk.perPage > 0, NEW i \in walk.start, ~Excused(i), Missing(i)
                 PROVE  Missing(i)'
      BY <1>3, <1>8 DEF Pages, NoneMissed
    <2>1. i \in DOMAIN table /\ ~Tied(i) /\ Cardinality(Newer(i)) \in Nat
      BY <1>3, FiniteRows DEF Missing, Excused, Rows
    <2>2. Cardinality(Newer(i)) < Offset0 + walk.perPage => i \in walk.seen \union shown
      BY <1>3, <1>4, <1>5, <1>9, <2>1 DEF Missing
    <2> QED  BY <1>3, <1>7, <1>8, <2>1, <2>2 DEF Missing
  <1>12. NoneRepeated'
    <2> SUFFICES ASSUME NEW i \in DOMAIN born, ~Pushed(i), Repeating(i)
                 PROVE  Repeating(i)'
      BY <1>3, <1>8 DEF Pages, NoneRepeated
    <2>1. Cardinality(Newer(i)) \in Nat /\ ~Tied(i)
      BY FiniteRows DEF Rows, Pushed
    <2>2. ASSUME i \in walk.seen PROVE Cardinality(Newer(i)) < Offset0 /\ i \notin shown
      BY <1>3, <1>5, <1>9, <2>1, <2>2 DEF Repeating
    <2>3. ASSUME i \in shown PROVE Cardinality(Newer(i)) < Offset0 + walk.perPage
      BY <1>9, <2>1, <2>3
    <2> QED  BY <1>3, <1>7, <1>8, <2>2, <2>3 DEF Repeating
  <1>13. Counted'
    BY <1>3 DEF Pages, Counted
  <1> QED  BY <1>10, <1>11, <1>12, <1>13 DEF Pages

LEMMA PagesCount ==
  ASSUME Rows, Pages, Rows', ReadCount
  PROVE  Pages'
  <1> DEFINE total == Cardinality(DOMAIN table)
             pages == TotalPages(walk.perPage, total)
             more == walk.page < pages
  <1>1. walk.at = "count" /\ walk \in WalkType /\ UNCHANGED <<table, born>>
    BY DEF ReadCount, Rows, TypeOK
  <1>2. walk' = [walk EXCEPT !.total = total, !.pages = pages,
                             !.at = IF more THEN "items" ELSE "done",
                             !.page = IF more THEN @ + 1 ELSE @,
                             !.items = {}, !.seen = @ \union walk.items,
                             !.again = @ \union (walk.seen \intersect walk.items)]
    BY DEF ReadCount
  <1> HIDE DEF pages
  <1>3. /\ walk'.at = IF more THEN "items" ELSE "done"
        /\ walk'.page = IF more THEN walk.page + 1 ELSE walk.page
        /\ walk'.total = total /\ walk'.pages = pages
        /\ walk'.items = {} /\ walk'.seen = walk.seen \union walk.items
        /\ walk'.again = walk.again \union (walk.seen \intersect walk.items)
        /\ \A field \in {"perPage", "start", "came", "gone"} : walk'[field] = walk[field]
    BY <1>1, <1>2 DEF WalkType
  <1>4. /\ walk.perPage \in 0..MaxU32 /\ walk.page \in Nat /\ walk.page >= 1
        /\ MaxU32 \in Nat /\ total \in 0..MaxU32 /\ IsFiniteSet(DOMAIN table)
    BY <1>1, BoundsAssumption, FiniteRows DEF WalkType, Pages, Bounded, Rows
  <1>5. \A i : Newer(i)' = Newer(i) /\ Excused(i)' = Excused(i) /\ Pushed(i)' = Pushed(i)
    BY <1>1, <1>3, WalkStays
  <1>6. Offset0 \in Nat
    BY <1>4 DEF Offset0
  <1>7. more => Offset0' = Offset0 + walk.perPage
    BY <1>3, <1>4 DEF Offset0
  <1>8. Bounded'
    <2>1. more => Offset0' <= MaxU32
      <3>1. CASE walk.perPage = 0
        BY <1>3, <1>4, <3>1 DEF Offset0
      <3>2. CASE walk.perPage > 0 /\ more
        <4>0. walk.perPage \in 1..MaxU32
          BY <1>4, <3>2
        <4>1. pages \in 0..MaxU32 /\ \A page \in 1..pages : (page - 1) * walk.perPage < total
          BY <1>4, <4>0, EnoughPages DEF pages
        <4>2. walk'.page \in 1..pages
          BY <1>3, <1>4, <3>2, <4>1
        <4>3. (walk'.page - 1) * walk'.perPage < total
          BY <1>3, <4>1, <4>2
        <4> QED  BY <1>4, <1>6, <1>7, <3>2, <4>3 DEF Offset0
      <3> QED  BY <1>4, <3>1, <3>2
    <2> QED  BY <1>1, <1>3, <1>4, <2>1 DEF Pages, Bounded
  <1>9. NoneMissed'
    <2> SUFFICES ASSUME walk.perPage > 0, NEW i \in walk.start, ~Excused(i), Missing(i)
                 PROVE  Missing(i)'
      BY <1>3, <1>5 DEF Pages, NoneMissed
    <2>1. /\ i \in DOMAIN table
          /\ Cardinality(Newer(i)) < Offset0 + walk.perPage => i \in walk.seen \union walk.items
      BY <1>1 DEF Missing
    <2>2. ASSUME ~more PROVE Cardinality(Newer(i)) < Offset0 + walk.perPage
      <3>1. i \notin Newer(i) /\ Newer(i) \subseteq DOMAIN table
        BY <2>1 DEF Newer, Rows, Stamped, Stamps
      <3>2. Cardinality(Newer(i)) < total /\ Cardinality(Newer(i)) \in Nat
        BY <1>4, <2>1, <3>1, ProperSubset, FiniteRows DEF Rows
      <3>0. walk.perPage \in 1..MaxU32 /\ total \in 0..MaxU32
        BY <1>4
      <3>3. total <= pages * walk.perPage /\ pages \in Nat
        <4>1. total <= pages * walk.perPage /\ pages \in 0..MaxU32
          BY <3>0, EnoughPages, Zenon DEF pages
        <4> QED  BY <1>4, <4>1
      <3>4. pages * walk.perPage <= walk.page * walk.perPage
        BY <1>4, <2>2, <3>3
      <3>5. walk.page * walk.perPage = Offset0 + walk.perPage
        BY <1>4 DEF Offset0
      <3> QED  BY <1>4, <1>6, <3>2, <3>3, <3>4, <3>5
    <2> QED  BY <1>1, <1>3, <1>5, <1>7, <2>1, <2>2 DEF Missing
  <1>10. NoneRepeated'
    <2> SUFFICES ASSUME NEW i \in DOMAIN born, ~Pushed(i), Repeating(i)
                 PROVE  Repeating(i)'
      BY <1>1, <1>5 DEF Pages, NoneRepeated
    <2>1. /\ i \in walk.seen => Cardinality(Newer(i)) < Offset0 /\ i \notin walk.items
          /\ i \in walk.items => Cardinality(Newer(i)) < Offset0 + walk.perPage
          /\ i \notin walk.again
      BY <1>1 DEF Repeating
    <2>2. i \notin walk'.again
      BY <1>3, <2>1
    <2>3. more /\ i \in walk'.seen => Cardinality(Newer(i)) < Offset0'
      <3>1. Cardinality(Newer(i)) \in Nat
        BY FiniteRows DEF Rows
      <3> QED  BY <1>3, <1>4, <1>6, <1>7, <2>1, <3>1
    <2> QED  BY <1>3, <1>5, <2>2, <2>3 DEF Repeating
  <1>11. Counted'
    BY <1>3 DEF Counted, pages
  <1> QED  BY <1>8, <1>9, <1>10, <1>11 DEF Pages

LEMMA PagesFail ==
  ASSUME Rows, Pages, Rows', PageFails
  PROVE  Pages'
  <1>1. /\ Walking /\ walk \in WalkType /\ walk'.at = "items" /\ walk'.items = {}
        /\ \A field \in {"perPage", "page", "pages", "total", "seen", "again",
                         "start", "came", "gone"} : walk'[field] = walk[field]
        /\ UNCHANGED <<table, born>>
    BY DEF PageFails, Rows, TypeOK, WalkType
  <1>2. Offset0' = Offset0
    BY <1>1 DEF Offset0
  <1>3. \A i : Newer(i)' = Newer(i) /\ Excused(i)' = Excused(i) /\ Pushed(i)' = Pushed(i)
    BY <1>1, WalkStays
  <1>4. Bounded'
    BY <1>1, <1>2 DEF Pages, Bounded, Walking
  <1>5. \A i : (Missing(i) => Missing(i)') /\ (Repeating(i) => Repeating(i)')
    BY <1>1, <1>2, <1>3 DEF Missing, Repeating, Walking
  <1>6. Counted'
    BY <1>1 DEF Pages, Counted
  <1> QED  BY <1>1, <1>3, <1>4, <1>5, <1>6 DEF Pages, NoneMissed, NoneRepeated

-----------------------------------------------------------------------------
LEMMA FaultsTyped == ASSUME TypeOK, faults < MaxFaults PROVE faults + 1 \in 0..MaxFaults
  BY BoundsAssumption DEF TypeOK

\* The steps of a client.
LEMMA ClientInv ==
  ASSUME Inv, NEW c \in Clients,
         \/ New(c) \/ Create(c) \/ FindById(c) \/ StartUpdate(c)
         \/ Update(c) \/ Delete(c) \/ Fails(c)
  PROVE  Inv'
  <1>0. /\ Rows /\ Pages /\ walk \in WalkType /\ clock \in Stamps /\ faults \in 0..MaxFaults
    BY DEF Inv, Rows, TypeOK
  <1>1. CASE New(c)
    <2>1. PICK s : /\ s = [id |-> c, row |-> [created |-> clock, updated |-> clock,
                                             value |-> [f \in Fields |-> c]]]
                   /\ copy' = [copy EXCEPT ![c] = s]
      BY <1>1 DEF New
    <2>2. [f \in Fields |-> c] \in Values
      BY DEF Values
    <2>3. s.id = c /\ s.id \in Ids /\ s.row \in Row
      BY <1>0, <2>1, <2>2 DEF Row, Ids
    <2>4. /\ pc[c] = "idle" /\ pc' = [pc EXCEPT ![c] = "create"]
          /\ UNCHANGED <<table, clock, walk, born, faults>>
      BY <1>1 DEF New, Goto
    <2>5. Rows'
      BY <1>0, <2>1, <2>3, <2>4, RowsGoOn DEF Settled
    <2> QED  BY <1>0, <2>4, <2>5, PagesStay DEF Inv
  <1>2. CASE Create(c)
    <2>1. pc[c] = "create" /\ Inserted(c) /\ UNCHANGED <<clock, pc, copy, faults>>
      BY <1>2 DEF Create
    <2>2. CASE c \in DOMAIN table
      <3>1. UNCHANGED <<table, born, walk>>
        BY <2>1, <2>2 DEF Inserted
      <3>2. Rows'
        BY <1>0, <2>1, <3>1, RowsStay
      <3> QED  BY <1>0, <3>1, <3>2, PagesStay DEF Inv
    <2>3. CASE c \notin DOMAIN table
      <3>1. Rows' /\ \A i \in DOMAIN born : born'[i] = born[i]
        BY <1>0, <2>1, <2>3, RowsInsert
      <3> QED  BY <1>0, <2>1, <2>3, <3>1, PagesInsert DEF Inv
    <2> QED  BY <2>2, <2>3
  <1>3. CASE FindById(c)
    <2>1. PICK i \in DOMAIN table : copy' = [copy EXCEPT ![c] = [id |-> i, row |-> table[i]]]
      BY <1>3 DEF FindById
    <2>2. i \in Ids /\ table[i] \in Row
      BY <1>0 DEF Rows, TypeOK
    <2>3. PICK s : s = [id |-> i, row |-> table[i]]
      OBVIOUS
    <2>4. /\ pc[c] = "idle" /\ pc' = [pc EXCEPT ![c] = "found"]
          /\ UNCHANGED <<table, clock, walk, born, faults>>
      BY <1>3 DEF FindById, Goto
    <2>5. s.id \in Ids /\ s.row \in Row /\ copy' = [copy EXCEPT ![c] = s]
      BY <2>1, <2>2, <2>3
    <2>6. Rows'
      BY <1>0, <2>4, <2>5, RowsGoOn DEF Settled
    <2> QED  BY <1>0, <2>4, <2>6, PagesStay DEF Inv
  <1>4. CASE StartUpdate(c)
    <2>1. PICK f \in Fields :
            copy' = [copy EXCEPT ![c].row.value[f] = c, ![c].row.updated = clock]
      BY <1>4 DEF StartUpdate
    <2>2. /\ pc[c] = "found" /\ pc' = [pc EXCEPT ![c] = "update"]
          /\ UNCHANGED <<table, clock, walk, born, faults>>
      BY <1>4 DEF StartUpdate, Goto
    <2>3. copy[c].id \in Ids /\ copy[c].row \in Row /\ DOMAIN copy = Clients
      BY <1>0, <2>2 DEF Rows, Structs
    <2>4. PICK s : s = copy'[c]
      OBVIOUS
    <2>5. copy' = [copy EXCEPT ![c] = s]
      BY <2>1, <2>3, <2>4
    <2>6. s.id = copy[c].id /\ s.row \in Row
      <3>1. s.id = copy[c].id
        BY <2>1, <2>3, <2>4
      <3>2. s.row = [copy[c].row EXCEPT !.value[f] = c, !.updated = clock]
        BY <2>1, <2>3, <2>4
      <3>3. [copy[c].row.value EXCEPT ![f] = c] \in Values
        BY <2>3 DEF Row, Values
      <3>4. s.row = [created |-> copy[c].row.created, updated |-> clock,
                     value |-> [copy[c].row.value EXCEPT ![f] = c]]
        BY <2>3, <3>2 DEF Row
      <3> QED  BY <1>0, <2>3, <3>1, <3>3, <3>4 DEF Row
    <2>7. Rows'
      BY <1>0, <2>2, <2>3, <2>5, <2>6, RowsGoOn DEF Settled
    <2> QED  BY <1>0, <2>2, <2>7, PagesStay DEF Inv
  <1>5. CASE Update(c)
    <2>1. /\ pc[c] = "update" /\ Updated(c) /\ pc' = [pc EXCEPT ![c] = "done"]
          /\ UNCHANGED <<clock, copy, walk, born, faults>>
      BY <1>5 DEF Update, Goto
    <2>2. Rows' /\ DOMAIN table' = DOMAIN table
      BY <1>0, <2>1, RowsUpdate
    <2> QED  BY <1>0, <2>1, <2>2, PagesStay DEF Inv
  <1>6. CASE Delete(c)
    <2>1. PICK i \in DOMAIN born : Deleted(i)
      BY <1>6 DEF Delete
    <2>2. /\ pc[c] = "idle" /\ pc' = [pc EXCEPT ![c] = "done"]
          /\ UNCHANGED <<clock, copy, born, faults>>
      BY <1>6 DEF Delete, Goto
    <2>3. Rows'
      BY <1>0, <2>1, <2>2, RowsDelete
    <2> QED  BY <1>0, <2>1, <2>2, <2>3, PagesDelete DEF Inv
  <1>7. CASE Fails(c)
    <2>1. faults' \in 0..MaxFaults /\ UNCHANGED <<clock, copy>>
      BY <1>0, <1>7, FaultsTyped DEF Fails, Rows
    <2>2. CASE pc[c] = "create" /\ UNCHANGED <<table, born, walk, pc>>
      <3>1. Rows'
        BY <1>0, <2>1, <2>2, RowsStay
      <3> QED  BY <1>0, <2>2, <3>1, PagesStay DEF Inv
    <2>3. CASE pc[c] = "create" /\ c \notin DOMAIN table /\ Inserted(c) /\ UNCHANGED pc
      <3>1. Rows' /\ \A i \in DOMAIN born : born'[i] = born[i]
        BY <1>0, <2>1, <2>3, RowsInsert
      <3> QED  BY <1>0, <2>3, <3>1, PagesInsert DEF Inv
    <2>4. CASE /\ pc[c] = "update" /\ pc' = [pc EXCEPT ![c] = "done"]
               /\ UNCHANGED <<table, born, walk>>
      <3>1. Rows'
        BY <1>0, <2>1, <2>4, RowsStay
      <3> QED  BY <1>0, <2>4, <3>1, PagesStay DEF Inv
    <2>5. CASE /\ pc[c] = "update" /\ pc' = [pc EXCEPT ![c] = "done"]
               /\ Updated(c) /\ UNCHANGED <<born, walk>>
      <3>1. Rows' /\ DOMAIN table' = DOMAIN table
        BY <1>0, <2>1, <2>5, RowsUpdate
      <3> QED  BY <1>0, <2>5, <3>1, PagesStay DEF Inv
    <2> QED  BY <1>7, <2>2, <2>3, <2>4, <2>5 DEF Fails, Goto, Inserted
  <1> QED  BY <1>1, <1>2, <1>3, <1>4, <1>5, <1>6, <1>7

\* The steps of the walk.
LEMMA WalkInv ==
  ASSUME Inv, StartWalk \/ ReadItems \/ ReadCount \/ PageFails
  PROVE  Inv'
  <1>0. /\ Rows /\ Pages /\ walk \in WalkType /\ clock \in Stamps /\ faults \in 0..MaxFaults
        /\ MaxU32 \in Nat /\ MaxU32 >= 1 /\ DOMAIN table \subseteq Ids
    BY BoundsAssumption DEF Inv, Rows, TypeOK
  <1>1. CASE StartWalk
    <2>1. PICK perPage \in PerPages :
            walk' = [NoWalk EXCEPT !.at = "items", !.perPage = perPage, !.page = 1,
                                   !.start = DOMAIN table]
      BY <1>1 DEF StartWalk
    <2>2. walk' \in WalkType /\ UNCHANGED <<table, clock, pc, copy, born, faults>>
      <3>1. perPage \in 0..MaxU32 /\ 0 \in 0..MaxU32 /\ 1 \in 0..MaxU32
        BY <1>0, BoundsAssumption
      <3>2. walk' = [at |-> "items", perPage |-> perPage, page |-> 1, pages |-> 0,
                     total |-> 0, items |-> {}, seen |-> {}, again |-> {}, start |-> DOMAIN table,
                     came |-> {}, gone |-> {}]
        BY <2>1 DEF NoWalk
      <3> QED  BY <1>0, <1>1, <3>1, <3>2 DEF StartWalk, WalkType
    <2>3. Rows'
      BY <1>0, <2>2, RowsStay
    <2> QED  BY <1>0, <1>1, <2>3, PagesStart DEF Inv
  <1>2. CASE ReadItems
    <2>1. PICK shown \in SUBSET DOMAIN table : walk' = [walk EXCEPT !.at = "count", !.items = shown]
      BY <1>2 DEF ReadItems
    <2>2. walk' \in WalkType /\ UNCHANGED <<table, clock, pc, copy, born, faults>>
      BY <1>0, <1>2, <2>1 DEF ReadItems, WalkType
    <2>3. Rows'
      BY <1>0, <2>2, RowsStay
    <2> QED  BY <1>0, <1>2, <2>3, PagesItems DEF Inv
  <1>3. CASE ReadCount
    <2>1. /\ TotalPages(walk.perPage, Cardinality(DOMAIN table)) \in 0..MaxU32
          /\ Cardinality(DOMAIN table) \in 0..MaxU32
      <3>1. walk.perPage \in 0..MaxU32 /\ Cardinality(DOMAIN table) \in 0..MaxU32
        BY <1>0, FiniteIds DEF WalkType
      <3>2. CASE walk.perPage = 0
        BY <1>0, <3>1, <3>2 DEF TotalPages
      <3>3. CASE walk.perPage \in 1..MaxU32
        BY <3>1, <3>3, EnoughPages
      <3> QED  BY <1>0, <3>1, <3>2, <3>3
    <2>2. PICK pages \in 0..MaxU32, total \in 0..MaxU32 :
            walk' = [walk EXCEPT !.total = total, !.pages = pages,
                                 !.at = IF walk.page < pages THEN "items" ELSE "done",
                                 !.page = IF walk.page < pages THEN @ + 1 ELSE @,
                                 !.items = {}, !.seen = @ \union walk.items,
                                 !.again = @ \union (walk.seen \intersect walk.items)]
      BY <1>3, <2>1 DEF ReadCount
    <2>3. walk' \in WalkType /\ UNCHANGED <<table, clock, pc, copy, born, faults>>
      <3>1. (IF walk.page < pages THEN walk.page + 1 ELSE walk.page) \in 0..MaxU32
        BY <1>0 DEF WalkType
      <3>2. /\ walk.seen \union walk.items \in SUBSET Ids
            /\ walk.again \union (walk.seen \intersect walk.items) \in SUBSET Ids
        BY <1>0 DEF WalkType
      <3>3. walk' = [at |-> IF walk.page < pages THEN "items" ELSE "done",
                     perPage |-> walk.perPage,
                     page |-> IF walk.page < pages THEN walk.page + 1 ELSE walk.page,
                     pages |-> pages, total |-> total, items |-> {},
                     seen |-> walk.seen \union walk.items,
                     again |-> walk.again \union (walk.seen \intersect walk.items),
                     start |-> walk.start, came |-> walk.came, gone |-> walk.gone]
        BY <1>0, <2>2 DEF WalkType
      <3> QED  BY <1>0, <1>3, <3>1, <3>2, <3>3 DEF ReadCount, WalkType
    <2>4. Rows'
      BY <1>0, <2>3, RowsStay
    <2> QED  BY <1>0, <1>3, <2>4, PagesCount DEF Inv
  <1>4. CASE PageFails
    <2>1. /\ walk' \in WalkType /\ faults' \in 0..MaxFaults
          /\ UNCHANGED <<table, clock, pc, copy, born>>
      BY <1>0, <1>4, FaultsTyped DEF PageFails, WalkType, Rows
    <2>2. Rows'
      BY <1>0, <2>1, RowsStay
    <2> QED  BY <1>0, <1>4, <2>2, PagesFail DEF Inv
  <1> QED  BY <1>1, <1>2, <1>3, <1>4

LEMMA NextInv == Inv /\ [Next]_vars => Inv'
  <1> SUFFICES ASSUME Inv, [Next]_vars PROVE Inv'
    OBVIOUS
  <1>0. Rows /\ Pages /\ walk \in WalkType /\ clock \in Stamps /\ faults \in 0..MaxFaults
    BY DEF Inv, Rows, TypeOK
  <1>1. CASE Tick \/ UNCHANGED vars
    <2>1. UNCHANGED <<table, pc, copy, walk, born, faults>> /\ clock' \in Stamps
      BY <1>0, <1>1, BoundsAssumption DEF Tick, vars, Stamps
    <2>2. Rows'
      BY <1>0, <2>1, RowsStay
    <2> QED  BY <1>0, <2>1, <2>2, PagesStay DEF Inv
  <1> QED  BY <1>1, ClientInv, WalkInv DEF Next

LEMMA InvHolds == Spec => []Inv
  BY InitInv, NextInv, PTL DEF Spec

\* Rows, stamps and the pages a client is told of stay in the ranges of their
\* types.
THEOREM TypeCorrect == Spec => []TypeOK
  <1>1. Inv => TypeOK
    BY DEF Inv, Rows
  <1> QED  BY <1>1, InvHolds, PTL

\* A walk shows every row that was there when it began, unless that row or a
\* newer one is deleted on the way or a tie leaves its place open.
THEOREM WalkMissesCorrect == Spec => []WalkMisses
  <1>1. Inv => WalkMisses
    BY DEF Inv, Pages, NoneMissed, Excused, Missing, WalkMisses
  <1> QED  BY <1>1, InvHolds, PTL

\* A walk shows no row on two pages, unless a newer one is inserted on the way
\* or a tie leaves its place open.
THEOREM WalkRepeatsCorrect == Spec => []WalkRepeats
  <1>1. Inv => WalkRepeats
    BY DEF Inv, Pages, Bounded, NoneRepeated, Pushed, Repeating, WalkRepeats
  <1> QED  BY <1>1, InvHolds, PTL

\* However updates overlap, a row is the whole struct of one client.
THEOREM RowWholeCorrect == Spec => []RowWhole
  <1>1. Inv => RowWhole
    BY DEF Inv, Rows, Whole, RowWhole
  <1> QED  BY <1>1, InvHolds, PTL

\* A walk through pages of at least one row is told of as many pages as it
\* takes to hold the rows that were counted, and no offset of theirs wraps.
THEOREM PagesExactCorrect == Spec => []PagesExact
  <1>1. Inv => PagesExact
    <2> SUFFICES ASSUME Inv, walk.perPage > 0
                 PROVE  /\ walk.total <= walk.pages * walk.perPage
                        /\ \A page \in 1..walk.pages :
                              /\ (page - 1) * walk.perPage < walk.total
                              /\ Offset(page, walk.perPage) = (page - 1) * walk.perPage
      BY DEF PagesExact
    <2>1. /\ walk.perPage \in 1..MaxU32 /\ walk.total \in 0..MaxU32 /\ MaxU32 \in Nat
          /\ walk.pages = TotalPages(walk.perPage, walk.total)
      BY BoundsAssumption DEF Inv, Rows, TypeOK, WalkType, Pages, Counted
    <2>2. /\ walk.pages \in 0..MaxU32
          /\ walk.total <= walk.pages * walk.perPage
          /\ \A page \in 1..walk.pages : (page - 1) * walk.perPage < walk.total
      BY <2>1, EnoughPages, Zenon
    <2>3. ASSUME NEW page \in 1..walk.pages
          PROVE  Offset(page, walk.perPage) = (page - 1) * walk.perPage
      <3> DEFINE offset == (page - 1) * walk.perPage
      <3>1. offset \in Nat /\ offset < walk.total
        BY <2>1, <2>2
      <3>2. offset % (MaxU32 + 1) = offset
        <4> HIDE DEF offset
        <4> QED  BY <2>1, <3>1
      <3> QED  BY <3>2 DEF Offset
    <2> QED  BY <2>2, <2>3
  <1> QED  BY <1>1, InvHolds, PTL

\* Only create brings a deleted row back, as it was made; no update does.
THEOREM DeleteFinalCorrect == Spec => DeleteFinal
  <1>1. Inv /\ [Next]_vars =>
          [\A i \in DOMAIN table' \ DOMAIN table :
              i \in Clients /\ pc[i] = "create" /\ table'[i] = copy[i].row]_vars
    <2> SUFFICES ASSUME Inv, Next, NEW i \in DOMAIN table', i \notin DOMAIN table
                 PROVE  i \in Clients /\ pc[i] = "create" /\ table'[i] = copy[i].row
      OBVIOUS
    <2>1. ASSUME NEW c \in Clients, pc[c] = "create", Inserted(c)
          PROVE  i \in Clients /\ pc[i] = "create" /\ table'[i] = copy[i].row
      BY <2>1 DEF Inserted
    <2>2. ASSUME NEW c \in Clients, Create(c) \/ Fails(c)
          PROVE  i \in Clients /\ pc[i] = "create" /\ table'[i] = copy[i].row
      BY <2>1, <2>2 DEF Create, Fails, Updated
    <2>3. ASSUME NEW c \in Clients,
                 New(c) \/ FindById(c) \/ StartUpdate(c) \/ Update(c) \/ Delete(c)
          PROVE  FALSE
      BY <2>3 DEF New, FindById, StartUpdate, Update, Updated, Delete, Deleted
    <2> QED  BY <2>2, <2>3 DEF Next, StartWalk, ReadItems, ReadCount, PageFails, Tick
  <1> QED  BY <1>1, InvHolds, PTL DEF Spec, DeleteFinal
=============================================================================
