--------------------------- MODULE MetricsProofs ---------------------------
(***************************************************************************)
(* Metrics: what a snapshot shows lies between what it must and what it    *)
(* may have counted, for any number of requests, snapshots and resets that *)
(* interleave operation by operation on the atomics.                       *)
(*                                                                         *)
(* The bounds are sums over sets of requests that change with every call.  *)
(* A sum is compared with another by the units it adds: a request that     *)
(* adds n owns n units, and a sum is the number of units of its requests,  *)
(* so that a larger set has the larger sum.                                *)
(*                                                                         *)
(* Neither property is inductive.  What a snapshot loads is what a counter *)
(* holds, so the counters are bounded likewise (Counted): by the requests  *)
(* no reset can have erased, which include all a running snapshot must     *)
(* count, and by those no reset is sure to have erased, all of which it    *)
(* may count.  The list needs that no entry is pruned or cleared which a   *)
(* snapshot that may still begin would have to find in it (Kept).          *)
(***************************************************************************)
EXTENDS Metrics, TLAPS, FiniteSetTheorems, WellFoundedInduction

-----------------------------------------------------------------------------
Places == {"idle", "atomics", "list", "push", "done"}

Begun == {c \in Calls : pc[c] # "idle"}

TypeInv ==
    /\ counter \in [Counters -> Nat]
    /\ list \subseteq [by : Recorders, at : Nat]
    /\ pc \in [Calls -> Places]
    /\ todo \in [Calls -> SUBSET Counters]
    /\ request \in [Recorders -> [status : Nat, ms : Nat]]
    /\ instant \in [Recorders -> Nat]
    /\ snapshot \in [Readers -> [Counters \union {"listed", "at"} -> Nat]]
    /\ before \in [Observers -> SUBSET Calls]
    /\ met \in [Observers -> SUBSET Calls]
    /\ now \in Nat

\* So far finitely many calls have been made.
Finite == IsFiniteSet(Begun) /\ IsFiniteSet(list)

\* A call is among its counters exactly as long as it has some to touch.
Busy == \A c \in Calls : pc[c] = "atomics" <=> todo[c] # {}

Seen(o) == before[o] \union met[o]

\* What an observer knows: while it runs, every call that was ever made; at
\* any time, that those it calls earlier have returned.
Witnessed ==
    \A o \in Observers :
        /\ Seen(o) \subseteq Begun
        /\ \A c \in before[o] : pc[c] = "done"
        /\ o \in Running => Begun \ {o} \subseteq Seen(o)

BaseInv == TypeInv /\ Finite /\ Busy /\ Witnessed

\* The call has performed its operation on the counter, or never will.
Touched(c, f) == pc[c] # "idle" /\ f \notin todo[c]

\* The requests a counter holds for certain: no reset that zeroed it can have
\* come after them; and those it may hold: no reset has.
Held(f) == {r \in Recorders : Touched(r, f) /\
              \A z \in Resetters : Touched(z, f) => r \notin Seen(z)}
Holdable(f) == {r \in Recorders : Touched(r, f) /\
                  \A z \in Resetters : Touched(z, f) => r \notin before[z]}

\* What requests q of calls R add to a counter, unit by unit.
Units(q, R, f) == UNION {{r} \X (1..Added(q[r], f)) : r \in R}

Size(q, R, f) == Cardinality(Units(q, R, f))

Between(n, R, S, f) == Size(request, R, f) <= n /\ n <= Size(request, S, f)

Counted == \A f \in Counters : Between(counter[f], Held(f), Holdable(f), f)

Explained ==
    \A m \in Readers, f \in Counters :
        Touched(m, f) => Between(snapshot[m][f], MustCount(m), MayCount(m), f)

\* An entry leaves the list when it is a minute old, or by a reset.
Kept ==
    /\ \A r \in Recorders : instant[r] <= now
    /\ \A r \in Recorders : pc[r] = "done" =>
          \/ [by |-> r, at |-> instant[r]] \in list
          \/ instant[r] <= now - Minute
          \/ \E z \in Resetters : pc[z] = "done" /\ r \in Seen(z)

LastMinute(m) == {r \in MustCount(m) : instant[r] > snapshot[m].at - Minute}

Listed == \A m \in Readers : pc[m] = "done" =>
              Cardinality(LastMinute(m)) <= snapshot[m].listed

-----------------------------------------------------------------------------
(***************************************************************************)
(* Sums.  A sum over finitely many requests is the number of the units     *)
(* they add; TotalOf adds them one by one.                                 *)
(***************************************************************************)
Requests == [status : Nat, ms : Nat]

LEMMA AddedNat == ASSUME NEW q \in Requests, NEW f PROVE Added(q, f) \in Nat
BY DEF Requests, Added

LEMMA UnitsFinite ==
    ASSUME NEW q \in [Recorders -> Requests], NEW f, NEW R \in SUBSET Recorders, IsFiniteSet(R)
    PROVE  IsFiniteSet(Units(q, R, f)) /\ Size(q, R, f) \in Nat
<1> DEFINE part == [r \in R |-> {r} \X (1..Added(q[r], f))]
           parts == {{r} \X (1..Added(q[r], f)) : r \in R}
<1>1. part \in Surjection(R, parts)
  BY DEF Surjection
<1>2. IsFiniteSet(parts)
  BY <1>1, FS_Surjection
<1>3. ASSUME NEW r \in R PROVE IsFiniteSet({r} \X (1..Added(q[r], f)))
  <2>1. Added(q[r], f) \in Nat
    BY AddedNat
  <2>2. IsFiniteSet(1..Added(q[r], f))
    BY <2>1, FS_Interval
  <2>3. IsFiniteSet({r})
    BY FS_Singleton
  <2>4. QED
    BY <2>2, <2>3, FS_Product
<1>4. IsFiniteSet(UNION parts)
  BY <1>2, <1>3, FS_UNION
<1>5. QED
  BY <1>4, FS_CardinalityType DEF Units, Size

\* One request more adds what it is.
LEMMA SizeAdd ==
    ASSUME NEW q \in [Recorders -> Requests], NEW f, NEW R \in SUBSET Recorders, IsFiniteSet(R),
           NEW r \in Recorders \ R
    PROVE  Size(q, R \union {r}, f) = Size(q, R, f) + Added(q[r], f)
<1> DEFINE new == {r} \X (1..Added(q[r], f))
<1>1. Added(q[r], f) \in Nat
  BY AddedNat
<1>2. IsFiniteSet(new) /\ Cardinality(new) = Added(q[r], f)
  <2>1. IsFiniteSet(1..Added(q[r], f)) /\ Cardinality(1..Added(q[r], f)) = Added(q[r], f)
    BY <1>1, FS_Interval
  <2>2. IsFiniteSet({r}) /\ Cardinality({r}) = 1
    BY FS_Singleton
  <2>3. IsFiniteSet(new) /\ Cardinality(new) = 1 * Added(q[r], f)
    BY <2>1, <2>2, FS_Product
  <2>4. QED
    BY <1>1, <2>3
<1>3. Units(q, R \union {r}, f) = Units(q, R, f) \union new
  BY DEF Units
<1>4. Units(q, R, f) \intersect new = {}
  BY DEF Units
<1>5. IsFiniteSet(Units(q, R, f)) /\ Cardinality(Units(q, R, f)) \in Nat
  BY UnitsFinite DEF Size
<1> HIDE DEF new
<1>6. Cardinality(Units(q, R, f) \union new)
      = Cardinality(Units(q, R, f)) + Cardinality(new) - Cardinality(Units(q, R, f) \intersect new)
  BY <1>2, <1>5, FS_Union
<1>7. Cardinality(Units(q, R, f) \intersect new) = 0
  BY <1>4, FS_EmptySet
<1>8. Cardinality(Units(q, R, f) \union new) = Cardinality(Units(q, R, f)) + Cardinality(new)
  BY <1>1, <1>2, <1>5, <1>6, <1>7
<1>9. QED
  BY <1>2, <1>3, <1>8 DEF Size

LEMMA SizeGrows ==
    ASSUME NEW q \in [Recorders -> Requests], NEW f, NEW S \in SUBSET Recorders, IsFiniteSet(S),
           NEW R \in SUBSET S
    PROVE  /\ IsFiniteSet(R)
           /\ Size(q, R, f) \in Nat /\ Size(q, S, f) \in Nat
           /\ Size(q, R, f) <= Size(q, S, f)
<1>1. IsFiniteSet(R)
  BY FS_Subset
<1>2. Units(q, R, f) \subseteq Units(q, S, f)
  BY DEF Units
<1>3. QED
  BY <1>1, <1>2, UnitsFinite, FS_Subset DEF Size

\* Only the requests that are added up matter.
LEMMA SizeSame ==
    ASSUME NEW q1, NEW q2, NEW f, NEW R, \A r \in R : q1[r] = q2[r]
    PROVE  Size(q1, R, f) = Size(q2, R, f)
<1>1. Units(q1, R, f) = Units(q2, R, f)
  BY DEF Units
<1>2. QED
  BY <1>1 DEF Size

LEMMA SizeEmpty == ASSUME NEW q, NEW f PROVE Size(q, {}, f) = 0
<1>1. Units(q, {}, f) = {}
  BY DEF Units
<1>2. QED
  BY <1>1, FS_EmptySet DEF Size

\* The recursion that TotalOf is defined by.
Sums(q, R, f, total) ==
    total = [s \in SUBSET R |->
                IF s = {} THEN 0
                ELSE LET x == CHOOSE x \in s : TRUE
                     IN  Added(q[x], f) + total[s \ {x}]]

\* The sizes satisfy it ...
LEMMA SizesSum ==
    ASSUME NEW q \in [Recorders -> Requests], NEW f, NEW R \in SUBSET Recorders, IsFiniteSet(R)
    PROVE  Sums(q, R, f, [s \in SUBSET R |-> Size(q, s, f)])
<1> DEFINE size == [s \in SUBSET R |-> Size(q, s, f)]
<1>1. ASSUME NEW s \in SUBSET R, s # {}
      PROVE  size[s] = Added(q[CHOOSE x \in s : TRUE], f) + size[s \ {CHOOSE x \in s : TRUE}]
  <2>1. PICK x : x = CHOOSE y \in s : TRUE
    OBVIOUS
  <2>2. x \in s
    BY <1>1, <2>1
  <2>3. IsFiniteSet(s \ {x})
    BY FS_Subset
  <2>4. Size(q, (s \ {x}) \union {x}, f) = Size(q, s \ {x}, f) + Added(q[x], f)
    BY <2>2, <2>3, SizeAdd
  <2>5. (s \ {x}) \union {x} = s
    BY <2>2
  <2>6. Size(q, s \ {x}, f) \in Nat /\ Added(q[x], f) \in Nat
    BY <2>2, <2>3, UnitsFinite, AddedNat
  <2>7. size[s] = Size(q, s, f) /\ size[s \ {x}] = Size(q, s \ {x}, f)
    OBVIOUS
  <2> HIDE DEF size
  <2>8. size[s] = Added(q[x], f) + size[s \ {x}]
    BY <2>4, <2>5, <2>6, <2>7
  <2>9. QED
    BY <2>1, <2>8
<1>2. size[{}] = 0
  BY SizeEmpty
<1>3. \A s \in SUBSET R :
          size[s] = IF s = {} THEN 0
                    ELSE LET x == CHOOSE x \in s : TRUE IN Added(q[x], f) + size[s \ {x}]
  BY <1>1, <1>2
<1>4. size = [s \in SUBSET R |-> size[s]]
  OBVIOUS
<1> HIDE DEF size
<1>5. QED
  BY <1>3, <1>4 DEF Sums, size

\* ... and nothing else does, for a smallest set at which two solutions
\* differed would differ after one element is removed.
LEMMA SumsAlike ==
    ASSUME NEW q, NEW f, NEW R, IsFiniteSet(R), NEW t1, NEW t2, Sums(q, R, f, t1), Sums(q, R, f, t2)
    PROVE  t1 = t2
<1> DEFINE B == {s \in SUBSET R : t1[s] # t2[s]}
           smaller == StrictSubsetOrdering(R)
<1>1. \A s \in SUBSET R : s # {} =>
          /\ t1[s] = Added(q[CHOOSE x \in s : TRUE], f) + t1[s \ {CHOOSE x \in s : TRUE}]
          /\ t2[s] = Added(q[CHOOSE x \in s : TRUE], f) + t2[s \ {CHOOSE x \in s : TRUE}]
  BY DEF Sums
<1>2. t1[{}] = 0 /\ t2[{}] = 0
  BY DEF Sums
<1>3. B = {}
  <2>1. SUFFICES ASSUME B # {} PROVE FALSE
    OBVIOUS
  <2>2. IsWellFoundedOn(smaller, SUBSET R)
    BY FS_StrictSubsetOrderingWellFounded, FS_FiniteSubsetsOfFinite
  <2>3. PICK b \in B : \A s \in B : <<s, b>> \notin smaller
    BY <2>1, <2>2, WFMin
  <2>4. b \in SUBSET R /\ b # {}
    BY <1>2, <2>3
  <2>5. PICK x : x = CHOOSE y \in b : TRUE
    OBVIOUS
  <2>6. x \in b /\ b \ {x} \in SUBSET R
    BY <2>4, <2>5
  <2>7. <<b \ {x}, b>> \in smaller
    BY <2>4, <2>6 DEF StrictSubsetOrdering
  <2>8. t1[b \ {x}] = t2[b \ {x}]
    BY <2>3, <2>6, <2>7
  <2>9. t1[b] = t2[b]
    BY <1>1, <2>4, <2>5, <2>8
  <2>10. QED
    BY <2>3, <2>9
<1>4. t1 = [s \in SUBSET R |-> t1[s]] /\ t2 = [s \in SUBSET R |-> t2[s]]
  BY DEF Sums
<1>5. QED
  BY <1>3, <1>4

LEMMA TotalIsSize ==
    ASSUME TypeInv, NEW f, NEW R \in SUBSET Recorders, IsFiniteSet(R)
    PROVE  TotalOf(R, f) = Size(request, R, f)
<1> DEFINE size == [s \in SUBSET R |-> Size(request, s, f)]
           total == CHOOSE t : Sums(request, R, f, t)
<1>1. request \in [Recorders -> Requests]
  BY DEF TypeInv, Requests
<1>2. Sums(request, R, f, size)
  BY <1>1, SizesSum
<1>3. Sums(request, R, f, total)
  BY <1>2
<1>4. total = size
  <2> HIDE DEF size, total
  <2>1. QED
    BY <1>2, <1>3, SumsAlike
<1>5. TotalOf(R, f) = total[R]
  BY DEF TotalOf, MapThenSumSet, MapThenFoldSet, Sums
<1>6. QED
  BY <1>4, <1>5

-----------------------------------------------------------------------------
(***************************************************************************)
(* Who has begun, who is busy, who has seen whom.                          *)
(***************************************************************************)
LEMMA Roles ==
    /\ Recorders \subseteq Calls /\ Readers \subseteq Calls /\ Resetters \subseteq Calls
    /\ Observers \subseteq Calls /\ Readers \subseteq Observers /\ Resetters \subseteq Observers
    /\ \A r \in Recorders : r \notin Observers
    /\ \A m \in Readers : m \notin Resetters
BY CallsAssumption DEF Calls, Observers

LEMMA BaseInit == Init => BaseInv
<1> SUFFICES ASSUME Init PROVE BaseInv
  OBVIOUS
<1>1. TypeInv
  BY DEF Init, TypeInv, Places, Nothing
<1>2. Begun = {}
  BY DEF Init, Begun
<1>3. Finite
  BY <1>2, FS_EmptySet DEF Init, Finite
<1>4. Busy /\ Witnessed
  BY Roles DEF Init, Busy, Witnessed, Seen, Begun, Running
<1>5. QED
  BY <1>1, <1>3, <1>4 DEF BaseInv

\* A call begins.
LEMMA BaseBegin ==
    ASSUME BaseInv, NEW c \in Calls, NEW fields \in SUBSET Counters, Begin(c, fields),
           request' \in [Recorders -> [status : Nat, ms : Nat]]
    PROVE  /\ BaseInv'
           /\ Begun' = Begun \union {c}
           /\ c \notin Begun
<1>1. /\ pc[c] = "idle"
      /\ \E place \in {"list", "atomics"} :
            pc' = [pc EXCEPT ![c] = place] /\ (place = "atomics" <=> fields # {})
      /\ todo' = [todo EXCEPT ![c] = fields]
      /\ before' = [o \in Observers |-> IF o = c THEN Returned ELSE before[o]]
      /\ met' = [o \in Observers |-> IF o = c THEN Running
                                     ELSE IF o \in Running THEN met[o] \union {c} ELSE met[o]]
      /\ UNCHANGED <<counter, list, instant, snapshot, now>>
  BY DEF Begin, Goto
<1>2. TypeInv'
  BY <1>1 DEF BaseInv, TypeInv, Places, Returned, Running
<1>3. Begun' = Begun \union {c} /\ c \notin Begun
  BY <1>1 DEF BaseInv, TypeInv, Begun
<1>4. Finite'
  BY <1>1, <1>3, FS_AddElement DEF BaseInv, Finite
<1>5. Busy'
  BY <1>1 DEF BaseInv, TypeInv, Busy
<1>6. Begun = Returned \union Running
  BY DEF BaseInv, TypeInv, Begun, Returned, Running, Places
<1>7. Running' = Running \union {c} /\ c \notin Running
  BY <1>1 DEF BaseInv, TypeInv, Running
<1>8. ASSUME NEW o \in Observers
      PROVE  /\ before'[o] \union met'[o] \subseteq Begun'
             /\ \A d \in before'[o] : pc'[d] = "done"
             /\ o \in Running' => Begun' \ {o} \subseteq before'[o] \union met'[o]
  <2>1. CASE o = c
    <3>1. before'[o] = Returned /\ met'[o] = Running
      BY <1>1, <2>1
    <3>2. \A d \in Returned : pc'[d] = "done"
      BY <1>1 DEF Returned, BaseInv, TypeInv
    <3>3. QED
      BY <1>3, <1>6, <2>1, <3>1, <3>2
  <2>2. CASE o # c
    <3>1. before'[o] = before[o]
          /\ met'[o] = IF o \in Running THEN met[o] \union {c} ELSE met[o]
      BY <1>1, <2>2
    <3>2. /\ before[o] \union met[o] \subseteq Begun
          /\ \A d \in before[o] : pc[d] = "done"
          /\ o \in Running => Begun \ {o} \subseteq before[o] \union met[o]
      BY DEF BaseInv, Witnessed, Seen
    <3>3. \A d \in before[o] : pc'[d] = "done"
      BY <1>1, <3>2 DEF BaseInv, TypeInv
    <3>4. QED
      BY <1>3, <1>7, <2>2, <3>1, <3>2, <3>3
  <2>3. QED
    BY <2>1, <2>2
<1>9. Witnessed'
  BY <1>8 DEF Witnessed, Seen
<1>10. QED
  BY <1>2, <1>3, <1>4, <1>5, <1>9 DEF BaseInv

\* A call goes on: whoever had begun has begun, whoever was done is done.
LEMMA BaseGoOn ==
    ASSUME BaseInv, NEW c \in Calls, pc[c] \in {"atomics", "list", "push"},
           NEW place \in {"atomics", "list", "push", "done"}, Goto(c, place),
           TypeInv', IsFiniteSet(list'),
           UNCHANGED <<before, met>>,
           \A d \in Calls \ {c} : todo'[d] = todo[d],
           place = "atomics" <=> todo'[c] # {}
    PROVE  BaseInv' /\ Begun' = Begun
<1>1. Begun' = Begun
  BY DEF Begun, Goto, BaseInv, TypeInv
<1>2. Finite'
  BY <1>1 DEF Finite, BaseInv
<1>3. Busy'
  BY DEF Busy, BaseInv, TypeInv, Goto
<1>4. \A o \in Running' : o \in Running
  BY DEF Running, Goto, BaseInv, TypeInv
<1>5. \A d \in Calls : pc[d] = "done" => pc'[d] = "done"
  BY DEF Goto, BaseInv, TypeInv
<1>6. Witnessed'
  <2>1. \A o \in Observers : before[o] \subseteq Calls
    BY DEF BaseInv, TypeInv
  <2>2. QED
    BY <1>1, <1>4, <1>5, <2>1 DEF Witnessed, Seen, BaseInv
<1>7. QED
  BY <1>1, <1>2, <1>3, <1>6 DEF BaseInv

\* One operation on a counter.
LEMMA BaseTouch ==
    ASSUME BaseInv, NEW c \in Calls, NEW f \in Counters, Touch(c, f),
           counter' \in [Counters -> Nat], instant' = instant,
           snapshot' \in [Readers -> [Counters \union {"listed", "at"} -> Nat]]
    PROVE  /\ BaseInv' /\ Begun' = Begun
           /\ f \in todo[c] /\ pc[c] = "atomics"
           /\ todo' = [todo EXCEPT ![c] = todo[c] \ {f}]
           /\ UNCHANGED <<request, before, met, list>>
           /\ \A d \in Calls \ {c} : pc'[d] = pc[d]
           /\ pc'[c] # "idle"
<1>1. /\ f \in todo[c]
      /\ todo' = [todo EXCEPT ![c] = todo[c] \ {f}]
      /\ UNCHANGED <<list, request, before, met, now>>
  BY DEF Touch, history
<1>2. pc[c] = "atomics"
  BY <1>1 DEF BaseInv, Busy
<1>3. PICK place \in {"list", "atomics"} : Goto(c, place) /\ (place = "list" <=> todo[c] = {f})
  BY DEF Touch
<1>4. todo'[c] = todo[c] \ {f} /\ \A d \in Calls \ {c} : todo'[d] = todo[d]
  BY <1>1 DEF BaseInv, TypeInv
<1>5. TypeInv'
  BY <1>1, <1>3 DEF BaseInv, TypeInv, Goto, Places
<1>6. place = "atomics" <=> todo'[c] # {}
  BY <1>1, <1>3, <1>4
<1>7. BaseInv' /\ Begun' = Begun
  BY <1>1, <1>2, <1>3, <1>4, <1>5, <1>6, BaseGoOn DEF BaseInv, Finite
<1>8. QED
  BY <1>1, <1>2, <1>3, <1>7 DEF Goto, BaseInv, TypeInv

\* A step of a call after its counters.
LEMMA BaseAfter ==
    ASSUME BaseInv, NEW c \in Calls, pc[c] \in {"list", "push"},
           NEW place \in {"push", "done"}, Goto(c, place),
           IsFiniteSet(list'), list' \subseteq [by : Recorders, at : Nat],
           instant' \in [Recorders -> Nat],
           snapshot' \in [Readers -> [Counters \union {"listed", "at"} -> Nat]],
           UNCHANGED <<counter, todo, request, before, met, now>>
    PROVE  BaseInv' /\ Begun' = Begun
<1>1. TypeInv'
  BY DEF BaseInv, TypeInv, Goto, Places
<1>2. todo[c] = {}
  BY DEF BaseInv, Busy
<1>3. QED
  BY <1>1, <1>2, BaseGoOn

-----------------------------------------------------------------------------
\* The sets that are added up are finite, and of calls that have begun.
LEMMA Summable ==
    ASSUME BaseInv, NEW f, NEW m \in Readers
    PROVE  /\ \A R \in {Held(f), Holdable(f), MustCount(m), MayCount(m)} :
                 R \in SUBSET (Recorders \intersect Begun)
           /\ \A R \in SUBSET (Recorders \intersect Begun) :
                 R \in SUBSET Recorders /\ IsFiniteSet(R)
           /\ request \in [Recorders -> Requests]
<1>1. \A r \in Recorders : pc[r] # "idle" => r \in Begun
  BY Roles DEF Begun
<1>2. before[m] \union met[m] \subseteq Begun
  BY Roles DEF BaseInv, Witnessed, Seen
<1>3. \A R \in SUBSET (Recorders \intersect Begun) : IsFiniteSet(R)
  BY FS_Subset DEF BaseInv, Finite
<1>4. QED
  BY <1>1, <1>2, <1>3 DEF Held, Holdable, Touched, MustCount, MayCount, BaseInv, TypeInv, Requests

LEMMA BetweenKept ==
    ASSUME BaseInv, BaseInv', \A r \in Recorders \intersect Begun : request'[r] = request[r],
           NEW f, NEW n \in Nat,
           NEW R \in SUBSET (Recorders \intersect Begun), NEW S \in SUBSET (Recorders \intersect Begun),
           Size(request, R, f) <= n, n <= Size(request, S, f),
           NEW R1 \in SUBSET R, NEW S1 \in SUBSET (Recorders \intersect Begun'), S \subseteq S1
    PROVE  Size(request', R1, f) <= n /\ n <= Size(request', S1, f)
<1>1. /\ request \in [Recorders -> Requests] /\ request' \in [Recorders -> Requests]
      /\ R \in SUBSET Recorders /\ S \in SUBSET Recorders /\ S1 \in SUBSET Recorders
  BY DEF BaseInv, TypeInv, Requests
<1>2. IsFiniteSet(R) /\ IsFiniteSet(S) /\ IsFiniteSet(S1)
  BY FS_Subset DEF BaseInv, Finite
<1>3. Size(request', R, f) = Size(request, R, f) /\ Size(request', S, f) = Size(request, S, f)
  BY SizeSame
<1>4. /\ Size(request', R1, f) \in Nat /\ Size(request', R, f) \in Nat
      /\ Size(request', R1, f) <= Size(request', R, f)
  BY <1>1, <1>2, SizeGrows
<1>5. /\ Size(request', S, f) \in Nat /\ Size(request', S1, f) \in Nat
      /\ Size(request', S, f) <= Size(request', S1, f)
  BY <1>1, <1>2, SizeGrows
<1>6. QED
  BY <1>3, <1>4, <1>5

\* What a counter holds stays explained if it keeps its value, and the same
\* requests and resets have touched it.
LEMMA CounterKept ==
    ASSUME BaseInv, BaseInv', \A r \in Recorders \intersect Begun : request'[r] = request[r],
           Begun \subseteq Begun',
           NEW f \in Counters, Between(counter[f], Held(f), Holdable(f), f),
           counter'[f] = counter[f],
           \A r \in Recorders : (Touched(r, f))' <=> Touched(r, f),
           \A z \in Resetters : (Touched(z, f))' <=> Touched(z, f),
           \A z \in Resetters, r \in Recorders : Touched(z, f) /\ Touched(r, f) =>
               /\ r \in before'[z] <=> r \in before[z]
               /\ r \in before'[z] \union met'[z] <=> r \in Seen(z)
    PROVE  Between(counter[f], Held(f), Holdable(f), f)'
<1>1. /\ Held(f) \in SUBSET (Recorders \intersect Begun)
      /\ Holdable(f) \in SUBSET (Recorders \intersect Begun)
  BY Roles DEF Held, Holdable, Touched, Begun
<1>2. Held(f)' = Held(f)
  BY DEF Held, Seen
<1>3. Holdable(f)' = Holdable(f)
  BY DEF Holdable
<1>4. counter[f] \in Nat
  BY DEF BaseInv, TypeInv
<1>5. Size(request, Held(f), f) <= counter[f] /\ counter[f] <= Size(request, Holdable(f), f)
  BY DEF Between
<1>6. Size(request', Held(f)', f) <= counter[f] /\ counter[f] <= Size(request', Holdable(f)', f)
  BY <1>1, <1>2, <1>3, <1>4, <1>5, BetweenKept
<1>7. QED
  BY <1>6 DEF Between

\* What a snapshot shows stays explained: the longer it takes, the less it
\* must and the more it may count.
LEMMA SnapshotKept ==
    ASSUME BaseInv, BaseInv', \A r \in Recorders \intersect Begun : request'[r] = request[r],
           Begun \subseteq Begun',
           NEW f \in Counters, NEW m \in Readers,
           Between(snapshot[m][f], MustCount(m), MayCount(m), f),
           snapshot'[m][f] = snapshot[m][f],
           before'[m] = before[m], met[m] \subseteq met'[m],
           \A z \in Resetters \intersect Seen(m) : before'[z] = before[z] /\ met[z] \subseteq met'[z]
    PROVE  Between(snapshot[m][f], MustCount(m), MayCount(m), f)'
<1>1. MustCount(m) \in SUBSET (Recorders \intersect Begun) /\ MayCount(m) \in SUBSET (Recorders \intersect Begun)
  BY Summable
<1>2. MustCount(m)' \subseteq MustCount(m)
  BY DEF MustCount, Seen
<1>3. MayCount(m) \subseteq MayCount(m)'
  BY DEF MayCount, Seen
<1>4. MayCount(m)' \in SUBSET (Recorders \intersect Begun')
  <2>1. before'[m] \union met'[m] \subseteq Begun'
    BY Roles DEF BaseInv, Witnessed, Seen
  <2>2. QED
    BY <2>1 DEF MayCount
<1>5. snapshot[m][f] \in Nat
  BY DEF BaseInv, TypeInv
<1>6. Size(request, MustCount(m), f) <= snapshot[m][f] /\ snapshot[m][f] <= Size(request, MayCount(m), f)
  BY DEF Between
<1>7. Size(request', MustCount(m)', f) <= snapshot[m][f] /\ snapshot[m][f] <= Size(request', MayCount(m)', f)
  BY <1>1, <1>2, <1>3, <1>4, <1>5, <1>6, BetweenKept
<1>8. QED
  BY <1>7 DEF Between

SumInv == BaseInv /\ Counted /\ Explained

\* A step that touches no counter.
LEMMA SumsIdle ==
    ASSUME SumInv, BaseInv', Begun' = Begun,
           UNCHANGED <<counter, todo, request, before, met>>,
           \A m \in Readers, f \in Counters : snapshot'[m][f] = snapshot[m][f]
    PROVE  SumInv'
<1>1. \A c \in Calls, f \in Counters : (Touched(c, f))' <=> Touched(c, f)
  <2>1. \A c \in Calls : (pc[c] # "idle")' <=> pc[c] # "idle"
    BY DEF Begun
  <2>2. QED
    BY <2>1 DEF Touched
<1>2. ASSUME NEW f \in Counters PROVE Between(counter[f], Held(f), Holdable(f), f)'
  <2>1. Between(counter[f], Held(f), Holdable(f), f)
    BY DEF SumInv, Counted
  <2>2. \A z \in Resetters, r \in Recorders : Touched(z, f) /\ Touched(r, f) =>
               /\ r \in before'[z] <=> r \in before[z]
               /\ r \in before'[z] \union met'[z] <=> r \in Seen(z)
    BY DEF Seen
  <2>3. QED
    BY <1>1, <2>1, <2>2, Roles, CounterKept DEF SumInv
<1>3. ASSUME NEW m \in Readers, NEW f \in Counters, (Touched(m, f))'
      PROVE  Between(snapshot[m][f], MustCount(m), MayCount(m), f)'
  <2>1. Touched(m, f)
    BY <1>1, <1>3, Roles
  <2>2. Between(snapshot[m][f], MustCount(m), MayCount(m), f)
    BY <2>1 DEF SumInv, Explained
  <2>3. QED
    BY <2>2, SnapshotKept DEF SumInv
<1>4. QED
  BY <1>2, <1>3 DEF SumInv, Counted, Explained

\* A call that begins has touched nothing yet, but the counters it will never
\* touch; those a request adds nothing to.
LEMMA SumsBegin ==
    ASSUME SumInv, NEW c \in Calls, NEW fields \in SUBSET Counters, Begin(c, fields),
           request' \in [Recorders -> [status : Nat, ms : Nat]],
           \A r \in Recorders \ {c} : request'[r] = request[r],
           c \notin Recorders => fields = Counters,
           c \in Recorders => \A f \in Counters \ fields : Added(request'[c], f) = 0
    PROVE  SumInv'
<1>1. BaseInv /\ BaseInv' /\ Begun' = Begun \union {c} /\ c \notin Begun
  BY BaseBegin DEF SumInv
<1>2. /\ pc[c] = "idle" /\ pc'[c] # "idle"
      /\ \A d \in Calls \ {c} : pc'[d] = pc[d] /\ todo'[d] = todo[d]
      /\ todo'[c] = fields
      /\ UNCHANGED <<counter, snapshot>>
  BY <1>1 DEF Begin, Goto, BaseInv, TypeInv
<1>3. \A o \in Observers \ {c} :
          /\ before'[o] = before[o]
          /\ met'[o] = IF o \in Running THEN met[o] \union {c} ELSE met[o]
  BY DEF Begin
<1>4. \A r \in Recorders \intersect Begun : request'[r] = request[r]
  BY <1>1
<1>5. \A f \in Counters : /\ ~Touched(c, f)
                          /\ (Touched(c, f))' <=> f \notin fields
                          /\ \A d \in Calls \ {c} : (Touched(d, f))' <=> Touched(d, f)
  BY <1>2 DEF Touched
<1>6. ASSUME NEW f \in Counters, c \notin Recorders \/ f \in fields
      PROVE  Between(counter[f], Held(f), Holdable(f), f)'
  <2>1. Between(counter[f], Held(f), Holdable(f), f)
    BY DEF SumInv, Counted
  <2>2. \A d \in Calls : (Touched(d, f))' <=> Touched(d, f)
    BY <1>5, <1>6
  <2>3. \A z \in Resetters, r \in Recorders : Touched(z, f) /\ Touched(r, f) =>
               /\ r \in before'[z] <=> r \in before[z]
               /\ r \in before'[z] \union met'[z] <=> r \in Seen(z)
    BY <1>3, <1>5, Roles DEF Seen
  <2>4. QED
    BY <1>1, <1>2, <1>4, <2>1, <2>2, <2>3, Roles, CounterKept
<1>7. ASSUME NEW f \in Counters, c \in Recorders, f \notin fields
      PROVE  Between(counter[f], Held(f), Holdable(f), f)'
  <2>1. /\ Size(request, Held(f), f) <= counter[f] /\ counter[f] <= Size(request, Holdable(f), f)
        /\ counter[f] \in Nat
    BY <1>1 DEF SumInv, Counted, Between, BaseInv, TypeInv
  <2>2. /\ Held(f) \in SUBSET (Recorders \intersect Begun)
        /\ Holdable(f) \in SUBSET (Recorders \intersect Begun)
    BY Roles DEF Held, Holdable, Touched, Begun
  <2>3. \A z \in Resetters : (Touched(z, f))' <=> Touched(z, f)
    BY <1>5, <1>7, Roles
  <2>4. Held(f)' \subseteq Held(f) \union {c}
    BY <1>3, <1>5, <1>7, <2>3, Roles DEF Held, Seen
  <2>5. Holdable(f) \subseteq Holdable(f)' /\ Holdable(f)' \in SUBSET (Recorders \intersect Begun')
    <3>1. Holdable(f) \subseteq Holdable(f)'
      BY <1>3, <1>5, <1>7, <2>3, Roles DEF Holdable
    <3>2. Holdable(f)' \in SUBSET (Recorders \intersect Begun')
      BY Roles DEF Holdable, Touched, Begun
    <3>3. QED
      BY <3>1, <3>2
  <2>6. Size(request', Held(f), f) <= counter[f] /\ counter[f] <= Size(request', Holdable(f)', f)
    BY <1>1, <1>4, <2>1, <2>2, <2>5, BetweenKept
  <2>7. Size(request', Held(f) \union {c}, f) = Size(request', Held(f), f)
    <3>1. request' \in [Recorders -> Requests] /\ c \in Recorders \ Held(f) /\ Held(f) \in SUBSET Recorders
      BY <1>1, <1>7, <2>2 DEF Requests
    <3>2. IsFiniteSet(Held(f))
      BY <1>1, <2>2, FS_Subset DEF BaseInv, Finite
    <3>3. Size(request', Held(f) \union {c}, f) = Size(request', Held(f), f) + Added(request'[c], f)
      BY <3>1, <3>2, SizeAdd
    <3>4. Size(request', Held(f), f) \in Nat
      BY <3>1, <3>2, UnitsFinite
    <3>5. QED
      BY <1>7, <3>3, <3>4
  <2>8. /\ Size(request', Held(f)', f) \in Nat /\ Size(request', Held(f) \union {c}, f) \in Nat
        /\ Size(request', Held(f)', f) <= Size(request', Held(f) \union {c}, f)
    <3>1. Held(f) \union {c} \in SUBSET (Recorders \intersect Begun')
      BY <1>1, <1>7, <2>2
    <3>2. IsFiniteSet(Held(f) \union {c}) /\ Held(f) \union {c} \in SUBSET Recorders
      BY <1>1, <3>1, FS_Subset DEF BaseInv, Finite
    <3>3. request' \in [Recorders -> Requests]
      BY DEF Requests
    <3>4. QED
      BY <2>4, <3>2, <3>3, SizeGrows
  <2>9. Size(request', Held(f)', f) <= counter[f]
    BY <2>1, <2>6, <2>7, <2>8
  <2>10. QED
    BY <1>2, <2>6, <2>9 DEF Between
<1>8. ASSUME NEW m \in Readers, NEW f \in Counters, (Touched(m, f))'
      PROVE  Between(snapshot[m][f], MustCount(m), MayCount(m), f)'
  <2>1. m # c /\ Touched(m, f)
    BY <1>5, <1>8, Roles
  <2>2. Between(snapshot[m][f], MustCount(m), MayCount(m), f)
    BY <2>1 DEF SumInv, Explained
  <2>3. Seen(m) \subseteq Begun
    BY <1>1, Roles DEF BaseInv, Witnessed
  <2>4. before'[m] = before[m] /\ met[m] \subseteq met'[m]
    BY <1>3, <2>1, Roles
  <2>5. \A z \in Resetters \intersect Seen(m) : before'[z] = before[z] /\ met[z] \subseteq met'[z]
    BY <1>1, <1>3, <2>3, Roles
  <2>6. QED
    BY <1>1, <1>2, <1>4, <2>2, <2>4, <2>5, SnapshotKept
<1>9. QED
  BY <1>1, <1>6, <1>7, <1>8 DEF SumInv, Counted, Explained

\* An operation on a counter changes the sums of that counter only.
LEMMA OthersKept ==
    ASSUME SumInv, BaseInv', Begun' = Begun, NEW c \in Calls, NEW g \in Counters,
           pc[c] = "atomics", pc'[c] # "idle", \A d \in Calls \ {c} : pc'[d] = pc[d],
           todo' = [todo EXCEPT ![c] = todo[c] \ {g}],
           UNCHANGED <<request, before, met>>,
           NEW f \in Counters, f # g, counter'[f] = counter[f]
    PROVE  /\ Between(counter[f], Held(f), Holdable(f), f)'
           /\ \A m \in Readers : (Touched(m, f))' <=> Touched(m, f)
<1>1. \A d \in Calls : (Touched(d, f))' <=> Touched(d, f)
  BY DEF Touched, SumInv, BaseInv, TypeInv
<1>2. Between(counter[f], Held(f), Holdable(f), f)
  BY DEF SumInv, Counted
<1>3. \A z \in Resetters, r \in Recorders : Touched(z, f) /\ Touched(r, f) =>
               /\ r \in before'[z] <=> r \in before[z]
               /\ r \in before'[z] \union met'[z] <=> r \in Seen(z)
  BY DEF Seen
<1>4. QED
  BY <1>1, <1>2, <1>3, Roles, CounterKept DEF SumInv

\* A request is added to the counter it had not touched.
LEMMA SumsFetchAdd ==
    ASSUME SumInv, NEW c \in Recorders, NEW g \in Counters, FetchAdd(c, g)
    PROVE  SumInv'
<1>0. /\ Touch(c, g) /\ snapshot' = snapshot /\ instant' = instant
      /\ counter' = [counter EXCEPT ![g] = counter[g] + Added(request[c], g)]
      /\ BaseInv /\ c \in Calls
  BY Roles DEF FetchAdd, SumInv
<1>1. /\ request \in [Recorders -> Requests] /\ Added(request[c], g) \in Nat
      /\ counter \in [Counters -> Nat]
      /\ counter'[g] = counter[g] + Added(request[c], g)
      /\ \A f \in Counters \ {g} : counter'[f] = counter[f]
      /\ counter' \in [Counters -> Nat]
  <2>1. request \in [Recorders -> Requests] /\ counter \in [Counters -> Nat]
    BY DEF SumInv, BaseInv, TypeInv, Requests
  <2>2. Added(request[c], g) \in Nat
    BY <2>1, AddedNat
  <2>3. QED
    BY <1>0, <2>1, <2>2
<1>2. /\ BaseInv' /\ Begun' = Begun
      /\ g \in todo[c] /\ pc[c] = "atomics" /\ pc'[c] # "idle"
      /\ todo' = [todo EXCEPT ![c] = todo[c] \ {g}]
      /\ UNCHANGED <<request, before, met, list>>
      /\ \A d \in Calls \ {c} : pc'[d] = pc[d]
  <2>1. snapshot' \in [Readers -> [Counters \union {"listed", "at"} -> Nat]]
    BY <1>0 DEF BaseInv, TypeInv
  <2>2. QED
    BY <1>0, <1>1, <2>1, BaseTouch
<1>3. ASSUME NEW f \in Counters, f # g
      PROVE  Between(counter[f], Held(f), Holdable(f), f)'
  BY <1>0, <1>1, <1>2, <1>3, OthersKept
<1>4. /\ ~Touched(c, g) /\ (Touched(c, g))' /\ c \in Begun
      /\ \A d \in Calls \ {c} : (Touched(d, g))' <=> Touched(d, g)
  BY <1>0, <1>2 DEF Touched, BaseInv, TypeInv, Begun
<1>5. Between(counter[g], Held(g), Holdable(g), g)'
  <2>1. Size(request, Held(g), g) <= counter[g] /\ counter[g] <= Size(request, Holdable(g), g)
    BY DEF SumInv, Counted, Between
  <2>2. /\ Held(g) \in SUBSET (Recorders \intersect Begun)
        /\ Holdable(g) \in SUBSET (Recorders \intersect Begun)
        /\ Held(g)' \in SUBSET (Recorders \intersect Begun)
    BY <1>2, Roles DEF Held, Holdable, Touched, Begun
  <2>3. \A z \in Resetters : (Touched(z, g))' <=> Touched(z, g)
    BY <1>4, Roles
  <2>4. Held(g)' \subseteq Held(g) \union {c}
    BY <1>2, <1>4, <2>3, Roles DEF Held, Seen
  \* The request is running: no reset has begun after it had returned.
  <2>5. \A z \in Resetters : c \notin before[z]
    BY <1>0, <1>2, Roles DEF BaseInv, Witnessed
  <2>6. Holdable(g)' = Holdable(g) \union {c}
    <3>1. ASSUME NEW r \in Recorders PROVE r \in Holdable(g)' <=> r \in Holdable(g) \union {c}
      BY <1>2, <1>4, <2>3, <2>5, Roles DEF Holdable
    <3>2. QED
      BY <3>1 DEF Holdable
  <2>7. c \notin Held(g) /\ c \notin Holdable(g)
    BY <1>4 DEF Held, Holdable
  <2>8. /\ IsFiniteSet(Held(g)) /\ Held(g) \in SUBSET Recorders
        /\ IsFiniteSet(Holdable(g)) /\ Holdable(g) \in SUBSET Recorders
        /\ IsFiniteSet(Held(g) \union {c}) /\ Held(g) \union {c} \in SUBSET Recorders
    BY <1>0, <2>2, FS_Subset, FS_AddElement DEF BaseInv, Finite
  <2>9. Size(request, Held(g) \union {c}, g) = Size(request, Held(g), g) + Added(request[c], g)
    BY <1>1, <2>7, <2>8, SizeAdd
  <2>10. Size(request, Holdable(g)', g) = Size(request, Holdable(g), g) + Added(request[c], g)
    BY <1>1, <2>6, <2>7, <2>8, SizeAdd
  <2>11. /\ Size(request, Held(g)', g) \in Nat /\ Size(request, Held(g) \union {c}, g) \in Nat
         /\ Size(request, Held(g)', g) <= Size(request, Held(g) \union {c}, g)
    BY <1>1, <2>4, <2>8, SizeGrows
  <2>12. Size(request, Held(g), g) \in Nat /\ Size(request, Holdable(g), g) \in Nat
    BY <1>1, <2>8, UnitsFinite
  <2>13. counter[g] \in Nat
    BY <1>1
  <2>14. Size(request, Held(g)', g) <= counter'[g] /\ counter'[g] <= Size(request, Holdable(g)', g)
    BY <1>1, <2>1, <2>9, <2>10, <2>11, <2>12, <2>13
  <2>15. QED
    BY <1>2, <2>14 DEF Between
<1>6. ASSUME NEW m \in Readers, NEW f \in Counters, (Touched(m, f))'
      PROVE  Between(snapshot[m][f], MustCount(m), MayCount(m), f)'
  <2>1. Touched(m, f)
    BY <1>2, <1>6, Roles DEF Touched
  <2>2. Between(snapshot[m][f], MustCount(m), MayCount(m), f)
    BY <2>1 DEF SumInv, Explained
  <2>3. QED
    BY <1>0, <1>2, <2>2, SnapshotKept
<1>7. QED
  BY <1>2, <1>3, <1>5, <1>6 DEF SumInv, Counted, Explained

\* A snapshot reads a counter: the requests that counter holds for certain
\* include those the snapshot must count, and the snapshot may count those it
\* may hold.
LEMMA SumsLoad ==
    ASSUME SumInv, NEW c \in Readers, NEW g \in Counters, Load(c, g)
    PROVE  SumInv'
<1>0. /\ Touch(c, g) /\ counter' = counter /\ instant' = instant
      /\ snapshot' = [snapshot EXCEPT ![c][g] = counter[g]]
      /\ BaseInv /\ c \in Calls /\ c \in Observers
  BY Roles DEF Load, SumInv
<1>1. /\ counter \in [Counters -> Nat]
      /\ snapshot \in [Readers -> [Counters \union {"listed", "at"} -> Nat]]
      /\ snapshot' \in [Readers -> [Counters \union {"listed", "at"} -> Nat]]
      /\ snapshot'[c][g] = counter[g]
      /\ \A m \in Readers, f \in Counters : m # c \/ f # g => snapshot'[m][f] = snapshot[m][f]
  <2>1. /\ counter \in [Counters -> Nat]
        /\ snapshot \in [Readers -> [Counters \union {"listed", "at"} -> Nat]]
    BY <1>0 DEF BaseInv, TypeInv
  <2>2. QED
    BY <1>0, <2>1
<1>2. /\ BaseInv' /\ Begun' = Begun
      /\ g \in todo[c] /\ pc[c] = "atomics" /\ pc'[c] # "idle"
      /\ todo' = [todo EXCEPT ![c] = todo[c] \ {g}]
      /\ UNCHANGED <<request, before, met, list>>
      /\ \A d \in Calls \ {c} : pc'[d] = pc[d]
  BY <1>0, <1>1, BaseTouch
<1>3. \A d \in Calls, f \in Counters : d # c \/ f # g => ((Touched(d, f))' <=> Touched(d, f))
  BY <1>0, <1>2 DEF Touched, BaseInv, TypeInv
<1>4. ASSUME NEW f \in Counters
      PROVE  Between(counter[f], Held(f), Holdable(f), f)'
  <2>1. Between(counter[f], Held(f), Holdable(f), f)
    BY DEF SumInv, Counted
  <2>2. \A d \in Recorders \union Resetters : (Touched(d, f))' <=> Touched(d, f)
    BY <1>3, Roles
  <2>3. \A z \in Resetters, r \in Recorders : Touched(z, f) /\ Touched(r, f) =>
               /\ r \in before'[z] <=> r \in before[z]
               /\ r \in before'[z] \union met'[z] <=> r \in Seen(z)
    BY <1>2 DEF Seen
  <2>4. QED
    BY <1>0, <1>2, <2>1, <2>2, <2>3, CounterKept
<1>5. ASSUME NEW m \in Readers, NEW f \in Counters, m # c \/ f # g, (Touched(m, f))'
      PROVE  Between(snapshot[m][f], MustCount(m), MayCount(m), f)'
  <2>1. Touched(m, f)
    BY <1>3, <1>5, Roles
  <2>2. Between(snapshot[m][f], MustCount(m), MayCount(m), f)
    BY <2>1 DEF SumInv, Explained
  <2>3. QED
    BY <1>0, <1>1, <1>2, <1>5, <2>2, SnapshotKept
<1>6. Between(snapshot[c][g], MustCount(c), MayCount(c), g)'
  <2>1. Begun \ {c} \subseteq Seen(c) /\ Seen(c) \subseteq Begun
    BY <1>0, <1>2 DEF BaseInv, Witnessed, Running
  <2>2. MustCount(c) \subseteq Held(g)
    <3>1. ASSUME NEW r \in MustCount(c) PROVE Touched(r, g)
      <4>1. r \in before[c] /\ r \in Recorders
        BY DEF MustCount
      <4>2. pc[r] = "done" /\ r \in Calls
        BY <1>0, <4>1, Roles DEF BaseInv, Witnessed
      <4>3. todo[r] = {}
        BY <1>0, <4>2 DEF BaseInv, Busy
      <4>4. QED
        BY <4>2, <4>3 DEF Touched
    <3>2. ASSUME NEW z \in Resetters, Touched(z, g) PROVE z \in Seen(c)
      BY <2>1, <3>2, Roles DEF Touched, Begun
    <3>3. QED
      BY <3>1, <3>2 DEF MustCount, Held, Seen
  <2>3. Holdable(g) \subseteq MayCount(c)
    <3>1. ASSUME NEW r \in Recorders, Touched(r, g) PROVE r \in Seen(c)
      BY <2>1, <3>1, Roles DEF Touched, Begun
    <3>2. ASSUME NEW z \in Resetters \intersect before[c] PROVE Touched(z, g)
      <4>1. pc[z] = "done" /\ z \in Calls
        BY <1>0, Roles DEF BaseInv, Witnessed
      <4>2. todo[z] = {}
        BY <1>0, <4>1 DEF BaseInv, Busy
      <4>3. QED
        BY <4>1, <4>2 DEF Touched
    <3>3. QED
      BY <3>1, <3>2 DEF Holdable, MayCount, Seen
  <2>4. MustCount(c)' = MustCount(c) /\ MayCount(c)' = MayCount(c)
    BY <1>2 DEF MustCount, MayCount
  <2>5. Size(request, Held(g), g) <= counter[g] /\ counter[g] <= Size(request, Holdable(g), g)
        /\ counter[g] \in Nat
    BY <1>1 DEF SumInv, Counted, Between
  <2>6. /\ Held(g) \in SUBSET (Recorders \intersect Begun)
        /\ Holdable(g) \in SUBSET (Recorders \intersect Begun)
        /\ MayCount(c) \in SUBSET (Recorders \intersect Begun')
    BY <1>0, <1>2, Summable
  <2>7. Size(request', MustCount(c), g) <= counter[g] /\ counter[g] <= Size(request', MayCount(c), g)
    BY <1>0, <1>2, <2>2, <2>3, <2>5, <2>6, BetweenKept
  <2>8. QED
    BY <1>1, <2>4, <2>7 DEF Between
<1>7. ASSUME NEW m \in Readers, NEW f \in Counters, (Touched(m, f))'
      PROVE  Between(snapshot[m][f], MustCount(m), MayCount(m), f)'
  <2>1. CASE m # c \/ f # g
    BY <1>5, <1>7, <2>1
  <2>2. CASE m = c /\ f = g
    BY <1>6, <2>2
  <2>3. QED
    BY <2>1, <2>2
<1>8. QED
  BY <1>2, <1>4, <1>7 DEF SumInv, Counted, Explained

\* A reset zeroes a counter: every request that has touched it is one the
\* running reset has seen.
LEMMA SumsStoreZero ==
    ASSUME SumInv, NEW c \in Resetters, NEW g \in Counters, StoreZero(c, g)
    PROVE  SumInv'
<1>0. /\ Touch(c, g) /\ counter' = [counter EXCEPT ![g] = 0]
      /\ instant' = instant /\ snapshot' = snapshot
      /\ BaseInv /\ c \in Calls /\ c \in Observers
  BY Roles DEF StoreZero, SumInv
<1>1. /\ counter' \in [Counters -> Nat] /\ counter'[g] = 0
      /\ \A f \in Counters \ {g} : counter'[f] = counter[f]
      /\ snapshot' \in [Readers -> [Counters \union {"listed", "at"} -> Nat]]
  BY <1>0 DEF BaseInv, TypeInv
<1>2. /\ BaseInv' /\ Begun' = Begun
      /\ g \in todo[c] /\ pc[c] = "atomics" /\ pc'[c] # "idle"
      /\ todo' = [todo EXCEPT ![c] = todo[c] \ {g}]
      /\ UNCHANGED <<request, before, met, list>>
      /\ \A d \in Calls \ {c} : pc'[d] = pc[d]
  BY <1>0, <1>1, BaseTouch
<1>3. ASSUME NEW f \in Counters, f # g
      PROVE  Between(counter[f], Held(f), Holdable(f), f)'
  BY <1>0, <1>1, <1>2, <1>3, OthersKept
<1>4. Between(counter[g], Held(g), Holdable(g), g)'
  <2>1. (Touched(c, g))'
    BY <1>0, <1>2 DEF Touched, BaseInv, TypeInv
  <2>2. Begun \ {c} \subseteq Seen(c)
    BY <1>0, <1>2 DEF BaseInv, Witnessed, Running
  <2>3. ASSUME NEW r \in Recorders, (Touched(r, g))' PROVE r \in before'[c] \union met'[c]
    BY <1>2, <2>2, <2>3, Roles DEF Touched, Begun, Seen
  <2>4. Held(g)' = {}
    BY <2>1, <2>3 DEF Held, Seen
  <2>5. Holdable(g)' \in SUBSET (Recorders \intersect Begun')
    BY Roles DEF Holdable, Touched, Begun
  <2>6. IsFiniteSet(Holdable(g)') /\ Holdable(g)' \in SUBSET Recorders
    BY <1>2, <2>5, FS_Subset DEF BaseInv, Finite
  <2>7. Size(request', Holdable(g)', g) \in Nat
    BY <1>2, <2>6, UnitsFinite DEF BaseInv, TypeInv, Requests
  <2>8. Size(request', Held(g)', g) = 0
    BY <2>4, SizeEmpty
  <2>9. QED
    BY <1>1, <2>7, <2>8 DEF Between
<1>5. ASSUME NEW m \in Readers, NEW f \in Counters, (Touched(m, f))'
      PROVE  Between(snapshot[m][f], MustCount(m), MayCount(m), f)'
  <2>1. Touched(m, f)
    BY <1>2, <1>5, Roles DEF Touched
  <2>2. Between(snapshot[m][f], MustCount(m), MayCount(m), f)
    BY <2>1 DEF SumInv, Explained
  <2>3. QED
    BY <1>0, <1>2, <2>2, SnapshotKept
<1>6. QED
  BY <1>2, <1>3, <1>4, <1>5 DEF SumInv, Counted, Explained

-----------------------------------------------------------------------------
(***************************************************************************)
(* The list of the last minute.                                            *)
(***************************************************************************)
ListInv == Kept /\ Listed

\* The requests of the last minute that a snapshot must count are finitely many.
LEMMA LastMinuteFinite ==
    ASSUME BaseInv, NEW m \in Readers
    PROVE  IsFiniteSet(MustCount(m)) /\ LastMinute(m) \subseteq MustCount(m)
<1>1. MustCount(m) \subseteq Begun
  BY Roles DEF MustCount, BaseInv, Witnessed, Seen
<1>2. QED
  BY <1>1, FS_Subset DEF BaseInv, Finite, LastMinute

\* A finished snapshot keeps its list's length; it must count fewer and fewer.
LEMMA ListedKept ==
    ASSUME BaseInv, BaseInv', NEW m \in Readers, pc[m] = "done",
           Cardinality(LastMinute(m)) <= snapshot[m].listed,
           snapshot'[m] = snapshot[m], MustCount(m)' \subseteq MustCount(m),
           \A r \in Recorders : pc[r] = "done" => instant'[r] = instant[r]
    PROVE  (Cardinality(LastMinute(m)) <= snapshot[m].listed)'
<1>1. \A r \in MustCount(m) : r \in Recorders /\ pc[r] = "done"
  BY Roles DEF MustCount, BaseInv, Witnessed
<1>2. LastMinute(m)' \subseteq LastMinute(m)
  BY <1>1 DEF LastMinute
<1>3. IsFiniteSet(LastMinute(m))
  BY LastMinuteFinite, FS_Subset
<1>4. Cardinality(LastMinute(m)') <= Cardinality(LastMinute(m))
      /\ Cardinality(LastMinute(m)) \in Nat /\ Cardinality(LastMinute(m)') \in Nat
  BY <1>2, <1>3, FS_Subset, FS_CardinalityType
<1>5. snapshot[m].listed \in Nat
  BY DEF BaseInv, TypeInv
<1>6. QED
  BY <1>4, <1>5

\* What a step that leaves the list alone, or prunes what is old, keeps.
LEMMA EntriesKept ==
    ASSUME BaseInv, BaseInv', Kept, now' \in {now, now + 1},
           \A r \in Recorders : instant'[r] = instant[r] \/ instant'[r] <= now',
           \A r \in Recorders : pc'[r] = "done" =>
               \/ /\ pc[r] = "done" /\ instant'[r] = instant[r]
                  /\ [by |-> r, at |-> instant[r]] \in list =>
                         \/ [by |-> r, at |-> instant[r]] \in list'
                         \/ instant[r] <= now - Minute
                         \/ \E z \in Resetters : pc'[z] = "done" /\ r \in before'[z] \union met'[z]
               \/ [by |-> r, at |-> instant'[r]] \in list'
               \/ instant'[r] <= now' - Minute,
           \A z \in Resetters : pc[z] = "done" => pc'[z] = "done" /\ Seen(z) \subseteq before'[z] \union met'[z]
    PROVE  Kept'
<1>1. /\ now \in Nat /\ now' \in Nat /\ Minute \in Nat
      /\ \A r \in Recorders : instant[r] \in Nat /\ instant'[r] \in Nat
  BY TimeAssumption DEF BaseInv, TypeInv
<1>2. \A r \in Recorders : instant'[r] <= now'
  BY <1>1 DEF Kept
<1>3. ASSUME NEW r \in Recorders, pc'[r] = "done"
      PROVE  \/ [by |-> r, at |-> instant'[r]] \in list'
             \/ instant'[r] <= now' - Minute
             \/ \E z \in Resetters : pc'[z] = "done" /\ r \in before'[z] \union met'[z]
  <2>1. CASE /\ pc[r] = "done" /\ instant'[r] = instant[r]
             /\ [by |-> r, at |-> instant[r]] \in list =>
                         \/ [by |-> r, at |-> instant[r]] \in list'
                         \/ instant[r] <= now - Minute
                         \/ \E z \in Resetters : pc'[z] = "done" /\ r \in before'[z] \union met'[z]
    <3>1. instant[r] <= now - Minute => instant[r] <= now' - Minute
      BY <1>1
    <3>2. \/ [by |-> r, at |-> instant[r]] \in list
          \/ instant[r] <= now - Minute
          \/ \E z \in Resetters : pc[z] = "done" /\ r \in Seen(z)
      BY <2>1 DEF Kept
    <3>3. QED
      BY <2>1, <3>1, <3>2
  <2>2. QED
    BY <1>3, <2>1
<1>4. QED
  BY <1>2, <1>3 DEF Kept, Seen

\* The list is counted: no entry a snapshot must count is missing.
LEMMA CountComplete ==
    ASSUME BaseInv, Kept, NEW m \in Readers, pc[m] = "list"
    PROVE  Cardinality({r \in MustCount(m) : instant[r] > now - Minute}) <= Cardinality(list)
<1> DEFINE R == {r \in MustCount(m) : instant[r] > now - Minute}
           entry == [r \in R |-> [by |-> r, at |-> instant[r]]]
<1>1. m \in Calls /\ m \in Observers /\ Begun \ {m} \subseteq Seen(m)
  BY Roles DEF BaseInv, Witnessed, Running
<1>2. ASSUME NEW r \in R PROVE [by |-> r, at |-> instant[r]] \in list
  <2>1. r \in Recorders /\ r \in before[m] /\ instant[r] > now - Minute
    BY DEF MustCount
  <2>2. pc[r] = "done"
    BY <1>1, <2>1 DEF BaseInv, Witnessed
  <2>3. ASSUME NEW z \in Resetters, pc[z] = "done" PROVE r \notin Seen(z)
    <3>1. z \in Seen(m)
      BY <1>1, <2>3, Roles DEF Begun
    <3>2. QED
      BY <3>1 DEF MustCount, Seen
  <2>4. ~(instant[r] <= now - Minute)
    <3>1. instant[r] \in Nat /\ now \in Nat /\ Minute \in Nat
      BY <2>1, TimeAssumption DEF BaseInv, TypeInv
    <3>2. QED
      BY <2>1, <3>1
  <2>5. QED
    BY <2>1, <2>2, <2>3, <2>4 DEF Kept
<1>3. entry \in Injection(R, list)
  BY <1>2 DEF Injection, IsInjective
<1>4. QED
  BY <1>3, FS_Injection DEF BaseInv, Finite

\* The parts of the state the list depends on, for the steps that do not.
LEMMA ListQuiet ==
    ASSUME BaseInv, BaseInv', ListInv, now' \in {now, now + 1},
           UNCHANGED <<list, instant>>,
           \A c \in Calls : pc'[c] = "done" <=> pc[c] = "done",
           \A m \in Readers : pc[m] = "done" => snapshot'[m] = snapshot[m] /\ MustCount(m)' \subseteq MustCount(m),
           \A z \in Resetters : pc[z] = "done" => Seen(z) \subseteq before'[z] \union met'[z]
    PROVE  ListInv'
<1>1. Kept'
  BY Roles, EntriesKept DEF ListInv
<1>2. ASSUME NEW m \in Readers, pc'[m] = "done"
      PROVE  (Cardinality(LastMinute(m)) <= snapshot[m].listed)'
  <2>1. pc[m] = "done"
    BY <1>2, Roles
  <2>2. QED
    BY <2>1, ListedKept DEF ListInv, Listed
<1>3. QED
  BY <1>1, <1>2 DEF ListInv, Listed

\* A call that begins makes nobody count more.
LEMMA BeginMustCount ==
    ASSUME BaseInv, NEW c \in Calls, NEW fields, Begin(c, fields)
    PROVE  /\ \A m \in Readers \ {c} : MustCount(m)' \subseteq MustCount(m)
           /\ \A z \in Resetters \ {c} : Seen(z) \subseteq before'[z] \union met'[z]
<1>1. \A o \in Observers \ {c} : before'[o] = before[o] /\ met[o] \subseteq met'[o]
  BY DEF Begin
<1>2. pc[c] = "idle"
  BY DEF Begin
<1>3. \A o \in Observers : c \notin Seen(o)
  BY <1>2 DEF BaseInv, Witnessed, Begun
<1>4. ASSUME NEW m \in Readers \ {c}, NEW r \in MustCount(m)' PROVE r \in MustCount(m)
  <2>1. before'[m] = before[m] /\ met[m] \subseteq met'[m]
    BY <1>1, Roles
  <2>2. \A z \in Resetters \intersect Seen(m) : before'[z] = before[z] /\ met[z] \subseteq met'[z]
    BY <1>1, <1>3, Roles
  <2>3. QED
    BY <2>1, <2>2 DEF MustCount, Seen
<1>5. QED
  BY <1>1, <1>4, Roles DEF Seen

MetricsInv == SumInv /\ ListInv

LEMMA BeginStep ==
    ASSUME MetricsInv, NEW c \in Calls, NEW fields \in SUBSET Counters, Begin(c, fields),
           SumInv'
    PROVE  MetricsInv'
<1>1. /\ pc[c] = "idle" /\ pc'[c] \in {"list", "atomics"}
      /\ \A d \in Calls \ {c} : pc'[d] = pc[d]
      /\ UNCHANGED <<list, instant, snapshot, now>>
  BY DEF Begin, Goto, MetricsInv, SumInv, BaseInv, TypeInv
<1>2. /\ \A m \in Readers \ {c} : MustCount(m)' \subseteq MustCount(m)
      /\ \A z \in Resetters \ {c} : Seen(z) \subseteq before'[z] \union met'[z]
  BY BeginMustCount DEF MetricsInv, SumInv
<1>3. ListInv'
  BY <1>1, <1>2, ListQuiet DEF MetricsInv, SumInv
<1>4. QED
  BY <1>3 DEF MetricsInv

\* Neither do the operations on the counters concern the list.
LEMMA TouchStep ==
    ASSUME MetricsInv, NEW c \in Calls, NEW f \in Counters, Touch(c, f), SumInv',
           instant' = instant, \A m \in Readers \ {c} : snapshot'[m] = snapshot[m]
    PROVE  MetricsInv'
<1>1. /\ f \in todo[c] /\ UNCHANGED <<list, before, met, now>>
      /\ \A d \in Calls \ {c} : pc'[d] = pc[d]
      /\ pc'[c] \in {"list", "atomics"}
  BY DEF Touch, Goto, history, MetricsInv, SumInv, BaseInv, TypeInv
<1>2. pc[c] = "atomics"
  BY <1>1 DEF MetricsInv, SumInv, BaseInv, Busy
<1>3. \A m \in Readers : MustCount(m)' = MustCount(m)
  BY <1>1 DEF MustCount
<1>4. ListInv'
  BY <1>1, <1>2, <1>3, ListQuiet DEF MetricsInv, SumInv, Seen
<1>5. QED
  BY <1>4 DEF MetricsInv

LEMMA BeginRecordStep ==
    ASSUME MetricsInv, NEW r \in Recorders, BeginRecord(r)
    PROVE  MetricsInv'
<1>1. PICK status \in Statuses, ms \in Times :
        /\ request' = [request EXCEPT ![r] = [status |-> status, ms |-> ms]]
        /\ Begin(r, Counters \intersect {"total", "sum_ms", Bucket(status)})
  BY DEF BeginRecord
<1>2. /\ request' \in [Recorders -> [status : Nat, ms : Nat]]
      /\ request'[r] = [status |-> status, ms |-> ms]
      /\ \A q \in Recorders \ {r} : request'[q] = request[q]
  BY <1>1, ValuesAssumption DEF MetricsInv, SumInv, BaseInv, TypeInv
<1>3. \A f \in Counters \ (Counters \intersect {"total", "sum_ms", Bucket(status)}) :
          Added(request'[r], f) = 0
  BY <1>2 DEF Added
<1>4. SumInv'
  BY <1>1, <1>2, <1>3, Roles, SumsBegin DEF MetricsInv
<1>5. QED
  BY <1>1, <1>4, Roles, BeginStep

LEMMA BeginObserverStep ==
    ASSUME MetricsInv, NEW c \in Observers, BeginRead(c) \/ BeginReset(c)
    PROVE  MetricsInv'
<1>1. Begin(c, Counters) /\ request' = request /\ c \in Calls /\ c \notin Recorders
  BY Roles DEF BeginRead, BeginReset, Cleared
<1>2. request \in [Recorders -> [status : Nat, ms : Nat]]
  BY DEF MetricsInv, SumInv, BaseInv, TypeInv
<1>3. SumInv'
  BY <1>1, <1>2, SumsBegin DEF MetricsInv
<1>4. QED
  BY <1>1, <1>3, BeginStep

LEMMA ReadClockStep ==
    ASSUME MetricsInv, NEW r \in Recorders, ReadClock(r)
    PROVE  MetricsInv'
<1>0. BaseInv /\ r \in Calls /\ r \notin Observers /\ Kept /\ Listed
  BY Roles DEF MetricsInv, SumInv, ListInv
<1>1. /\ pc[r] = "list" /\ Goto(r, "push")
      /\ instant' = [instant EXCEPT ![r] = now]
      /\ UNCHANGED <<counter, list, todo, request, snapshot, before, met, now>>
  BY DEF ReadClock, history
<1>2. BaseInv' /\ Begun' = Begun
  <2>1. /\ instant' \in [Recorders -> Nat] /\ IsFiniteSet(list')
        /\ list' \subseteq [by : Recorders, at : Nat]
        /\ snapshot' \in [Readers -> [Counters \union {"listed", "at"} -> Nat]]
    BY <1>0, <1>1 DEF BaseInv, TypeInv, Finite
  <2>2. QED
    BY <1>0, <1>1, <2>1, BaseAfter
<1>3. SumInv'
  BY <1>1, <1>2, SumsIdle DEF MetricsInv
<1>4. /\ pc'[r] = "push" /\ \A d \in Calls \ {r} : pc'[d] = pc[d]
      /\ instant'[r] = now /\ \A q \in Recorders \ {r} : instant'[q] = instant[q]
      /\ now \in Nat
  BY <1>0, <1>1 DEF Goto, BaseInv, TypeInv
<1>5. Kept'
  BY <1>0, <1>1, <1>2, <1>4, Roles, EntriesKept DEF Seen
<1>6. ASSUME NEW m \in Readers, pc'[m] = "done"
      PROVE  (Cardinality(LastMinute(m)) <= snapshot[m].listed)'
  <2>1. pc[m] = "done" /\ MustCount(m)' = MustCount(m)
    BY <1>0, <1>1, <1>4, <1>6, Roles DEF MustCount
  <2>2. QED
    BY <1>0, <1>1, <1>2, <1>4, <2>1, ListedKept DEF Listed
<1>7. QED
  BY <1>3, <1>5, <1>6 DEF MetricsInv, ListInv, Listed

LEMMA PushStep ==
    ASSUME MetricsInv, NEW r \in Recorders, Push(r)
    PROVE  MetricsInv'
<1>0. BaseInv /\ r \in Calls /\ r \notin Observers /\ Kept /\ Listed
  BY Roles DEF MetricsInv, SumInv, ListInv
<1>1. /\ pc[r] = "push" /\ Goto(r, "done")
      /\ list' = {e \in list \union {[by |-> r, at |-> instant[r]]} : e.at > instant[r] - Minute}
      /\ UNCHANGED <<counter, todo, request, instant, snapshot, before, met, now>>
  BY DEF Push, Recent, history
<1>2. BaseInv' /\ Begun' = Begun
  <2>1. IsFiniteSet(list \union {[by |-> r, at |-> instant[r]]})
    BY <1>0, FS_AddElement DEF BaseInv, Finite
  <2>2. IsFiniteSet(list')
    BY <1>1, <2>1, FS_Subset
  <2>3. /\ instant' \in [Recorders -> Nat]
        /\ snapshot' \in [Readers -> [Counters \union {"listed", "at"} -> Nat]]
    BY <1>0, <1>1 DEF BaseInv, TypeInv
  <2>4. list' \subseteq [by : Recorders, at : Nat]
    <3>1. instant[r] \in Nat /\ list \subseteq [by : Recorders, at : Nat]
      BY <1>0 DEF BaseInv, TypeInv
    <3>2. [by |-> r, at |-> instant[r]] \in [by : Recorders, at : Nat]
      BY <3>1
    <3>3. list' \subseteq list \union {[by |-> r, at |-> instant[r]]}
      BY <1>1
    <3>4. QED
      BY <3>1, <3>2, <3>3
  <2>5. QED
    BY <1>0, <1>1, <2>2, <2>3, <2>4, BaseAfter
<1>3. SumInv'
  BY <1>1, <1>2, SumsIdle DEF MetricsInv
<1>4. pc'[r] = "done" /\ \A d \in Calls \ {r} : pc'[d] = pc[d]
  BY <1>0, <1>1 DEF Goto, BaseInv, TypeInv
<1>5. /\ now \in Nat /\ Minute \in Nat
      /\ \A q \in Recorders : instant[q] \in Nat /\ instant[q] <= now
  BY <1>0, TimeAssumption DEF BaseInv, TypeInv, Kept
<1>6. ASSUME NEW q \in Recorders,
             q = r \/ [by |-> q, at |-> instant[q]] \in list
      PROVE  [by |-> q, at |-> instant[q]] \in list' \/ instant[q] <= now - Minute
  <2>1. CASE instant[q] > instant[r] - Minute
    BY <1>1, <1>6, <2>1
  <2>2. CASE ~(instant[q] > instant[r] - Minute)
    BY <1>5, <2>2
  <2>3. QED
    BY <2>1, <2>2
<1>7. Kept'
  <2>1. \A q \in Recorders : pc'[q] = "done" =>
               \/ /\ pc[q] = "done" /\ instant'[q] = instant[q]
                  /\ [by |-> q, at |-> instant[q]] \in list =>
                         \/ [by |-> q, at |-> instant[q]] \in list'
                         \/ instant[q] <= now - Minute
                         \/ \E z \in Resetters : pc'[z] = "done" /\ q \in before'[z] \union met'[z]
               \/ [by |-> q, at |-> instant'[q]] \in list'
               \/ instant'[q] <= now' - Minute
    BY <1>1, <1>4, <1>6, Roles
  <2>2. \A z \in Resetters : pc[z] = "done" => pc'[z] = "done" /\ Seen(z) \subseteq before'[z] \union met'[z]
    BY <1>0, <1>1, <1>4, Roles DEF Seen
  <2>3. QED
    BY <1>0, <1>1, <1>2, <2>1, <2>2, EntriesKept
<1>8. ASSUME NEW m \in Readers, pc'[m] = "done"
      PROVE  (Cardinality(LastMinute(m)) <= snapshot[m].listed)'
  <2>1. pc[m] = "done" /\ MustCount(m)' = MustCount(m)
    BY <1>0, <1>1, <1>4, <1>8, Roles DEF MustCount
  <2>2. QED
    BY <1>0, <1>1, <1>2, <2>1, ListedKept DEF Listed
<1>9. QED
  BY <1>3, <1>7, <1>8 DEF MetricsInv, ListInv, Listed

LEMMA CountListStep ==
    ASSUME MetricsInv, NEW m \in Readers, CountList(m)
    PROVE  MetricsInv'
<1>0. BaseInv /\ m \in Calls /\ Kept /\ Listed
  BY Roles DEF MetricsInv, SumInv, ListInv
<1>1. /\ pc[m] = "list" /\ Goto(m, "done")
      /\ snapshot' = [snapshot EXCEPT ![m].listed = Cardinality(list), ![m].at = now]
      /\ UNCHANGED <<counter, list, todo, request, instant, before, met, now>>
  BY DEF CountList, history
<1>2. /\ Cardinality(list) \in Nat /\ now \in Nat
      /\ snapshot \in [Readers -> [Counters \union {"listed", "at"} -> Nat]]
      /\ "listed" \notin Counters /\ "at" \notin Counters
  BY <1>0, FS_CardinalityType, CountersAssumption DEF BaseInv, TypeInv, Finite
<1>3. /\ snapshot' \in [Readers -> [Counters \union {"listed", "at"} -> Nat]]
      /\ snapshot'[m].listed = Cardinality(list) /\ snapshot'[m].at = now
      /\ \A o \in Readers \ {m} : snapshot'[o] = snapshot[o]
      /\ \A o \in Readers, f \in Counters : snapshot'[o][f] = snapshot[o][f]
  BY <1>1, <1>2
<1>4. BaseInv' /\ Begun' = Begun
  <2>1. /\ instant' \in [Recorders -> Nat] /\ IsFiniteSet(list')
        /\ list' \subseteq [by : Recorders, at : Nat]
    BY <1>0, <1>1 DEF BaseInv, TypeInv, Finite
  <2>2. QED
    BY <1>0, <1>1, <1>3, <2>1, BaseAfter
<1>5. SumInv'
  BY <1>1, <1>3, <1>4, SumsIdle DEF MetricsInv
<1>6. pc'[m] = "done" /\ \A d \in Calls \ {m} : pc'[d] = pc[d]
  BY <1>0, <1>1 DEF Goto, BaseInv, TypeInv
<1>7. Kept'
  BY <1>0, <1>1, <1>4, <1>6, Roles, EntriesKept DEF Seen
<1>8. ASSUME NEW o \in Readers, pc'[o] = "done"
      PROVE  (Cardinality(LastMinute(o)) <= snapshot[o].listed)'
  <2>1. CASE o = m
    <3>1. MustCount(m)' = MustCount(m)
      BY <1>1 DEF MustCount
    <3>2. LastMinute(m)' = {r \in MustCount(m) : instant[r] > now - Minute}
      BY <1>1, <1>3, <3>1 DEF LastMinute
    <3>3. QED
      BY <1>0, <1>1, <1>3, <2>1, <3>2, CountComplete
  <2>2. CASE o # m
    <3>1. pc[o] = "done" /\ MustCount(o)' = MustCount(o)
      BY <1>1, <1>6, <1>8, <2>2, Roles DEF MustCount
    <3>2. QED
      BY <1>0, <1>1, <1>3, <1>4, <2>2, <3>1, ListedKept DEF Listed
  <2>3. QED
    BY <2>1, <2>2
<1>9. QED
  BY <1>5, <1>7, <1>8 DEF MetricsInv, ListInv, Listed

LEMMA ClearListStep ==
    ASSUME MetricsInv, NEW c \in Resetters, ClearList(c)
    PROVE  MetricsInv'
<1>0. BaseInv /\ c \in Calls /\ c \in Observers /\ Kept /\ Listed
  BY Roles DEF MetricsInv, SumInv, ListInv
<1>1. /\ pc[c] = "list" /\ Goto(c, "done")
      /\ list' = {}
      /\ UNCHANGED <<counter, todo, request, instant, snapshot, before, met, now>>
  BY DEF ClearList, history
<1>2. BaseInv' /\ Begun' = Begun
  <2>1. /\ instant' \in [Recorders -> Nat] /\ IsFiniteSet(list')
        /\ list' \subseteq [by : Recorders, at : Nat]
        /\ snapshot' \in [Readers -> [Counters \union {"listed", "at"} -> Nat]]
    BY <1>0, <1>1, FS_EmptySet DEF BaseInv, TypeInv
  <2>2. QED
    BY <1>0, <1>1, <2>1, BaseAfter
<1>3. SumInv'
  BY <1>1, <1>2, SumsIdle DEF MetricsInv
<1>4. pc'[c] = "done" /\ \A d \in Calls \ {c} : pc'[d] = pc[d]
  BY <1>0, <1>1 DEF Goto, BaseInv, TypeInv
\* The reset has seen every request whose entry it drops.
<1>5. ASSUME NEW r \in Recorders, pc[r] = "done" PROVE r \in before'[c] \union met'[c]
  <2>1. r \in Begun \ {c}
    BY <1>5, Roles DEF Begun
  <2>2. c \in Running
    BY <1>0, <1>1 DEF Running
  <2>3. QED
    BY <1>0, <1>1, <2>1, <2>2 DEF BaseInv, Witnessed, Seen
<1>6. Kept'
  BY <1>0, <1>1, <1>2, <1>4, <1>5, Roles, EntriesKept DEF Seen
<1>7. ASSUME NEW m \in Readers, pc'[m] = "done"
      PROVE  (Cardinality(LastMinute(m)) <= snapshot[m].listed)'
  <2>1. pc[m] = "done" /\ MustCount(m)' = MustCount(m)
    BY <1>0, <1>1, <1>4, <1>7, Roles DEF MustCount
  <2>2. QED
    BY <1>0, <1>1, <1>2, <2>1, ListedKept DEF Listed
<1>8. QED
  BY <1>3, <1>6, <1>7 DEF MetricsInv, ListInv, Listed

\* Nothing happens, or time passes.
LEMMA TickStep ==
    ASSUME MetricsInv, now' \in {now, now + 1},
           UNCHANGED <<counter, list, pc, todo, request, instant, snapshot, before, met>>
    PROVE  MetricsInv'
<1>1. BaseInv' /\ Begun' = Begun
  <2>1. TypeInv'
    <3>1. TypeInv
      BY DEF MetricsInv, SumInv, BaseInv
    <3>2. now' \in Nat
      BY <3>1 DEF TypeInv
    <3>3. QED
      BY <3>1, <3>2 DEF TypeInv
  <2>2. Begun' = Begun
    BY DEF Begun
  <2>3. Finite' /\ Busy' /\ Witnessed'
    BY <2>2 DEF MetricsInv, SumInv, BaseInv, Finite, Busy, Witnessed, Seen, Running
  <2>4. QED
    BY <2>1, <2>2, <2>3 DEF BaseInv
<1>2. SumInv'
  BY <1>1, SumsIdle DEF MetricsInv
<1>3. \A m \in Readers : MustCount(m)' = MustCount(m)
  BY DEF MustCount
<1>4. ListInv'
  BY <1>1, <1>3, ListQuiet DEF MetricsInv, SumInv, Seen
<1>5. QED
  BY <1>2, <1>4 DEF MetricsInv

LEMMA MetricsStep == MetricsInv /\ [Next]_vars => MetricsInv'
<1> SUFFICES ASSUME MetricsInv, [Next]_vars PROVE MetricsInv'
  OBVIOUS
<1>1. ASSUME NEW r \in Recorders, BeginRecord(r) PROVE MetricsInv'
  BY <1>1, BeginRecordStep
<1>2. ASSUME NEW r \in Recorders, ReadClock(r) PROVE MetricsInv'
  BY <1>2, ReadClockStep
<1>3. ASSUME NEW r \in Recorders, Push(r) PROVE MetricsInv'
  BY <1>3, PushStep
<1>4. ASSUME NEW r \in Recorders, NEW f \in Counters, FetchAdd(r, f) PROVE MetricsInv'
  <2>1. SumInv'
    BY <1>4, SumsFetchAdd DEF MetricsInv
  <2>2. QED
    BY <1>4, <2>1, Roles, TouchStep DEF FetchAdd
<1>5. ASSUME NEW m \in Readers, NEW f \in Counters, Load(m, f) PROVE MetricsInv'
  <2>1. SumInv'
    BY <1>5, SumsLoad DEF MetricsInv
  <2>2. \A o \in Readers \ {m} : snapshot'[o] = snapshot[o]
    BY <1>5 DEF Load, MetricsInv, SumInv, BaseInv, TypeInv
  <2>3. QED
    BY <1>5, <2>1, <2>2, Roles, TouchStep DEF Load
<1>6. ASSUME NEW z \in Resetters, NEW f \in Counters, StoreZero(z, f) PROVE MetricsInv'
  <2>1. SumInv'
    BY <1>6, SumsStoreZero DEF MetricsInv
  <2>2. QED
    BY <1>6, <2>1, Roles, TouchStep DEF StoreZero
<1>7. ASSUME NEW c \in Observers, BeginRead(c) \/ BeginReset(c) PROVE MetricsInv'
  BY <1>7, BeginObserverStep
<1>8. ASSUME NEW m \in Readers, CountList(m) PROVE MetricsInv'
  BY <1>8, CountListStep
<1>9. ASSUME NEW z \in Resetters, ClearList(z) PROVE MetricsInv'
  BY <1>9, ClearListStep
<1>10. CASE Tick \/ UNCHANGED vars
  BY <1>10, TickStep DEF Tick, vars, history
<1>11. QED
  BY <1>1, <1>2, <1>3, <1>4, <1>5, <1>6, <1>7, <1>8, <1>9, <1>10, Roles DEF Next

LEMMA MetricsInit == Init => MetricsInv
<1> SUFFICES ASSUME Init PROVE MetricsInv
  OBVIOUS
<1>1. BaseInv
  BY BaseInit
<1>2. \A c \in Calls : pc[c] = "idle"
  BY DEF Init
<1>3. \A f \in Counters : Held(f) = {} /\ Holdable(f) = {} /\ counter[f] = 0
  BY <1>2, Roles DEF Init, Held, Holdable, Touched
<1>4. \A f \in Counters : Between(counter[f], Held(f), Holdable(f), f)
  BY <1>3, SizeEmpty DEF Between
<1>5. Counted /\ Explained
  BY <1>2, <1>4, Roles DEF Counted, Explained, Touched
<1>6. Kept /\ Listed
  BY <1>2, Roles DEF Init, Kept, Listed
<1>7. QED
  BY <1>1, <1>5, <1>6 DEF MetricsInv, SumInv, ListInv

LEMMA MetricsHolds == Spec => []MetricsInv
<1>1. QED
  BY MetricsInit, MetricsStep, PTL DEF Spec

\* However many requests are recorded while snapshots are taken and resets
\* run, in any order of their operations on the atomics: every number of a
\* finished snapshot lies between what the requests that certainly precede it
\* add up to and what those that possibly do.
THEOREM SnapshotExplainedCorrect == Spec => []SnapshotExplained
<1>1. MetricsInv => SnapshotExplained
  <2> SUFFICES ASSUME MetricsInv, NEW m \in Readers, pc[m] = "done", NEW f \in Counters
               PROVE  /\ TotalOf(MustCount(m), f) <= snapshot[m][f]
                      /\ snapshot[m][f] <= TotalOf(MayCount(m), f)
    BY DEF SnapshotExplained
  <2>1. BaseInv /\ TypeInv
    BY DEF MetricsInv, SumInv, BaseInv
  <2>2. Touched(m, f)
    <3>1. m \in Calls /\ pc[m] # "atomics" /\ pc[m] # "idle"
      BY Roles
    <3>2. todo[m] = {}
      BY <2>1, <3>1 DEF BaseInv, Busy
    <3>3. QED
      BY <3>1, <3>2 DEF Touched
  <2>3. Between(snapshot[m][f], MustCount(m), MayCount(m), f)
    BY <2>2 DEF MetricsInv, SumInv, Explained
  <2>4. /\ MustCount(m) \in SUBSET Recorders /\ IsFiniteSet(MustCount(m))
        /\ MayCount(m) \in SUBSET Recorders /\ IsFiniteSet(MayCount(m))
    BY <2>1, Summable
  <2>5. /\ TotalOf(MustCount(m), f) = Size(request, MustCount(m), f)
        /\ TotalOf(MayCount(m), f) = Size(request, MayCount(m), f)
    BY <2>1, <2>4, TotalIsSize
  <2>6. QED
    BY <2>3, <2>5 DEF Between
<1>2. QED
  BY <1>1, MetricsHolds, PTL

\* However many requests prune the list, with clocks they read before they had
\* the lock: a finished snapshot has counted every request of its last minute
\* that certainly precedes it.
THEOREM LastMinuteCompleteCorrect == Spec => []LastMinuteComplete
<1>1. MetricsInv => LastMinuteComplete
  BY DEF MetricsInv, ListInv, Listed, LastMinute, LastMinuteComplete
<1>2. QED
  BY <1>1, MetricsHolds, PTL

=============================================================================
