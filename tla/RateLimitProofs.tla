--------------------------- MODULE RateLimitProofs ---------------------------
(***************************************************************************)
(* The sliding window of RateLimit is kept for every limit, every window   *)
(* and any number of clients.  WindowBound alone is not inductive: that    *)
(* the vector was pruned proves nothing about the requests it forgot.      *)
(***************************************************************************)
EXTENDS RateLimit, TLAPS, FiniteSetTheorems, SequenceTheorems

\* The log of a client is in the order of the clock and not ahead of it.
Ordered(c) ==
    /\ \A i \in DOMAIN log[c] : log[c][i] <= now
    /\ \A i, j \in DOMAIN log[c] : i <= j => log[c][i] <= log[c][j]

\* Whatever the vector no longer holds is out of the window for good.
Forgotten(c) == \A i \in DOMAIN log[c] : i \notin kept[c] => log[c][i] <= now - Window

Bound(c) ==
    \A i \in DOMAIN log[c] :
        i + MaxRequests \in DOMAIN log[c] => log[c][i + MaxRequests] - log[c][i] >= Window

Inv == TypeOK /\ \A c \in Clients : Ordered(c) /\ Forgotten(c) /\ Bound(c)

LEMMA LogFinite ==
  ASSUME TypeOK, NEW c \in Clients
  PROVE  /\ log[c] \in Seq(Nat)
         /\ Len(log[c]) \in Nat
         /\ DOMAIN log[c] = 1..Len(log[c])
         /\ IsFiniteSet(DOMAIN log[c])
         /\ kept[c] \subseteq DOMAIN log[c]
         /\ \A i \in DOMAIN log[c] : log[c][i] \in Nat
  <1>1. log[c] \in Seq(Nat)
    BY DEF TypeOK
  <1>2. Len(log[c]) \in Nat /\ DOMAIN log[c] = 1..Len(log[c])
    BY <1>1, LenProperties
  <1>3. IsFiniteSet(DOMAIN log[c])
    BY <1>2, FS_Interval
  <1> QED  BY <1>1, <1>2, <1>3 DEF TypeOK

\* The requests of the last window that the log shows are all in the pruned
\* vector, so their number is what check_and_record compares with the limit.
LEMMA SuffixRetained ==
  ASSUME Inv, NEW c \in Clients, NEW i \in DOMAIN log[c], log[c][i] > now - Window
  PROVE  Cardinality(Retained(c)) >= Len(log[c]) - i + 1
  <1>1. i..Len(log[c]) \subseteq Retained(c)
    <2> SUFFICES ASSUME NEW k \in i..Len(log[c]) PROVE k \in Retained(c)
      OBVIOUS
    <2>1. k \in DOMAIN log[c] /\ i <= k
      BY LogFinite DEF Inv
    <2>2. log[c][k] \in Nat /\ log[c][i] \in Nat /\ now \in Nat /\ log[c][i] <= log[c][k]
      BY <2>1, LogFinite DEF Inv, Ordered, TypeOK
    <2>3. log[c][k] > now - Window
      BY <2>2, WindowAssumption
    <2>4. k \in kept[c]
      BY <2>1, <2>2, <2>3, WindowAssumption DEF Inv, Forgotten
    <2> QED  BY <2>3, <2>4 DEF Retained, Recent
  <1>2. IsFiniteSet(Retained(c))
    <2>1. Retained(c) \subseteq DOMAIN log[c]
      BY LogFinite DEF Inv, Retained
    <2> QED  BY <2>1, LogFinite, FS_Subset DEF Inv
  <1>3. Cardinality(i..Len(log[c])) = Len(log[c]) - i + 1
    <2>1. i \in Int /\ Len(log[c]) \in Int /\ i <= Len(log[c])
      BY LogFinite DEF Inv
    <2> QED  BY <2>1, FS_Interval
  <1>4. Cardinality(i..Len(log[c])) <= Cardinality(Retained(c))
    BY <1>1, <1>2, FS_Subset
  <1>5. Cardinality(Retained(c)) \in Nat /\ i \in Nat /\ Len(log[c]) \in Nat
    BY <1>2, LogFinite, FS_CardinalityType DEF Inv
  <1> QED  BY <1>3, <1>4, <1>5

-----------------------------------------------------------------------------
LEMMA InitInv == Init => Inv
  <1> SUFFICES ASSUME Init PROVE Inv
    OBVIOUS
  <1>1. \A c \in Clients : log[c] = <<>> /\ kept[c] = {} /\ DOMAIN log[c] = {}
    BY DEF Init
  <1>2. TypeOK
    BY <1>1 DEF Init, TypeOK
  <1> QED  BY <1>1, <1>2 DEF Inv, Ordered, Forgotten, Bound

LEMMA TickInv == ASSUME Inv, Tick PROVE Inv'
  <1>1. now' = now + 1 /\ log' = log /\ kept' = kept /\ deniedAt' = deniedAt
    BY DEF Tick
  <1>2. now \in Nat
    BY DEF Inv, TypeOK
  <1>3. TypeOK'
    BY <1>1, <1>2 DEF Inv, TypeOK
  <1>4. ASSUME NEW c \in Clients PROVE Ordered(c)' /\ Forgotten(c)' /\ Bound(c)'
    <2>1. \A i \in DOMAIN log[c] : log[c][i] \in Nat
      BY LogFinite DEF Inv
    <2>2. Ordered(c) /\ Forgotten(c) /\ Bound(c)
      BY DEF Inv
    <2>3. Ordered(c)'
      BY <1>1, <1>2, <2>1, <2>2 DEF Ordered
    <2>4. Forgotten(c)'
      BY <1>1, <1>2, <2>1, <2>2, WindowAssumption DEF Forgotten
    <2>5. Bound(c)'
      BY <1>1, <2>2 DEF Bound
    <2> QED  BY <2>3, <2>4, <2>5
  <1> QED  BY <1>3, <1>4 DEF Inv

\* What pruning drops is out of the window.
LEMMA PrunedForgotten ==
  ASSUME Inv, NEW c \in Clients
  PROVE  \A i \in DOMAIN log[c] : i \notin Retained(c) => log[c][i] <= now - Window
  <1>1. \A i \in DOMAIN log[c] : log[c][i] \in Nat
    BY LogFinite DEF Inv
  <1>2. now \in Nat
    BY DEF Inv, TypeOK
  <1> QED  BY <1>1, <1>2, WindowAssumption DEF Inv, Forgotten, Retained, Recent

LEMMA DenyInv == ASSUME Inv, NEW c \in Clients, Deny(c) PROVE Inv'
  <1>1. log' = log /\ now' = now /\ kept' = [kept EXCEPT ![c] = Retained(c)]
        /\ deniedAt' = [deniedAt EXCEPT ![c] = now]
    BY DEF Deny
  <1>2. Retained(c) \subseteq kept[c]
    BY DEF Retained
  <1>3. TypeOK'
    BY <1>1, <1>2 DEF Inv, TypeOK
  <1>4. ASSUME NEW d \in Clients PROVE Ordered(d)' /\ Forgotten(d)' /\ Bound(d)'
    <2>1. Ordered(d) /\ Forgotten(d) /\ Bound(d)
      BY DEF Inv
    <2>2. Ordered(d)' /\ Bound(d)'
      BY <1>1, <2>1 DEF Ordered, Bound
    <2>3. Forgotten(d)'
      <3>1. kept'[d] = IF d = c THEN Retained(c) ELSE kept[d]
        BY <1>1 DEF Inv, TypeOK
      <3> QED  BY <1>1, <2>1, <3>1, PrunedForgotten DEF Forgotten
    <2> QED  BY <2>2, <2>3
  <1> QED  BY <1>3, <1>4 DEF Inv

LEMMA AdmitInv == ASSUME Inv, NEW c \in Clients, Admit(c) PROVE Inv'
  <1> DEFINE n == Len(log[c])
  <1>1. log' = [log EXCEPT ![c] = Append(@, now)] /\ now' = now
        /\ kept' = [kept EXCEPT ![c] = Retained(c) \union {n + 1}]
        /\ deniedAt' = deniedAt /\ ~Full(Cardinality(Retained(c)))
    BY DEF Admit
  <1>2. /\ log[c] \in Seq(Nat) /\ n \in Nat /\ now \in Nat
        /\ DOMAIN log[c] = 1..n
        /\ \A i \in 1..n : log[c][i] \in Nat
    BY LogFinite DEF Inv, TypeOK
  <1>3. /\ log'[c] = Append(log[c], now)
        /\ kept'[c] = Retained(c) \union {n + 1}
        /\ \A d \in Clients \ {c} : log'[d] = log[d] /\ kept'[d] = kept[d]
    BY <1>1 DEF Inv, TypeOK
  <1>4. /\ log'[c] \in Seq(Nat)
        /\ DOMAIN log'[c] = 1..(n + 1)
        /\ \A i \in 1..n : log'[c][i] = log[c][i]
        /\ log'[c][n + 1] = now
    BY <1>2, <1>3, AppendProperties, LenProperties
  <1>5. Retained(c) \subseteq 1..n
    BY <1>2, LogFinite DEF Inv, Retained
  <1>6. TypeOK'
    <2>1. kept'[c] \subseteq DOMAIN log'[c] /\ kept'[c] \subseteq Nat
      BY <1>2, <1>3, <1>4, <1>5
    <2>2. \A d \in Clients : kept'[d] \subseteq DOMAIN log'[d] /\ kept'[d] \subseteq Nat
      BY <1>3, <2>1 DEF Inv, TypeOK
    <2>3. log' \in [Clients -> Seq(Nat)]
      BY <1>1, <1>2, AppendProperties DEF Inv, TypeOK
    <2>4. kept' \in [Clients -> SUBSET Nat]
      BY <1>1, <2>1, <2>2 DEF Inv, TypeOK
    <2> QED  BY <1>1, <2>2, <2>3, <2>4 DEF Inv, TypeOK
  <1>7. Ordered(c)'
    <2>1. \A i \in 1..n : log'[c][i] \in Nat /\ log'[c][i] <= now
      BY <1>2, <1>4 DEF Inv, Ordered
    <2>2. \A i \in 1..(n + 1) : log'[c][i] <= now
      BY <1>2, <1>4, <2>1
    <2>3. \A i, j \in 1..(n + 1) : i <= j => log'[c][i] <= log'[c][j]
      <3> SUFFICES ASSUME NEW i \in 1..(n + 1), NEW j \in 1..(n + 1), i <= j
                   PROVE  log'[c][i] <= log'[c][j]
        OBVIOUS
      <3>1. CASE j = n + 1
        BY <1>4, <2>2, <3>1
      <3>2. CASE j # n + 1
        <4>1. i \in 1..n /\ j \in 1..n
          BY <1>2, <3>2
        <4> QED  BY <1>2, <1>4, <4>1 DEF Inv, Ordered
      <3> QED  BY <3>1, <3>2
    <2> QED  BY <1>1, <1>4, <2>2, <2>3 DEF Ordered
  <1>8. Forgotten(c)'
    <2>1. \A i \in 1..(n + 1) : i \notin kept'[c] => i \in 1..n /\ i \notin Retained(c)
      BY <1>2, <1>3
    <2>2. \A i \in 1..(n + 1) : i \notin kept'[c] => log'[c][i] <= now - Window
      BY <1>2, <1>4, <2>1, PrunedForgotten
    <2> QED  BY <1>1, <1>4, <2>2 DEF Forgotten
  <1>9. Bound(c)'
    <2>1. Cardinality(Retained(c)) \in Nat /\ Cardinality(Retained(c)) < MaxRequests
      <3>1. IsFiniteSet(Retained(c))
        <4>1. IsFiniteSet(1..n)
          BY <1>2, FS_Interval
        <4> QED  BY <1>5, <4>1, FS_Subset
      <3> QED  BY <1>1, <3>1, FS_CardinalityType, LimitAssumption DEF Full
    <2> SUFFICES ASSUME NEW i \in 1..(n + 1), i + MaxRequests \in 1..(n + 1)
                 PROVE  log'[c][i + MaxRequests] - log'[c][i] >= Window
      BY <1>4 DEF Bound
    <2>2. i \in 1..n
      BY <1>2, <2>1, LimitAssumption
    <2>3. CASE i + MaxRequests = n + 1
      <3>1. ~(log[c][i] > now - Window)
        <4> SUFFICES ASSUME log[c][i] > now - Window PROVE FALSE
          OBVIOUS
        <4>1. Cardinality(Retained(c)) >= n - i + 1
          BY <1>2, <2>2, SuffixRetained
        <4> QED  BY <1>2, <2>1, <2>2, <2>3, <4>1, LimitAssumption
      <3>2. log[c][i] <= now - Window
        BY <1>2, <2>2, <3>1, WindowAssumption
      <3>3. log'[c][i + MaxRequests] = now /\ log'[c][i] = log[c][i]
        BY <1>4, <2>2, <2>3
      <3> QED  BY <1>2, <2>2, <3>2, <3>3, WindowAssumption
    <2>4. CASE i + MaxRequests # n + 1
      <3>1. i + MaxRequests \in 1..n
        BY <1>2, <2>4, LimitAssumption
      <3> QED  BY <1>2, <1>4, <2>2, <3>1 DEF Inv, Bound
    <2> QED  BY <2>3, <2>4
  <1>10. ASSUME NEW d \in Clients PROVE Ordered(d)' /\ Forgotten(d)' /\ Bound(d)'
    <2>1. CASE d = c
      BY <1>7, <1>8, <1>9, <2>1
    <2>2. CASE d # c
      BY <1>1, <1>3, <2>2 DEF Inv, Ordered, Forgotten, Bound
    <2> QED  BY <2>1, <2>2
  <1> QED  BY <1>6, <1>10 DEF Inv

LEMMA NextInv == Inv /\ [Next]_vars => Inv'
  <1> SUFFICES ASSUME Inv, [Next]_vars PROVE Inv'
    OBVIOUS
  <1>1. CASE UNCHANGED vars
    BY <1>1 DEF vars, Inv, TypeOK, Ordered, Forgotten, Bound
  <1> QED  BY <1>1, TickInv, DenyInv, AdmitInv DEF Next

LEMMA Invariance == Spec => []Inv
  BY InitInv, NextInv, PTL DEF Spec

\* No window of the clock admits more than the limit, for every limit, every
\* window and every number of clients.
THEOREM WindowBoundCorrect == Spec => []WindowBound
  <1>1. Inv => WindowBound
    BY DEF Inv, Bound, WindowBound
  <1> QED  BY <1>1, Invariance, PTL

LEMMA DeniedStep ==
  ASSUME Inv, NEW c \in Clients, Deny(c)
  PROVE  Cardinality(InLastWindow(c)) >= MaxRequests
  <1>1. IsFiniteSet(InLastWindow(c)) /\ Retained(c) \subseteq InLastWindow(c)
    <2>1. InLastWindow(c) \subseteq DOMAIN log[c]
      BY DEF InLastWindow
    <2>2. IsFiniteSet(InLastWindow(c))
      BY <2>1, LogFinite, FS_Subset DEF Inv
    <2>3. \A i \in Retained(c) : i \in DOMAIN log[c] /\ log[c][i] \in Nat
                                /\ now \in Nat /\ log[c][i] > now - Window
      BY LogFinite DEF Inv, TypeOK, Retained, Recent
    <2>4. Retained(c) \subseteq InLastWindow(c)
      BY <2>3, WindowAssumption DEF InLastWindow
    <2> QED  BY <2>2, <2>4
  <1>2. Cardinality(Retained(c)) \in Nat /\ Cardinality(InLastWindow(c)) \in Nat
        /\ Cardinality(Retained(c)) <= Cardinality(InLastWindow(c))
    BY <1>1, FS_Subset, FS_CardinalityType
  <1> QED  BY <1>2, LimitAssumption DEF Deny, Full

\* No client is denied before it has used up its limit.
THEOREM DeniedOnlyWhenFullCorrect == Spec => DeniedOnlyWhenFull
  <1>1. Inv /\ [Next]_vars =>
          [\A c \in Clients : Deny(c) => Cardinality(InLastWindow(c)) >= MaxRequests]_vars
    BY DeniedStep
  <1> QED  BY <1>1, Invariance, PTL DEF Spec, DeniedOnlyWhenFull

LEMMA RetryStep ==
  ASSUME Inv, NEW c \in Clients, Deny(c), MaxRequests > 0,
         now >= deniedAt[c] + Window,
         \A i \in DOMAIN log[c] : ~(log[c][i] > deniedAt[c])
  PROVE  FALSE
  <1>1. \A i \in DOMAIN log[c] : ~Recent(log[c][i], now)
    BY LogFinite, WindowAssumption DEF Inv, TypeOK, Recent
  <1>2. Retained(c) = {}
    BY <1>1, LogFinite DEF Inv, Retained
  <1>3. Cardinality(Retained(c)) = 0
    BY <1>2, FS_EmptySet
  <1> QED  BY <1>3, LimitAssumption DEF Deny, Full

\* Who waits as long as the Retry-After header says is admitted.
THEOREM RetryAfterHonestCorrect == Spec => RetryAfterHonest
  <1>1. Inv /\ [Next]_vars =>
          [\A c \in Clients :
             Deny(c) /\ MaxRequests > 0 /\ deniedAt[c] >= 0 /\ now >= deniedAt[c] + Window =>
                 \E i \in DOMAIN log[c] : log[c][i] > deniedAt[c]]_vars
    BY RetryStep
  <1> QED  BY <1>1, Invariance, PTL DEF Spec, RetryAfterHonest
=============================================================================
