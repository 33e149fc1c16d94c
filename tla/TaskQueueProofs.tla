-------------------------- MODULE TaskQueueProofs --------------------------
(***************************************************************************)
(* What holds of TaskQueue for every set of tasks, processes and actors,   *)
(* every number of retries, failures and crashes.                          *)
(*                                                                         *)
(*   types      TypeOK, what a helper returns                              *)
(*   backoff    BackoffRespected                                           *)
(*   stats      StatsAtomic, of one process                                *)
(*   accounts   NoDuplication and Conserved                                *)
(*   attempts   AttemptsBounded                                            *)
(*   doubling   NothingDoubled                                             *)
(*   ledger     ImplementsLedger, of one polling process and one           *)
(*              submission of each task                                    *)
(***************************************************************************)
EXTENDS TaskQueue, TLAPS, FiniteSetTheorems, SequenceTheorems

\* An actor that is about to use a job has one.
Equipped ==
    \A a \in Actors :
        /\ pc[a] \in {"lpush", "zadd", "run", "bury", "zrem", "repush"} => hand[a] # <<>>
        /\ pc[a] = "zrem" => toRemove[a] # <<>>

TypeInv == TypeOK /\ Equipped /\ IsFiniteSet(delayed)

-----------------------------------------------------------------------------
\* What the helpers return.

LEMMA FreshType == ASSUME NEW t \in Tasks PROVE Fresh(t) \in Jobs
  BY RetryAssumption DEF Fresh, Jobs

LEMMA HomeType == ASSUME NEW a \in Actors PROVE Home[a] \in Procs
  BY HomeAssumption

LEMMA RetriedType ==
  ASSUME TypeOK, NEW j \in Jobs, CanRetry(j)
  PROVE  Retried(j) \in Jobs
  <1>1. j.task \in Tasks /\ j.retry + 1 \in 0..MaxRetries
    BY RetryAssumption DEF CanRetry, Jobs
  <1>2. now \in Nat /\ runs[j.task] + 1 \in Nat
    BY <1>1 DEF TypeOK, HistoryOK
  <1> QED  BY <1>1, <1>2 DEF Retried, Jobs

LEMMA BackoffType == ASSUME NEW j \in Jobs PROVE Backoff(j) \in Nat
  BY BackoffAssumption DEF Backoff, Jobs

\* The actor at the head of its lock queue can take itself off.
LEMMA UnlockType ==
  ASSUME LocalOK, NEW a \in Actors, Holds(a), Unlock(a)
  PROVE  lockq' \in [Procs -> Seq(Actors)]
  <1>1. lockq[Home[a]] \in Seq(Actors) /\ lockq[Home[a]] # <<>>
    BY HomeType DEF LocalOK, Holds
  <1>2. Tail(lockq[Home[a]]) \in Seq(Actors)
    BY <1>1, HeadTailProperties
  <1> QED  BY <1>2, HomeType DEF LocalOK, Unlock

LEMMA RequestType ==
  ASSUME LocalOK, NEW a \in Actors, NEW c \in PCs, Request(a, c)
  PROVE  /\ lockq' \in [Procs -> Seq(Actors)]
         /\ pc' \in [Actors -> PCs]
  <1>1. Append(lockq[Home[a]], a) \in Seq(Actors)
    BY HomeType, AppendProperties DEF LocalOK
  <1> QED  BY <1>1, HomeType DEF LocalOK, Request

\* Returning drops the guard and the locals and keeps everyone else's.
LEMMA FinishType ==
  ASSUME LocalOK, Equipped, NEW a \in Actors, Holds(a), Finish(a)
  PROVE  LocalOK' /\ Equipped'
  <1>1. lockq' \in [Procs -> Seq(Actors)]
    BY UnlockType DEF Finish
  <1>2. NoStats \in [pending : Nat, delayed : Nat]
    BY DEF NoStats
  <1>3. LocalOK'
    BY <1>1, <1>2 DEF LocalOK, Finish, PCs
  <1>4. Equipped'
    BY DEF LocalOK, Equipped, Finish
  <1> QED  BY <1>3, <1>4

LEMMA AnsweredType ==
  ASSUME NetOK, NEW a \in Actors, Applied(a) \/ Refused(a), UNCHANGED crashes
  PROVE  NetOK'
  <1>1. faults' \in 0..MaxFaults
    BY FaultAssumption DEF NetOK, Applied, Answered, ReplyLost, Refused, net
  <1>2. conn' \in [Procs -> BOOLEAN]
    BY HomeType DEF NetOK, Applied, Answered, ReplyLost, Refused, net
  <1> QED  BY <1>1, <1>2 DEF NetOK

\* The due members, in any order, are a non-empty batch of jobs.
LEMMA BatchType ==
  ASSUME NEW S \in SUBSET Entries, IsFiniteSet(S), S # {}, NEW s \in ByScore(S)
  PROVE  /\ JobsOf(s) \in Seq(Jobs)
         /\ JobsOf(s) # <<>>
         /\ \A i \in DOMAIN JobsOf(s) : \E e \in S : JobsOf(s)[i] = e.job
  <1>1. Cardinality(S) \in Nat /\ Cardinality(S) # 0
    BY FS_CardinalityType, FS_EmptySet
  <1>2. s \in [1..Cardinality(S) -> S]
    BY DEF ByScore, SetToSeqs
  <1>3. \A i \in 1..Cardinality(S) : s[i] \in S /\ s[i].job \in Jobs
    BY <1>2 DEF Entries
  <1>4. JobsOf(s) = [i \in 1..Cardinality(S) |-> s[i].job]
    BY <1>2 DEF JobsOf
  <1>5. JobsOf(s) \in Seq(Jobs)
    BY <1>1, <1>3, <1>4, SeqDef
  <1>6. 1 \in DOMAIN JobsOf(s)
    BY <1>1, <1>4
  <1> QED  BY <1>3, <1>4, <1>5, <1>6

-----------------------------------------------------------------------------
\* Every action keeps the type invariant.

LEMMA HandType ==
  ASSUME LocalOK, Equipped, NEW a \in Actors,
         pc[a] \in {"lpush", "zadd", "run", "bury", "repush"}
  PROVE  Head(hand[a]) \in Jobs /\ Tail(hand[a]) \in Seq(Jobs) /\ hand[a] # <<>>
  <1>1. hand[a] \in Seq(Jobs) /\ hand[a] # <<>>
    BY DEF LocalOK, Equipped
  <1> QED  BY <1>1, HeadTailProperties

LEMMA SubmitType ==
  ASSUME TypeInv, NEW c \in Clients, NEW t \in Tasks,
         Enqueue(c, t) \/ \E d \in Delays : Schedule(c, t, d)
  PROVE  TypeInv'
  <1> USE DEF TypeInv, TypeOK
  <1>0. c \in Actors
    BY DEF Actors
  <1>1. lockq' \in [Procs -> Seq(Actors)] /\ pc' \in [Actors -> PCs]
    BY <1>0, RequestType DEF Enqueue, Schedule, PCs
  <1>2. <<Fresh(t)>> \in Seq(Jobs) /\ <<Fresh(t)>> # <<>>
    BY FreshType
  <1>3. stamp' \in [Actors -> Nat]
    <2>1. CASE Enqueue(c, t)
      BY <2>1 DEF Enqueue, LocalOK
    <2>2. ASSUME NEW d \in Delays, Schedule(c, t, d) PROVE stamp' \in [Actors -> Nat]
      <3>1. now + d \in Nat
        BY DelayAssumption
      <3> QED  BY <2>2, <3>1 DEF Schedule, LocalOK
    <2> QED  BY <2>1, <2>2
  <1>4. LocalOK'
    BY <1>0, <1>1, <1>2, <1>3 DEF Enqueue, Schedule, Submit, LocalOK
  <1>5. RedisOK' /\ NetOK' /\ now' \in Nat /\ IsFiniteSet(delayed')
    BY DEF Enqueue, Schedule, Submit, RedisOK, NetOK, redis, net
  <1>6. HistoryOK'
    BY DEF Enqueue, Schedule, Submit, HistoryOK
  <1>7. Equipped'
    BY <1>0, <1>2 DEF Enqueue, Schedule, Submit, Request, Equipped, LocalOK
  <1> QED  BY <1>4, <1>5, <1>6, <1>7

LEMMA LPushType ==
  ASSUME TypeInv, NEW c \in Actors, LPush(c) PROVE TypeInv'
  <1> USE DEF TypeInv, TypeOK
  <1>1. LocalOK' /\ Equipped'
    BY FinishType DEF LPush, At
  <1>2. pending' \in Seq(Jobs)
    BY HandType, AppendProperties DEF LPush, At, RedisOK
  <1>3. NetOK'
    BY AnsweredType DEF LPush
  <1> QED  BY <1>1, <1>2, <1>3 DEF LPush, RedisOK, HistoryOK, history

LEMMA ZAddType ==
  ASSUME TypeInv, NEW a \in Actors, ZAdd(a) PROVE TypeInv'
  <1> USE DEF TypeInv, TypeOK
  <1>1. LocalOK' /\ Equipped'
    BY FinishType DEF ZAdd, At
  <1>2. Head(hand[a]) \in Jobs /\ stamp[a] \in Nat
    BY HandType DEF ZAdd, At, LocalOK
  <1>3. delayed' \subseteq Entries
    BY <1>2 DEF ZAdd, Scored, RedisOK, Entries
  <1>4. IsFiniteSet(delayed')
    <2>1. IsFiniteSet({e \in delayed : e.job # Head(hand[a])})
      BY FS_Subset
    <2>2. IsFiniteSet(Scored(Head(hand[a]), stamp[a]))
      BY <2>1, FS_AddElement DEF Scored
    <2> QED  BY <2>2 DEF ZAdd
  <1>5. merged' \in [Tasks -> Nat]
    <2>1. Merges(Head(hand[a])) \in Nat /\ Head(hand[a]).task \in Tasks
      BY <1>2 DEF Merges, Jobs
    <2> QED  BY <2>1 DEF ZAdd, HistoryOK
  <1>6. NetOK'
    BY AnsweredType DEF ZAdd
  <1> QED  BY <1>1, <1>3, <1>4, <1>5, <1>6 DEF ZAdd, RedisOK, HistoryOK

LEMMA PopType ==
  ASSUME TypeInv, NEW w \in Actors, Pop(w) PROVE TypeInv'
  <1> USE DEF TypeInv, TypeOK
  <1>1. Head(pending) \in Jobs /\ Tail(pending) \in Seq(Jobs)
    BY HeadTailProperties DEF Pop, RedisOK
  <1>2. LocalOK' /\ Equipped'
    <2>1. CASE ReplyLost(w) /\ Finish(w)
      BY <2>1, FinishType DEF Pop, At
    <2>2. CASE Answered(w) /\ Unlock(w) /\ pc' = [pc EXCEPT ![w] = "run"]
               /\ hand' = [hand EXCEPT ![w] = <<Head(pending)>>]
               /\ UNCHANGED <<toRemove, stamp, stats>>
      <3>1. lockq' \in [Procs -> Seq(Actors)]
        BY <2>2, UnlockType DEF Pop, At
      <3>2. LocalOK'
        BY <1>1, <2>2, <3>1 DEF LocalOK, PCs
      <3>3. Equipped'
        BY <1>1, <2>2 DEF LocalOK, Equipped
      <3> QED  BY <3>2, <3>3
    <2> QED  BY <2>1, <2>2 DEF Pop
  <1>3. NetOK'
    BY AnsweredType DEF Pop, Applied
  <1> QED  BY <1>1, <1>2, <1>3 DEF Pop, RedisOK, HistoryOK, history

LEMMA WaitType ==
  ASSUME TypeInv, NEW a \in Actors,
         RequestPop(a) \/ StartPoll(a) \/ StartStats(a) \/ PopNothing(a)
  PROVE  TypeInv'
  <1> USE DEF TypeInv, TypeOK
  <1>1. CASE PopNothing(a)
    <2>1. LocalOK' /\ Equipped'
      BY <1>1, FinishType DEF PopNothing, At
    <2>2. NetOK'
      BY <1>1, AnsweredType DEF PopNothing, TimesOut, Applied
    <2> QED  BY <1>1, <2>1, <2>2 DEF PopNothing, RedisOK, HistoryOK, history, redis
  <1>2. CASE RequestPop(a) \/ StartPoll(a) \/ StartStats(a)
    <2>1. lockq' \in [Procs -> Seq(Actors)] /\ pc' \in [Actors -> PCs]
      BY <1>2, RequestType DEF RequestPop, StartPoll, StartStats, PCs
    <2>2. LocalOK'
      BY <1>2, <2>1 DEF RequestPop, StartPoll, StartStats, LocalOK
    <2>3. Equipped'
      BY <1>2 DEF RequestPop, StartPoll, StartStats, Request, LocalOK, Equipped
    <2>4. RedisOK' /\ NetOK' /\ HistoryOK' /\ now' \in Nat /\ IsFiniteSet(delayed')
      BY <1>2 DEF RequestPop, StartPoll, StartStats, RedisOK, NetOK, HistoryOK,
                  redis, net, history
    <2> QED  BY <2>2, <2>3, <2>4
  <1> QED  BY <1>1, <1>2

LEMMA RunOkType ==
  ASSUME TypeInv, NEW w \in Actors, RunOk(w) PROVE TypeInv'
  <1> USE DEF TypeInv, TypeOK
  <1>1. Head(hand[w]).task \in Tasks
    BY HandType DEF RunOk, Jobs
  <1>2. HistoryOK'
    <2>1. runs' \in [Tasks -> Nat] /\ done' \in [Tasks -> Nat]
      BY <1>1 DEF RunOk, HistoryOK
    <2>2. UNCHANGED <<submitted, merged, doubled>>
      BY DEF RunOk
    <2> QED  BY <2>1, <2>2 DEF HistoryOK
  <1>3. LocalOK'
    BY DEF RunOk, LocalOK, PCs
  <1>4. Equipped'
    BY DEF RunOk, LocalOK, Equipped
  <1> QED  BY <1>2, <1>3, <1>4 DEF RunOk, RedisOK, NetOK, redis, net

LEMMA RunFailsType ==
  ASSUME TypeInv, NEW w \in Actors, RunFails(w) PROVE TypeInv'
  <1> USE DEF TypeInv, TypeOK
  <1> DEFINE j == Head(hand[w])
  <1>1. j \in Jobs /\ j.task \in Tasks
    BY HandType DEF RunFails, Jobs
  <1>2. HistoryOK'
    BY <1>1 DEF RunFails, HistoryOK
  <1>3. lockq' \in [Procs -> Seq(Actors)] /\ pc' \in [Actors -> PCs]
    BY RequestType DEF RunFails, PCs
  <1>4. LocalOK' /\ Equipped'
    <2>1. CASE /\ CanRetry(j)
               /\ hand' = [hand EXCEPT ![w] = <<Retried(j)>>]
               /\ stamp' = [stamp EXCEPT ![w] = now + Backoff(j)]
               /\ Request(w, "zadd")
      <3>1. <<Retried(j)>> \in Seq(Jobs) /\ <<Retried(j)>> # <<>> /\ now + Backoff(j) \in Nat
        BY <1>1, <2>1, RetriedType, BackoffType
      <3>2. LocalOK'
        BY <1>3, <2>1, <3>1 DEF RunFails, LocalOK
      <3>3. Equipped'
        BY <2>1, <3>1 DEF RunFails, Request, LocalOK, Equipped
      <3> QED  BY <3>2, <3>3
    <2>2. CASE Request(w, "bury") /\ UNCHANGED <<hand, stamp>>
      BY <1>3, <2>2 DEF RunFails, Request, LocalOK, Equipped
    <2> QED  BY <2>1, <2>2 DEF RunFails
  <1> QED  BY <1>2, <1>4 DEF RunFails, RedisOK, NetOK, redis, net

LEMMA BuryType ==
  ASSUME TypeInv, NEW w \in Actors, Bury(w) PROVE TypeInv'
  <1> USE DEF TypeInv, TypeOK
  <1>1. LocalOK' /\ Equipped'
    BY FinishType DEF Bury, At
  <1>2. dead' \in Seq(Jobs)
    BY HandType, AppendProperties DEF Bury, DeadLetter, At, RedisOK
  <1>3. NetOK'
    BY AnsweredType DEF Bury
  <1> QED  BY <1>1, <1>2, <1>3 DEF Bury, RedisOK, HistoryOK, history

LEMMA FetchDueType ==
  ASSUME TypeInv, NEW p \in Actors, FetchDue(p) PROVE TypeInv'
  <1> USE DEF TypeInv, TypeOK
  <1>1. LocalOK' /\ Equipped'
    <2>1. CASE Finish(p)
      BY <2>1, FinishType DEF FetchDue, At
    <2>2. ASSUME DueAt(stamp[p]) # {}, NEW s \in ByScore(DueAt(stamp[p])),
                 hand' = [hand EXCEPT ![p] = JobsOf(s)],
                 toRemove' = [toRemove EXCEPT ![p] = JobsOf(s)],
                 pc' = [pc EXCEPT ![p] = "zrem"],
                 UNCHANGED <<lockq, stamp, stats>>
          PROVE  LocalOK' /\ Equipped'
      <3>1. DueAt(stamp[p]) \in SUBSET Entries /\ IsFiniteSet(DueAt(stamp[p]))
        BY FS_Subset DEF DueAt, RedisOK
      <3>2. JobsOf(s) \in Seq(Jobs) /\ JobsOf(s) # <<>>
        BY <2>2, <3>1, BatchType
      <3>3. LocalOK'
        BY <2>2, <3>2 DEF LocalOK, PCs
      <3>4. Equipped'
        BY <2>2, <3>2 DEF LocalOK, Equipped
      <3> QED  BY <3>3, <3>4
    <2> QED  BY <2>1, <2>2 DEF FetchDue
  <1>2. NetOK'
    BY AnsweredType DEF FetchDue, Applied
  <1> QED  BY <1>1, <1>2 DEF FetchDue, RedisOK, HistoryOK, history, redis

LEMMA ZRemType ==
  ASSUME TypeInv, NEW p \in Actors, ZRem(p) PROVE TypeInv'
  <1> USE DEF TypeInv, TypeOK
  <1> DEFINE rest == Tail(toRemove[p])
  <1>1. LocalOK' /\ Equipped'
    <2>1. CASE Finish(p)
      BY <2>1, FinishType DEF ZRem, At
    <2>2. CASE /\ toRemove' = [toRemove EXCEPT ![p] = rest]
               /\ pc' = [pc EXCEPT ![p] = AfterZRem(rest)]
               /\ UNCHANGED <<lockq, hand, stamp, stats>>
      <3>1. toRemove[p] \in Seq(Jobs) /\ toRemove[p] # <<>> /\ hand[p] # <<>>
        BY DEF ZRem, At, LocalOK, Equipped
      <3>2. rest \in Seq(Jobs)
        BY <3>1, HeadTailProperties
      <3>3. LocalOK'
        BY <2>2, <3>2 DEF LocalOK, AfterZRem, PCs
      <3>4. Equipped'
        BY <2>2, <3>1 DEF LocalOK, Equipped, AfterZRem
      <3> QED  BY <3>3, <3>4
    <2> QED  BY <2>1, <2>2 DEF ZRem
  <1>2. NetOK'
    BY AnsweredType DEF ZRem
  <1>3. delayed' \subseteq delayed
    BY DEF ZRem, Removed
  <1>4. IsFiniteSet(delayed')
    BY <1>3, FS_Subset
  <1>5. doubled' \in [Tasks -> Nat]
    <2> DEFINE j == Head(toRemove[p])
    <2>1. j \in Jobs
      BY HeadTailProperties DEF ZRem, At, LocalOK, Equipped
    <2>2. Missing(j) \in Nat /\ j.task \in Tasks
      BY <2>1 DEF Missing, Merges, Jobs
    <2>3. doubled' = doubled \/ doubled' = [doubled EXCEPT ![j.task] = @ + Missing(j)]
      BY DEF ZRem
    <2> HIDE DEF j
    <2> QED  BY <2>2, <2>3 DEF HistoryOK
  <1> QED  BY <1>1, <1>2, <1>3, <1>4, <1>5 DEF ZRem, RedisOK, HistoryOK

LEMMA RePushType ==
  ASSUME TypeInv, NEW p \in Actors, RePush(p) PROVE TypeInv'
  <1> USE DEF TypeInv, TypeOK
  <1>1. hand[p] \in Seq(Jobs) /\ hand[p] # <<>>
    BY DEF RePush, At, LocalOK, Equipped
  <1>2. LocalOK' /\ Equipped'
    <2>1. CASE Finish(p)
      BY <2>1, FinishType DEF RePush, At
    <2>2. CASE /\ Len(hand[p]) > 1
               /\ hand' = [hand EXCEPT ![p] = Tail(@)]
               /\ UNCHANGED <<lockq, pc, toRemove, stamp, stats>>
      <3>1. Tail(hand[p]) \in Seq(Jobs) /\ Len(Tail(hand[p])) = Len(hand[p]) - 1
        BY <1>1, HeadTailProperties
      <3>2. Len(hand[p]) \in Nat /\ Tail(hand[p]) # <<>>
        <4>1. Len(hand[p]) \in Nat
          BY <1>1, LenProperties
        <4>2. Len(hand[p]) > 1
          BY <2>2
        <4>3. \A n \in Nat : n > 1 => n - 1 # 0
          OBVIOUS
        <4>4. Len(Tail(hand[p])) # 0
          BY <3>1, <4>1, <4>2, <4>3
        <4> QED  BY <3>1, <4>1, <4>4, EmptySeq
      <3>3. LocalOK' /\ Equipped'
        BY <2>2, <3>1, <3>2 DEF LocalOK, Equipped
      <3> QED  BY <3>3
    <2> QED  BY <2>1, <2>2 DEF RePush
  <1>3. pending' \in Seq(Jobs)
    BY <1>1, HandType, AppendProperties DEF RePush, At, RedisOK
  <1>4. NetOK'
    BY AnsweredType DEF RePush
  <1> QED  BY <1>2, <1>3, <1>4 DEF RePush, RedisOK, HistoryOK, history

LEMMA StatsType ==
  ASSUME TypeInv, NEW m \in Actors, MonitorStep(m) PROVE TypeInv'
  <1> USE DEF TypeInv, TypeOK
  <1>1. Len(pending) \in Nat /\ Cardinality(delayed) \in Nat
    BY LenProperties, FS_CardinalityType DEF RedisOK
  <1>2. ASSUME NEW command \in PCs, NEW next \in {"zcard", "ldead"},
               NEW field \in {"pending", "delayed"}, NEW value \in Nat,
               ReadStat(m, command, field, value, next)
        PROVE  TypeInv'
    <2>1. CASE (ReplyLost(m) \/ Refused(m)) /\ Finish(m)
      BY <1>2, <2>1, FinishType, AnsweredType
      DEF ReadStat, At, Applied, RedisOK, HistoryOK, history, redis
    <2>2. CASE /\ Answered(m)
               /\ stats' = [stats EXCEPT ![m][field] = value]
               /\ pc' = [pc EXCEPT ![m] = next]
               /\ UNCHANGED <<lockq, hand, toRemove, stamp>>
      <3>1. stats' \in [Actors -> [pending : Nat, delayed : Nat]]
        BY <1>2, <2>2 DEF LocalOK
      <3>2. LocalOK' /\ Equipped'
        BY <1>2, <2>2, <3>1 DEF LocalOK, PCs, Equipped
      <3> QED  BY <1>2, <2>2, <3>2
               DEF ReadStat, Answered, RedisOK, NetOK, HistoryOK, history, redis, net
    <2> QED  BY <1>2, <2>1, <2>2 DEF ReadStat
  <1>3. CASE LLenPending(m) \/ ZCard(m)
    BY <1>1, <1>2, <1>3 DEF LLenPending, ZCard, PCs
  <1>4. CASE LLenDead(m)
    BY <1>4, FinishType, AnsweredType
    DEF LLenDead, At, RedisOK, HistoryOK, history, redis
  <1> QED  BY <1>3, <1>4 DEF MonitorStep

LEMMA CrashType ==
  ASSUME TypeInv, NEW p \in Procs, Crash(p) PROVE TypeInv'
  <1> USE DEF TypeInv, TypeOK
  <1>1. LocalOK'
    BY DEF Crash, Cleared, LocalOK, PCs, NoStats
  <1>2. Equipped'
    BY DEF Crash, Cleared, Equipped
  <1>3. NetOK'
    BY CrashAssumption DEF Crash, NetOK
  <1> QED  BY <1>1, <1>2, <1>3 DEF Crash, RedisOK, HistoryOK, history, redis

LEMMA TickType ==
  ASSUME TypeInv, Tick PROVE TypeInv'
  BY DEF TypeInv, TypeOK, Tick, RedisOK, LocalOK, NetOK, HistoryOK, Equipped,
         redis, local, net, history

LEMMA TypeInit == Init => TypeInv
  <1> SUFFICES ASSUME Init PROVE TypeInv
    OBVIOUS
  <1>1. IsFiniteSet(delayed)
    BY FS_EmptySet DEF Init
  <1>2. RedisOK /\ HistoryOK /\ now \in Nat
    BY DEF Init, RedisOK, HistoryOK
  <1>3. LocalOK /\ Equipped
    BY DEF Init, LocalOK, PCs, NoStats, Equipped
  <1>4. NetOK
    BY FaultAssumption, CrashAssumption DEF Init, NetOK
  <1> QED  BY <1>1, <1>2, <1>3, <1>4 DEF TypeInv, TypeOK

LEMMA TypeNext == TypeInv /\ [Next]_vars => TypeInv'
  <1> SUFFICES ASSUME TypeInv, [Next]_vars PROVE TypeInv'
    OBVIOUS
  <1>0. Clients \subseteq Actors /\ Workers \subseteq Actors
        /\ Pollers \subseteq Actors /\ Monitors \subseteq Actors
    BY DEF Actors
  <1>1. ASSUME NEW c \in Clients, NEW t \in Tasks,
               Enqueue(c, t) \/ \E d \in Delays : Schedule(c, t, d)
        PROVE  TypeInv'
    BY <1>1, SubmitType
  <1>2. ASSUME NEW c \in Clients, ClientStep(c) PROVE TypeInv'
    BY <1>0, <1>2, LPushType, ZAddType DEF ClientStep
  <1>3. ASSUME NEW w \in Workers, WorkerStep(w) PROVE TypeInv'
    BY <1>0, <1>3, WaitType, PopType, RunOkType, RunFailsType, ZAddType, BuryType
    DEF WorkerStep
  <1>4. ASSUME NEW p \in Pollers, PollerStep(p) PROVE TypeInv'
    BY <1>0, <1>4, WaitType, FetchDueType, ZRemType, RePushType DEF PollerStep
  <1>5. ASSUME NEW m \in Monitors, StartStats(m) \/ MonitorStep(m) PROVE TypeInv'
    BY <1>0, <1>5, WaitType, StatsType
  <1>6. ASSUME NEW p \in Procs, Crash(p) PROVE TypeInv'
    BY <1>6, CrashType
  <1>7. CASE UNCHANGED vars
    BY <1>7 DEF vars, redis, local, net, history, TypeInv, TypeOK, RedisOK, LocalOK,
                NetOK, HistoryOK, Equipped
  <1> QED  BY <1>1, <1>2, <1>3, <1>4, <1>5, <1>6, <1>7, TickType DEF Next

\* In every run of the queue the payloads are those the code can have
\* written, and every actor that is about to use a job has one.
THEOREM TypeCorrect == Spec => []TypeOK
  <1>1. TypeInv => TypeOK
    BY DEF TypeInv
  <1> QED  BY TypeInit, TypeNext, <1>1, PTL DEF Spec

-----------------------------------------------------------------------------
(***************************************************************************)
(* BackoffRespected is not inductive: a job becomes available through the  *)
(* sorted set and a poller's batch, so the invariant has to say of every   *)
(* place on that way what has been waited for, or will be.                 *)
(***************************************************************************)

\* A score that makes a job due no earlier than its backoff allows.
Ripens(j, score) == j.retry > 0 => score >= j.at + 2^(j.retry - 1)

\* Jobs on their way to the main list, or out of it, have waited; a retry
\* about to be stored gets a score that ripens; a poller's clock reading is
\* never ahead of the clock.
HeldInv(a) ==
    /\ pc[a] \in {"lpush", "run", "zrem", "repush"} =>
          \A i \in DOMAIN hand[a] : Waited(hand[a][i])
    /\ pc[a] = "zadd" => Ripens(hand[a][1], stamp[a])
    /\ pc[a] = "zrange" => stamp[a] <= now

PendingInv == \A i \in DOMAIN pending : Waited(pending[i])

DelayedInv == \A e \in delayed : Ripens(e.job, e.score)

BackoffInv == PendingInv /\ DelayedInv /\ \A a \in Actors : HeldInv(a)

LEMMA BackoffNat ==
  ASSUME NEW j \in Jobs, j.retry > 0 PROVE 2^(j.retry - 1) \in Nat
  <1>1. j.retry - 1 \in 0..MaxRetries
    BY RetryAssumption DEF Jobs
  <1> QED  BY <1>1, BackoffAssumption

LEMMA WaitedLater ==
  ASSUME NEW j \in Jobs, Waited(j), now \in Nat, now' \in Nat, now' >= now
  PROVE  Waited(j)'
  <1>1. CASE j.retry > 0
    BY <1>1, BackoffNat DEF Waited, Jobs
  <1>2. CASE ~(j.retry > 0)
    BY <1>2 DEF Waited
  <1> QED  BY <1>1, <1>2

\* A job whose score has been reached has waited.
LEMMA DueHasWaited ==
  ASSUME NEW j \in Jobs, NEW score \in Nat, NEW time \in Nat, now \in Nat,
         Ripens(j, score), score <= time, time <= now
  PROVE  Waited(j)
  <1>1. CASE j.retry > 0
    BY <1>1, BackoffNat DEF Waited, Ripens, Jobs
  <1>2. CASE ~(j.retry > 0)
    BY <1>2 DEF Waited
  <1> QED  BY <1>1, <1>2

LEMMA FreshWaited ==
  ASSUME NEW t \in Tasks, NEW score
  PROVE  Ripens(Fresh(t), score) /\ Waited(Fresh(t)) /\ Waited(Fresh(t))'
  BY DEF Fresh, Ripens, Waited

\* What handle_failed_task writes ripens 2^retry seconds after the failure.
LEMMA RetriedRipens ==
  ASSUME TypeOK, NEW j \in Jobs
  PROVE  Ripens(Retried(j), now + Backoff(j))
  <1>1. Retried(j).retry = j.retry + 1 /\ Retried(j).at = now
    BY DEF Retried, Jobs
  <1>2. j.retry \in Int /\ (j.retry + 1) - 1 = j.retry
    BY RetryAssumption DEF Jobs
  <1>3. 2^(Retried(j).retry - 1) = Backoff(j)
    BY <1>1, <1>2 DEF Backoff
  <1> QED  BY <1>1, <1>3, BackoffType DEF Ripens, TypeOK

\* An actor whose variables a step leaves alone keeps its part.
LEMMA HeldFrame ==
  ASSUME TypeInv, TypeInv', NEW a \in Actors, HeldInv(a), now' >= now,
         pc'[a] = pc[a], hand'[a] = hand[a], stamp'[a] = stamp[a]
  PROVE  HeldInv(a)'
  <1>1. now \in Nat /\ now' \in Nat /\ stamp[a] \in Nat
    BY DEF TypeInv, TypeOK, LocalOK
  <1>2. \A i \in DOMAIN hand[a] : hand[a][i] \in Jobs
    BY DEF TypeInv, TypeOK, LocalOK
  <1>3. \A j \in Jobs : Waited(j) => Waited(j)'
    BY <1>1, WaitedLater
  <1>4. ASSUME pc[a] \in {"lpush", "run", "zrem", "repush"}
        PROVE  (\A i \in DOMAIN hand[a] : Waited(hand[a][i]))'
    BY <1>2, <1>3, <1>4 DEF HeldInv, Waited
  <1>5. CASE pc[a] \in {"lpush", "run", "zrem", "repush"}
    BY <1>4, <1>5 DEF HeldInv
  <1>6. CASE pc[a] = "zadd"
    BY <1>6 DEF HeldInv, Ripens
  <1>7. CASE pc[a] \notin {"lpush", "run", "zrem", "repush", "zadd"}
    BY <1>1, <1>7 DEF HeldInv
  <1> QED  BY <1>5, <1>6, <1>7

LEMMA PendingFrame ==
  ASSUME TypeInv, TypeInv', PendingInv, now' >= now, UNCHANGED pending
  PROVE  PendingInv'
  <1>1. \A i \in DOMAIN pending : pending[i] \in Jobs
    BY DEF TypeInv, TypeOK, RedisOK
  <1>2. \A i \in DOMAIN pending : Waited(pending[i])'
    BY <1>1, WaitedLater DEF PendingInv, TypeInv, TypeOK
  <1> QED  BY <1>2 DEF PendingInv, Waited

\* A step of actor a alone that returns, or leaves it at `command` with the
\* variables it has, disturbs nobody.
LEMMA OthersHeld ==
  ASSUME TypeInv, TypeInv', BackoffInv, UNCHANGED now, NEW a \in Actors,
         \A b \in Actors \ {a} : pc'[b] = pc[b] /\ hand'[b] = hand[b] /\ stamp'[b] = stamp[b],
         HeldInv(a)'
  PROVE  \A b \in Actors : HeldInv(b)'
  <1>1. now' >= now
    BY DEF TypeInv, TypeOK
  <1>2. \A b \in Actors \ {a} : HeldInv(b)'
    BY <1>1, HeldFrame DEF BackoffInv
  <1> QED  BY <1>2

LEMMA FinishHeld ==
  ASSUME TypeInv, TypeInv', BackoffInv, UNCHANGED now, NEW a \in Actors, Finish(a)
  PROVE  \A b \in Actors : HeldInv(b)'
  <1>1. HeldInv(a)'
    BY DEF Finish, HeldInv, TypeInv, TypeOK, LocalOK
  <1>2. \A b \in Actors \ {a} : pc'[b] = pc[b] /\ hand'[b] = hand[b] /\ stamp'[b] = stamp[b]
    BY DEF Finish, TypeInv, TypeOK, LocalOK
  <1> QED  BY <1>1, <1>2, OthersHeld

LEMMA AppendWaited ==
  ASSUME TypeInv, TypeInv', PendingInv, UNCHANGED now, NEW j \in Jobs, Waited(j),
         pending' = Append(pending, j)
  PROVE  PendingInv'
  <1>1. pending \in Seq(Jobs)
    BY DEF TypeInv, TypeOK, RedisOK
  <1>2. \A i \in DOMAIN pending' : pending'[i] = j \/ \E k \in DOMAIN pending : pending'[i] = pending[k]
    BY <1>1, AppendProperties, LenProperties
  <1>3. \A i \in DOMAIN pending' : Waited(pending'[i])
    BY <1>2 DEF PendingInv
  <1> QED  BY <1>3 DEF PendingInv, Waited

-----------------------------------------------------------------------------
\* Every action keeps the backoff invariant.

LEMMA LastCommandBackoff ==
  ASSUME TypeInv, TypeInv', BackoffInv, NEW a \in Actors,
         LPush(a) \/ ZAdd(a) \/ Bury(a) \/ PopNothing(a) \/ LLenDead(a)
  PROVE  BackoffInv'
  <1>1. Finish(a) /\ UNCHANGED now
    BY DEF LPush, ZAdd, Bury, PopNothing, LLenDead
  <1>2. \A b \in Actors : HeldInv(b)'
    BY <1>1, FinishHeld
  <1>3. now' >= now
    BY <1>1 DEF TypeInv, TypeOK
  <1>4. CASE LPush(a)
    <2>1. Head(hand[a]) \in Jobs /\ Waited(Head(hand[a]))
      <3>1. hand[a] \in Seq(Jobs) /\ hand[a] # <<>>
        BY <1>4 DEF LPush, At, TypeInv, TypeOK, LocalOK, Equipped
      <3>2. 1 \in DOMAIN hand[a] /\ Head(hand[a]) = hand[a][1]
        BY <3>1
      <3> QED  BY <1>4, <3>1, <3>2 DEF LPush, At, BackoffInv, HeldInv
    <2>2. PendingInv'
      BY <1>1, <1>3, <1>4, <2>1, AppendWaited, PendingFrame DEF LPush, BackoffInv
    <2>3. DelayedInv'
      BY <1>4 DEF LPush, BackoffInv, DelayedInv, Ripens
    <2> QED  BY <1>2, <2>2, <2>3 DEF BackoffInv
  <1>5. CASE ZAdd(a)
    <2>1. PendingInv'
      BY <1>3, <1>5, PendingFrame DEF ZAdd, BackoffInv
    <2>2. Head(hand[a]) = hand[a][1]
      BY <1>5 DEF ZAdd, At, TypeInv, TypeOK, LocalOK, Equipped
    <2>3. Ripens(Head(hand[a]), stamp[a])
      BY <1>5, <2>2 DEF ZAdd, At, BackoffInv, HeldInv
    <2>4. \A e \in delayed' : Ripens(e.job, e.score)
      BY <1>5, <2>3 DEF ZAdd, Scored, BackoffInv, DelayedInv
    <2> QED  BY <1>2, <2>1, <2>4 DEF BackoffInv, DelayedInv, Ripens
  <1>6. CASE Bury(a) \/ PopNothing(a) \/ LLenDead(a)
    <2>1. UNCHANGED <<pending, delayed>>
      BY <1>6 DEF Bury, PopNothing, LLenDead, redis
    <2>2. PendingInv'
      BY <1>3, <2>1, PendingFrame DEF BackoffInv
    <2> QED  BY <1>2, <2>1, <2>2 DEF BackoffInv, DelayedInv, Ripens
  <1> QED  BY <1>4, <1>5, <1>6

\* A step of a alone that leaves the lists and the clock as they are.
LEMMA LocalBackoff ==
  ASSUME TypeInv, TypeInv', BackoffInv, NEW a \in Actors,
         UNCHANGED <<pending, delayed, now>>,
         \A b \in Actors \ {a} : pc'[b] = pc[b] /\ hand'[b] = hand[b] /\ stamp'[b] = stamp[b],
         HeldInv(a)'
  PROVE  BackoffInv'
  <1>1. now' >= now
    BY DEF TypeInv, TypeOK
  <1> QED  BY <1>1, OthersHeld, PendingFrame DEF BackoffInv, DelayedInv, Ripens

LEMMA SubmitBackoff ==
  ASSUME TypeInv, TypeInv', BackoffInv, NEW c \in Clients, NEW t \in Tasks,
         Enqueue(c, t) \/ \E d \in Delays : Schedule(c, t, d)
  PROVE  BackoffInv'
  <1>1. c \in Actors
    BY DEF Actors
  <1>2. hand'[c] = <<Fresh(t)>> /\ pc'[c] \in {"lpush", "zadd"}
    BY <1>1 DEF Enqueue, Schedule, Submit, Request, TypeInv, TypeOK, LocalOK
  <1>3. (\A i \in DOMAIN hand[c] : Waited(hand[c][i]))' /\ Ripens(hand[c][1], stamp[c])'
    BY <1>2 DEF Fresh, Waited, Ripens
  <1>4. HeldInv(c)'
    BY <1>2, <1>3 DEF HeldInv
  <1>5. \A b \in Actors \ {c} : pc'[b] = pc[b] /\ hand'[b] = hand[b] /\ stamp'[b] = stamp[b]
    BY <1>1 DEF Enqueue, Schedule, Submit, Request, TypeInv, TypeOK, LocalOK
  <1>6. UNCHANGED <<pending, delayed, now>>
    BY DEF Enqueue, Schedule, Submit, redis
  <1> QED  BY <1>1, <1>4, <1>5, <1>6, LocalBackoff

LEMMA RequestBackoff ==
  ASSUME TypeInv, TypeInv', BackoffInv, NEW a \in Actors,
         RequestPop(a) \/ StartPoll(a) \/ StartStats(a) \/ RunOk(a)
  PROVE  BackoffInv'
  <1>1. HeldInv(a)'
    <2>1. CASE StartPoll(a)
      <3>1. pc'[a] = "zrange" /\ stamp'[a] = now /\ now' = now
        BY <2>1 DEF StartPoll, Request, TypeInv, TypeOK, LocalOK
      <3> QED  BY <3>1 DEF HeldInv, TypeInv, TypeOK
    <2>2. CASE RequestPop(a) \/ StartStats(a) \/ RunOk(a)
      <3>1. pc'[a] \in {"brpop", "llen", "idle"}
        BY <2>2 DEF RequestPop, StartStats, RunOk, Request, TypeInv, TypeOK, LocalOK
      <3> QED  BY <3>1 DEF HeldInv
    <2> QED  BY <2>1, <2>2
  <1>2. \A b \in Actors \ {a} : pc'[b] = pc[b] /\ hand'[b] = hand[b] /\ stamp'[b] = stamp[b]
    BY DEF RequestPop, StartPoll, StartStats, RunOk, Request, TypeInv, TypeOK, LocalOK
  <1>3. UNCHANGED <<pending, delayed, now>>
    BY DEF RequestPop, StartPoll, StartStats, RunOk, redis
  <1> QED  BY <1>1, <1>2, <1>3, LocalBackoff

LEMMA PopBackoff ==
  ASSUME TypeInv, TypeInv', BackoffInv, NEW w \in Actors, Pop(w)
  PROVE  BackoffInv'
  <1>1. pending \in Seq(Jobs) /\ pending # <<>> /\ pending' = Tail(pending)
        /\ UNCHANGED <<delayed, now>>
    BY DEF Pop, TypeInv, TypeOK, RedisOK
  <1>2. \A i \in DOMAIN Tail(pending) : \E k \in DOMAIN pending : Tail(pending)[i] = pending[k]
    BY <1>1, HeadTailProperties, LenProperties
  <1>3. \A i \in DOMAIN pending' : Waited(pending'[i])
    BY <1>1, <1>2 DEF BackoffInv, PendingInv
  <1>4. PendingInv'
    BY <1>1, <1>3 DEF PendingInv, Waited
  <1>5. Head(pending) \in Jobs /\ Waited(Head(pending))
    <2>1. 1 \in DOMAIN pending /\ Head(pending) = pending[1]
      BY <1>1
    <2> QED  BY <1>1, <2>1 DEF BackoffInv, PendingInv
  <1>6. \A b \in Actors : HeldInv(b)'
    <2>1. CASE Finish(w)
      BY <1>1, <2>1, FinishHeld
    <2>2. CASE /\ pc' = [pc EXCEPT ![w] = "run"]
               /\ hand' = [hand EXCEPT ![w] = <<Head(pending)>>]
               /\ UNCHANGED <<toRemove, stamp, stats>>
      <3>1. pc'[w] = "run" /\ hand'[w] = <<Head(pending)>>
        BY <2>2 DEF TypeInv, TypeOK, LocalOK
      <3>2. HeldInv(w)'
        BY <1>1, <1>5, <3>1 DEF HeldInv, Waited
      <3>3. \A b \in Actors \ {w} : pc'[b] = pc[b] /\ hand'[b] = hand[b] /\ stamp'[b] = stamp[b]
        BY <2>2 DEF TypeInv, TypeOK, LocalOK
      <3> QED  BY <1>1, <3>2, <3>3, OthersHeld
    <2> QED  BY <2>1, <2>2 DEF Pop
  <1> QED  BY <1>1, <1>4, <1>6 DEF BackoffInv, DelayedInv, Ripens

LEMMA RunFailsBackoff ==
  ASSUME TypeInv, TypeInv', BackoffInv, NEW w \in Actors, RunFails(w)
  PROVE  BackoffInv'
  <1> DEFINE j == Head(hand[w])
  <1>1. \A b \in Actors \ {w} : pc'[b] = pc[b] /\ hand'[b] = hand[b] /\ stamp'[b] = stamp[b]
    BY DEF RunFails, Request, TypeInv, TypeOK, LocalOK
  <1>2. UNCHANGED <<pending, delayed, now>>
    BY DEF RunFails, redis
  <1>3. HeldInv(w)'
    <2>1. CASE /\ hand' = [hand EXCEPT ![w] = <<Retried(j)>>]
               /\ stamp' = [stamp EXCEPT ![w] = now + Backoff(j)]
               /\ Request(w, "zadd")
      <3>1. j \in Jobs
        BY HandType DEF RunFails, TypeInv, TypeOK
      <3>2. pc'[w] = "zadd" /\ hand'[w] = <<Retried(j)>> /\ stamp'[w] = now + Backoff(j)
        BY <2>1 DEF Request, TypeInv, TypeOK, LocalOK
      <3>3. Ripens(Retried(j), now + Backoff(j))
        BY <3>1, RetriedRipens DEF TypeInv
      <3>4. Ripens(hand'[w][1], stamp'[w])
        BY <3>2, <3>3
      <3> QED  BY <3>2, <3>4 DEF HeldInv, Ripens
    <2>2. CASE Request(w, "bury")
      BY <2>2 DEF Request, HeldInv, TypeInv, TypeOK, LocalOK
    <2> QED  BY <2>1, <2>2 DEF RunFails
  <1> QED  BY <1>1, <1>2, <1>3, LocalBackoff

\* The poller's step that matters: what it takes from the sorted set is due
\* at a time its clock has already shown.
LEMMA FetchDueBackoff ==
  ASSUME TypeInv, TypeInv', BackoffInv, NEW p \in Actors, FetchDue(p)
  PROVE  BackoffInv'
  <1>1. UNCHANGED <<pending, delayed, now>> /\ At(p, "zrange")
    BY DEF FetchDue, redis
  <1>2. CASE Finish(p)
    <2>1. \A b \in Actors : HeldInv(b)'
      BY <1>1, <1>2, FinishHeld
    <2>2. now' >= now
      BY <1>1 DEF TypeInv, TypeOK
    <2> QED  BY <1>1, <2>1, <2>2, PendingFrame DEF BackoffInv, DelayedInv, Ripens
  <1>3. ASSUME DueAt(stamp[p]) # {}, NEW s \in ByScore(DueAt(stamp[p])),
               hand' = [hand EXCEPT ![p] = JobsOf(s)],
               pc' = [pc EXCEPT ![p] = "zrem"],
               UNCHANGED stamp
        PROVE  BackoffInv'
    <2>1. DueAt(stamp[p]) \in SUBSET Entries /\ IsFiniteSet(DueAt(stamp[p]))
      BY FS_Subset DEF DueAt, TypeInv, TypeOK, RedisOK
    <2>2. \A i \in DOMAIN JobsOf(s) : \E e \in DueAt(stamp[p]) : JobsOf(s)[i] = e.job
      BY <1>3, <2>1, BatchType
    <2>3. stamp[p] \in Nat /\ now \in Nat /\ stamp[p] <= now
      BY <1>1 DEF At, BackoffInv, HeldInv, TypeInv, TypeOK, LocalOK
    <2>4. \A e \in DueAt(stamp[p]) : Waited(e.job)
      <3> TAKE e \in DueAt(stamp[p])
      <3>1. e.job \in Jobs /\ e.score \in Nat
        BY <2>1 DEF Entries
      <3>2. Ripens(e.job, e.score) /\ e.score <= stamp[p]
        BY DEF DueAt, Due, BackoffInv, DelayedInv
      <3> QED  BY <2>3, <3>1, <3>2, DueHasWaited
    <2>5. hand'[p] = JobsOf(s) /\ pc'[p] = "zrem"
      BY <1>3 DEF TypeInv, TypeOK, LocalOK
    <2>6. \A i \in DOMAIN hand'[p] : Waited(hand'[p][i])
      BY <2>2, <2>4, <2>5
    <2>7. HeldInv(p)'
      BY <1>1, <2>5, <2>6 DEF HeldInv, Waited
    <2>8. \A b \in Actors \ {p} : pc'[b] = pc[b] /\ hand'[b] = hand[b] /\ stamp'[b] = stamp[b]
      BY <1>3 DEF TypeInv, TypeOK, LocalOK
    <2> QED  BY <1>1, <2>7, <2>8, LocalBackoff
  <1> QED  BY <1>2, <1>3 DEF FetchDue

LEMMA ZRemBackoff ==
  ASSUME TypeInv, TypeInv', BackoffInv, NEW p \in Actors, ZRem(p)
  PROVE  BackoffInv'
  <1> DEFINE rest == Tail(toRemove[p])
  <1>1. UNCHANGED <<pending, now>> /\ delayed' \subseteq delayed
    BY DEF ZRem, Removed
  <1>2. now' >= now
    BY <1>1 DEF TypeInv, TypeOK
  <1>3. PendingInv' /\ DelayedInv'
    BY <1>1, <1>2, PendingFrame DEF BackoffInv, DelayedInv, Ripens
  <1>4. CASE Finish(p)
    BY <1>1, <1>3, <1>4, FinishHeld DEF BackoffInv
  <1>5. CASE /\ pc' = [pc EXCEPT ![p] = AfterZRem(rest)]
             /\ UNCHANGED <<lockq, hand, stamp, stats>>
    <2>1. pc'[p] \in {"zrem", "repush"}
      BY <1>5 DEF AfterZRem, TypeInv, TypeOK, LocalOK
    <2>2. \A i \in DOMAIN hand[p] : Waited(hand[p][i])
      BY DEF ZRem, At, BackoffInv, HeldInv
    <2>3. HeldInv(p)'
      BY <1>1, <1>5, <2>1, <2>2 DEF HeldInv, Waited
    <2>4. \A b \in Actors \ {p} : pc'[b] = pc[b] /\ hand'[b] = hand[b] /\ stamp'[b] = stamp[b]
      BY <1>5 DEF TypeInv, TypeOK, LocalOK
    <2> QED  BY <1>1, <1>3, <2>3, <2>4, OthersHeld DEF BackoffInv
  <1> QED  BY <1>4, <1>5 DEF ZRem

LEMMA RePushBackoff ==
  ASSUME TypeInv, TypeInv', BackoffInv, NEW p \in Actors, RePush(p)
  PROVE  BackoffInv'
  <1>1. UNCHANGED <<delayed, now>> /\ pc[p] = "repush"
    BY DEF RePush, At
  <1>2. hand[p] \in Seq(Jobs) /\ hand[p] # <<>>
    BY <1>1 DEF TypeInv, TypeOK, LocalOK, Equipped
  <1>3. \A i \in DOMAIN hand[p] : Waited(hand[p][i])
    BY <1>1 DEF BackoffInv, HeldInv
  <1>4. PendingInv'
    <2>1. 1 \in DOMAIN hand[p] /\ Head(hand[p]) = hand[p][1] /\ Head(hand[p]) \in Jobs
      BY <1>2
    <2>2. CASE pending' = Append(pending, Head(hand[p]))
      BY <1>1, <1>3, <2>1, <2>2, AppendWaited DEF BackoffInv
    <2>3. CASE UNCHANGED pending
      BY <1>1, <2>3, PendingFrame DEF BackoffInv, TypeInv, TypeOK
    <2> QED  BY <2>2, <2>3 DEF RePush
  <1>5. CASE Finish(p)
    BY <1>1, <1>4, <1>5, FinishHeld DEF BackoffInv, DelayedInv, Ripens
  <1>6. CASE /\ hand' = [hand EXCEPT ![p] = Tail(@)]
             /\ UNCHANGED <<lockq, pc, toRemove, stamp, stats>>
    <2>1. hand'[p] = Tail(hand[p]) /\ pc'[p] = "repush"
      BY <1>1, <1>6 DEF TypeInv, TypeOK, LocalOK
    <2>2. \A i \in DOMAIN Tail(hand[p]) : \E k \in DOMAIN hand[p] : Tail(hand[p])[i] = hand[p][k]
      BY <1>2, HeadTailProperties, LenProperties
    <2>3. \A i \in DOMAIN hand'[p] : Waited(hand'[p][i])
      BY <1>3, <2>1, <2>2
    <2>4. HeldInv(p)'
      BY <1>1, <2>1, <2>3 DEF HeldInv, Waited
    <2>5. \A b \in Actors \ {p} : pc'[b] = pc[b] /\ hand'[b] = hand[b] /\ stamp'[b] = stamp[b]
      BY <1>6 DEF TypeInv, TypeOK, LocalOK
    <2> QED  BY <1>1, <1>4, <2>4, <2>5, OthersHeld DEF BackoffInv, DelayedInv, Ripens
  <1> QED  BY <1>5, <1>6 DEF RePush

LEMMA StatsBackoff ==
  ASSUME TypeInv, TypeInv', BackoffInv, NEW m \in Actors, MonitorStep(m)
  PROVE  BackoffInv'
  <1>1. ASSUME NEW command, NEW next \in {"zcard", "ldead"}, NEW field, NEW value,
               ReadStat(m, command, field, value, next)
        PROVE  BackoffInv'
    <2>1. UNCHANGED <<pending, delayed, now>>
      BY <1>1 DEF ReadStat, redis
    <2>2. \A b \in Actors : HeldInv(b)'
      <3>1. CASE Finish(m)
        BY <2>1, <3>1, FinishHeld
      <3>2. CASE /\ pc' = [pc EXCEPT ![m] = next]
                 /\ UNCHANGED <<lockq, hand, toRemove, stamp>>
        <4>1. HeldInv(m)'
          BY <3>2 DEF HeldInv, TypeInv, TypeOK, LocalOK
        <4>2. \A b \in Actors \ {m} : pc'[b] = pc[b] /\ hand'[b] = hand[b] /\ stamp'[b] = stamp[b]
          BY <3>2 DEF TypeInv, TypeOK, LocalOK
        <4> QED  BY <2>1, <4>1, <4>2, OthersHeld
      <3> QED  BY <1>1, <3>1, <3>2 DEF ReadStat
    <2> QED  BY <2>1, <2>2, PendingFrame DEF BackoffInv, DelayedInv, Ripens, TypeInv, TypeOK
  <1>2. CASE LLenPending(m) \/ ZCard(m)
    BY <1>1, <1>2 DEF LLenPending, ZCard
  <1>3. CASE LLenDead(m)
    BY <1>3, LastCommandBackoff
  <1> QED  BY <1>2, <1>3 DEF MonitorStep

LEMMA CrashBackoff ==
  ASSUME TypeInv, TypeInv', BackoffInv, NEW p \in Procs, Crash(p)
  PROVE  BackoffInv'
  <1>1. UNCHANGED <<pending, delayed, now>> /\ now' >= now
    BY DEF Crash, redis, TypeInv, TypeOK
  <1>2. ASSUME NEW a \in Actors PROVE HeldInv(a)'
    <2>1. CASE Home[a] = p
      BY <2>1 DEF Crash, Cleared, HeldInv
    <2>2. CASE Home[a] # p
      BY <1>1, <2>2, HeldFrame DEF Crash, Cleared, BackoffInv
    <2> QED  BY <2>1, <2>2
  <1> QED  BY <1>1, <1>2, PendingFrame DEF BackoffInv, DelayedInv, Ripens

LEMMA TickBackoff ==
  ASSUME TypeInv, TypeInv', BackoffInv, Tick PROVE BackoffInv'
  <1>1. now' >= now /\ UNCHANGED <<pending, delayed, pc, hand, stamp>>
    BY DEF Tick, TypeInv, TypeOK, redis, local
  <1>2. \A a \in Actors : HeldInv(a)'
    BY <1>1, HeldFrame DEF BackoffInv
  <1> QED  BY <1>1, <1>2, PendingFrame DEF BackoffInv, DelayedInv, Ripens

LEMMA BackoffInit == Init => BackoffInv
  BY DEF Init, BackoffInv, PendingInv, DelayedInv, HeldInv

LEMMA BackoffNext == TypeInv /\ TypeInv' /\ BackoffInv /\ [Next]_vars => BackoffInv'
  <1> SUFFICES ASSUME TypeInv, TypeInv', BackoffInv, [Next]_vars PROVE BackoffInv'
    OBVIOUS
  <1>0. Clients \subseteq Actors /\ Workers \subseteq Actors
        /\ Pollers \subseteq Actors /\ Monitors \subseteq Actors
    BY DEF Actors
  <1>1. ASSUME NEW c \in Clients, NEW t \in Tasks,
               Enqueue(c, t) \/ \E d \in Delays : Schedule(c, t, d)
        PROVE  BackoffInv'
    BY <1>1, SubmitBackoff
  <1>2. ASSUME NEW c \in Clients, ClientStep(c) PROVE BackoffInv'
    BY <1>0, <1>2, LastCommandBackoff DEF ClientStep
  <1>3. ASSUME NEW w \in Workers, WorkerStep(w) PROVE BackoffInv'
    BY <1>0, <1>3, RequestBackoff, PopBackoff, RunFailsBackoff, LastCommandBackoff
    DEF WorkerStep
  <1>4. ASSUME NEW p \in Pollers, PollerStep(p) PROVE BackoffInv'
    BY <1>0, <1>4, RequestBackoff, FetchDueBackoff, ZRemBackoff, RePushBackoff
    DEF PollerStep
  <1>5. ASSUME NEW m \in Monitors, StartStats(m) \/ MonitorStep(m) PROVE BackoffInv'
    BY <1>0, <1>5, RequestBackoff, StatsBackoff
  <1>6. ASSUME NEW p \in Procs, Crash(p) PROVE BackoffInv'
    BY <1>6, CrashBackoff
  <1>7. CASE UNCHANGED vars
    BY <1>7 DEF vars, redis, local, BackoffInv, PendingInv, DelayedInv, HeldInv, Ripens, Waited
  <1> QED  BY <1>1, <1>2, <1>3, <1>4, <1>5, <1>6, <1>7, TickBackoff DEF Next

LEMMA BackoffImplies == TypeInv /\ BackoffInv => BackoffRespected
  <1> SUFFICES ASSUME TypeInv, BackoffInv, NEW j \in Available PROVE Waited(j)
    BY DEF BackoffRespected
  <1>1. CASE j \in {pending[i] : i \in DOMAIN pending}
    BY <1>1 DEF BackoffInv, PendingInv
  <1>2. ASSUME NEW w \in Workers, pc[w] = "run", j = hand[w][1] PROVE Waited(j)
    <2>1. w \in Actors
      BY DEF Actors
    <2>2. 1 \in DOMAIN hand[w]
      BY <1>2, <2>1 DEF TypeInv, TypeOK, LocalOK, Equipped
    <2> QED  BY <1>2, <2>1, <2>2 DEF BackoffInv, HeldInv
  <1> QED  BY <1>1, <1>2 DEF Available

\* No retry is offered to a worker, or run, before its backoff is over,
\* however many processes, pollers, failures and crashes there are.
THEOREM BackoffCorrect == Spec => []BackoffRespected
  <1> USE TypeInit, TypeNext, BackoffInit, BackoffNext
  <1>1. Init => TypeInv /\ BackoffInv
    OBVIOUS
  <1>2. TypeInv /\ BackoffInv /\ [Next]_vars => (TypeInv /\ BackoffInv)'
    OBVIOUS
  <1> QED  BY <1>1, <1>2, BackoffImplies, PTL DEF Spec

-----------------------------------------------------------------------------
(***************************************************************************)
(* get_queue_stats.  Within one process, whoever is past its first command *)
(* holds the mutex, and nobody else can change what it has read.           *)
(***************************************************************************)
OneProcess == \A p, q \in Procs : p = q

StatsOf(m) ==
    pc[m] \in {"zcard", "ldead"} =>
        /\ Holds(m)
        /\ stats[m].pending = Len(pending)
        /\ pc[m] = "ldead" => stats[m].delayed = Cardinality(delayed)

\* The holder of a mutex keeps it when nobody does anything to the queue, or
\* somebody joins it at the end.
LEMMA HolderStays ==
  ASSUME TypeInv, NEW m \in Actors, Holds(m), NEW a \in Actors,
         \/ UNCHANGED lockq
         \/ lockq' = [lockq EXCEPT ![Home[a]] = Append(@, a)]
  PROVE  Holds(m)'
  <1>1. Home[m] \in Procs /\ Home[a] \in Procs /\ lockq \in [Procs -> Seq(Actors)]
    BY HomeType DEF TypeInv, TypeOK, LocalOK
  <1>2. CASE UNCHANGED lockq
    BY <1>2 DEF Holds
  <1>3. CASE lockq' = [lockq EXCEPT ![Home[a]] = Append(@, a)]
    <2>1. CASE Home[a] # Home[m]
      BY <1>1, <1>3, <2>1 DEF Holds
    <2>2. CASE Home[a] = Home[m]
      <3> DEFINE q == lockq[Home[m]]
      <3>1. lockq'[Home[m]] = Append(q, a) /\ q \in Seq(Actors) /\ q # <<>>
        BY <1>1, <1>3, <2>2 DEF Holds
      <3>2. Append(q, a) # <<>> /\ Head(Append(q, a)) = Head(q)
        BY <3>1
      <3> QED  BY <3>1, <3>2 DEF Holds
    <2> QED  BY <2>1, <2>2
  <1> QED  BY <1>2, <1>3

\* Another actor that holds the mutex: then m is not past its first command.
LEMMA HolderActs ==
  ASSUME OneProcess, NEW m \in Actors, StatsOf(m), NEW a \in Actors \ {m}, Holds(a),
         pc'[m] = pc[m]
  PROVE  StatsOf(m)'
  <1>1. Home[a] = Home[m]
    BY HomeType DEF OneProcess
  <1>2. ~Holds(m)
    BY <1>1 DEF Holds
  <1> QED  BY <1>2 DEF StatsOf

\* Another actor that does not use Redis, and at most asks for the mutex.
LEMMA OtherWaits ==
  ASSUME TypeInv, NEW m \in Actors, StatsOf(m), NEW a \in Actors \ {m},
         UNCHANGED redis, pc'[m] = pc[m], stats'[m] = stats[m],
         \/ UNCHANGED lockq
         \/ lockq' = [lockq EXCEPT ![Home[a]] = Append(@, a)]
  PROVE  StatsOf(m)'
  <1>1. Holds(m) => Holds(m)'
    BY HolderStays
  <1> QED  BY <1>1 DEF StatsOf, redis

LEMMA ReadStats ==
  ASSUME TypeInv, NEW m \in Actors, StatsOf(m), MonitorStep(m)
  PROVE  StatsOf(m)'
  <1>1. pc \in [Actors -> PCs] /\ stats \in [Actors -> [pending : Nat, delayed : Nat]]
    BY DEF TypeInv, TypeOK, LocalOK
  <1>2. CASE LLenPending(m)
    BY <1>1, <1>2 DEF LLenPending, ReadStat, At, Finish, redis, Holds, StatsOf
  <1>3. CASE ZCard(m)
    BY <1>1, <1>3 DEF ZCard, ReadStat, At, Finish, redis, Holds, StatsOf
  <1>4. CASE LLenDead(m)
    BY <1>1, <1>4 DEF LLenDead, Finish, StatsOf
  <1> QED  BY <1>2, <1>3, <1>4 DEF MonitorStep

LEMMA StatsStep ==
  ASSUME OneProcess, TypeInv, NEW m \in Monitors, StatsOf(m), [Next]_vars
  PROVE  StatsOf(m)'
  <1>0. /\ m \in Actors /\ pc \in [Actors -> PCs]
        /\ stats \in [Actors -> [pending : Nat, delayed : Nat]]
        /\ Clients \subseteq Actors \ {m} /\ Workers \subseteq Actors \ {m}
        /\ Pollers \subseteq Actors \ {m} /\ Monitors \subseteq Actors
    BY KindsAssumption DEF Actors, TypeInv, TypeOK, LocalOK
  <1>1. ASSUME NEW c \in Clients, NEW t \in Tasks,
               Enqueue(c, t) \/ \E d \in Delays : Schedule(c, t, d)
        PROVE  StatsOf(m)'
    BY <1>0, <1>1, OtherWaits DEF Enqueue, Schedule, Submit, Request
  <1>2. ASSUME NEW a \in Actors \ {m}, Holds(a), Finish(a) PROVE StatsOf(m)'
    BY <1>0, <1>2, HolderActs DEF Finish
  <1>3. ASSUME NEW c \in Clients, ClientStep(c) PROVE StatsOf(m)'
    BY <1>0, <1>2, <1>3 DEF ClientStep, LPush, ZAdd, At
  <1>4. ASSUME NEW w \in Workers, WorkerStep(w) PROVE StatsOf(m)'
    <2>1. CASE RequestPop(w)
      BY <1>0, <2>1, OtherWaits DEF RequestPop, Request
    <2>2. CASE Pop(w)
      BY <1>0, <1>2, <2>2, HolderActs DEF Pop, At
    <2>3. CASE PopNothing(w) \/ ZAdd(w) \/ Bury(w)
      BY <1>0, <1>2, <2>3 DEF PopNothing, ZAdd, Bury, At
    <2>4. CASE RunOk(w)
      BY <1>0, <2>4, OtherWaits DEF RunOk
    <2>5. CASE RunFails(w)
      BY <1>0, <2>5, OtherWaits DEF RunFails, Request
    <2> QED  BY <1>4, <2>1, <2>2, <2>3, <2>4, <2>5 DEF WorkerStep
  <1>5. ASSUME NEW p \in Pollers, PollerStep(p) PROVE StatsOf(m)'
    <2>1. CASE StartPoll(p)
      BY <1>0, <2>1, OtherWaits DEF StartPoll, Request
    <2>2. CASE FetchDue(p) \/ ZRem(p) \/ RePush(p)
      <3>1. Holds(p) /\ pc'[m] = pc[m]
        BY <1>0, <2>2 DEF FetchDue, ZRem, RePush, At, Finish
      <3> QED  BY <1>0, <3>1, HolderActs
    <2> QED  BY <1>5, <2>1, <2>2 DEF PollerStep
  <1>6. ASSUME NEW n \in Monitors, StartStats(n) \/ MonitorStep(n) PROVE StatsOf(m)'
    <2>1. CASE n = m /\ MonitorStep(n)
      BY <1>0, <2>1, ReadStats
    <2>2. CASE n = m /\ StartStats(n)
      BY <1>0, <2>2 DEF StartStats, Request, StatsOf
    <2>3. CASE n # m /\ StartStats(n)
      BY <1>0, <2>3, OtherWaits DEF StartStats, Request
    <2>4. CASE n # m /\ MonitorStep(n)
      <3>1. Holds(n) /\ pc'[m] = pc[m]
        BY <1>0, <2>4 DEF MonitorStep, LLenPending, ZCard, LLenDead, ReadStat, At, Finish
      <3> QED  BY <1>0, <2>4, <3>1, HolderActs
    <2> QED  BY <1>6, <2>1, <2>2, <2>3, <2>4
  <1>7. ASSUME NEW p \in Procs, Crash(p) PROVE StatsOf(m)'
    <2>1. Home[m] = p
      BY <1>0, HomeType DEF OneProcess
    <2> QED  BY <1>0, <1>7, <2>1 DEF Crash, Cleared, StatsOf
  <1>8. CASE Tick
    BY <1>8 DEF Tick, redis, local, StatsOf, Holds
  <1>9. CASE UNCHANGED vars
    BY <1>9 DEF vars, redis, local, StatsOf, Holds
  <1> QED  BY <1>1, <1>3, <1>4, <1>5, <1>6, <1>7, <1>8, <1>9 DEF Next

\* In a deployment of one process, whatever fails, what get_queue_stats
\* returns describes one moment of the queue.
THEOREM StatsAtomicCorrect ==
  ASSUME OneProcess
  PROVE  Spec => []StatsAtomic
  <1>1. Init => \A m \in Monitors : StatsOf(m)
    BY DEF Init, StatsOf, Actors
  <1>2. TypeInv /\ (\A m \in Monitors : StatsOf(m)) /\ [Next]_vars
        => (\A m \in Monitors : StatsOf(m))'
    BY StatsStep
  <1>3. (\A m \in Monitors : StatsOf(m)) => StatsAtomic
    BY DEF StatsOf, StatsAtomic, At
  <1> QED  BY TypeInit, TypeNext, <1>1, <1>2, <1>3, PTL DEF Spec

-----------------------------------------------------------------------------
\* The jobs of a list.
LEMMA RangeOfAppend ==
  ASSUME NEW s \in Seq(Jobs), NEW j \in Jobs
  PROVE  Range(Append(s, j)) = Range(s) \union {j}
  <1>1. /\ Len(s) \in Nat /\ DOMAIN s = 1..Len(s) /\ DOMAIN Append(s, j) = 1..(Len(s) + 1)
        /\ \A k \in 1..Len(s) : Append(s, j)[k] = s[k]
        /\ Append(s, j)[Len(s) + 1] = j
    BY LenProperties, AppendProperties
  <1>2. \A k \in 1..Len(s) : k \in DOMAIN Append(s, j)
    BY <1>1
  <1>3. ASSUME NEW k \in Range(s) PROVE k \in Range(Append(s, j))
    BY <1>1, <1>2, <1>3 DEF Range
  <1>4. Len(s) + 1 \in DOMAIN Append(s, j)
    BY <1>1
  <1>5. j \in Range(Append(s, j))
    BY <1>1, <1>4 DEF Range
  <1>6. ASSUME NEW i \in DOMAIN Append(s, j) PROVE Append(s, j)[i] \in Range(s) \union {j}
    <2>1. i \in 1..(Len(s) + 1)
      BY <1>1, <1>6
    <2>2. CASE i = Len(s) + 1
      BY <1>1, <2>2
    <2>3. CASE i # Len(s) + 1
      <3>1. i \in DOMAIN s /\ Append(s, j)[i] = s[i]
        BY <1>1, <2>1, <2>3
      <3> QED  BY <3>1 DEF Range
    <2> QED  BY <2>2, <2>3
  <1>7. ASSUME NEW k \in Range(Append(s, j)) PROVE k \in Range(s) \union {j}
    BY <1>6, <1>7 DEF Range
  <1> QED  BY <1>3, <1>5, <1>7

LEMMA RangeOfTail ==
  ASSUME NEW s \in Seq(Jobs), s # <<>>
  PROVE  Range(s) = Range(Tail(s)) \union {Head(s)}
  <1>1. /\ Len(s) \in Nat /\ Len(s) > 0 /\ DOMAIN s = 1..Len(s)
        /\ DOMAIN Tail(s) = 1..(Len(s) - 1)
        /\ \A i \in 1..(Len(s) - 1) : Tail(s)[i] = s[i + 1]
        /\ Head(s) = s[1]
    BY LenProperties, HeadTailProperties, EmptySeq
  <1>2. ASSUME NEW i \in 1..Len(s) PROVE s[i] \in Range(Tail(s)) \union {Head(s)}
    <2>1. CASE i = 1
      BY <1>1, <2>1
    <2>2. CASE i # 1
      <3>1. i - 1 \in DOMAIN Tail(s) /\ Tail(s)[i - 1] = s[i]
        BY <1>1, <2>2
      <3> QED  BY <3>1 DEF Range
    <2> QED  BY <2>1, <2>2
  <1>3. \A i \in 1..(Len(s) - 1) : i + 1 \in 1..Len(s)
    BY <1>1
  <1>4. 1 \in DOMAIN s
    BY <1>1
  <1>5. Range(Tail(s)) \subseteq Range(s) /\ Head(s) \in Range(s)
    BY <1>1, <1>3, <1>4 DEF Range
  <1>6. Range(s) \subseteq Range(Tail(s)) \union {Head(s)}
    BY <1>1, <1>2 DEF Range
  <1> QED  BY <1>5, <1>6

-----------------------------------------------------------------------------
(***************************************************************************)
(* Counting.                                                               *)
(***************************************************************************)
LEMMA IndicesFinite ==
  ASSUME NEW s \in Seq(Jobs), NEW t
  PROVE  IsFiniteSet({i \in DOMAIN s : s[i].task = t}) /\ OfTask(s, t) \in Nat
  <1>1. Len(s) \in Nat /\ DOMAIN s = 1..Len(s)
    BY LenProperties
  <1>2. IsFiniteSet(1..Len(s))
    BY <1>1, FS_Interval
  <1>3. IsFiniteSet({i \in DOMAIN s : s[i].task = t})
    BY <1>1, <1>2, FS_Subset
  <1> QED  BY <1>3, FS_CardinalityType DEF OfTask

One(j, t) == IF j.task = t THEN 1 ELSE 0

\* An LPUSH adds a copy of the task of its job.
LEMMA CountAppend ==
  ASSUME NEW s \in Seq(Jobs), NEW j \in Jobs, NEW t
  PROVE  OfTask(Append(s, j), t) = OfTask(s, t) + One(j, t)
  <1> DEFINE S == {i \in DOMAIN s : s[i].task = t}
             T == {i \in DOMAIN Append(s, j) : Append(s, j)[i].task = t}
             n == Len(s) + 1
  <1>1. /\ Len(s) \in Nat /\ DOMAIN s = 1..Len(s) /\ DOMAIN Append(s, j) = 1..n
        /\ \A i \in 1..Len(s) : Append(s, j)[i] = s[i]
        /\ Append(s, j)[n] = j
    BY LenProperties, AppendProperties
  <1>2. n \notin S
    BY <1>1
  <1>3. OfTask(s, t) = Cardinality(S) /\ OfTask(Append(s, j), t) = Cardinality(T)
    BY DEF OfTask
  <1>4. IsFiniteSet(S) /\ OfTask(s, t) \in Nat
    BY IndicesFinite
  <1>5. CASE j.task = t
    <2>1. T = S \union {n}
      BY <1>1, <1>5
    <2> HIDE DEF S, T, n
    <2>2. Cardinality(S \union {n}) = Cardinality(S) + 1
      BY <1>2, <1>4, FS_AddElement
    <2> QED  BY <1>3, <1>5, <2>1, <2>2 DEF One
  <1>6. CASE j.task # t
    <2>1. T = S
      BY <1>1, <1>6
    <2> HIDE DEF S, T, n
    <2> QED  BY <1>3, <1>4, <1>6, <2>1 DEF One
  <1> QED  BY <1>5, <1>6

\* A BRPOP takes a copy of the task of the oldest job.
LEMMA CountTail ==
  ASSUME NEW s \in Seq(Jobs), s # <<>>, NEW t
  PROVE  OfTask(Tail(s), t) + One(Head(s), t) = OfTask(s, t)
  <1> DEFINE S == {i \in DOMAIN s : s[i].task = t}
             R == S \ {1}
             T == {i \in DOMAIN Tail(s) : Tail(s)[i].task = t}
             f == [i \in T |-> i + 1]
  <1>1. /\ Len(s) \in Nat /\ Len(s) > 0 /\ DOMAIN s = 1..Len(s)
        /\ Tail(s) \in Seq(Jobs) /\ DOMAIN Tail(s) = 1..(Len(s) - 1)
        /\ \A i \in 1..(Len(s) - 1) : Tail(s)[i] = s[i + 1]
        /\ Head(s) = s[1]
    BY LenProperties, HeadTailProperties, EmptySeq
  <1>2. \A i \in T : i \in Nat /\ i + 1 \in R
    BY <1>1
  <1>3. \A k \in R : k \in Nat /\ k - 1 \in T /\ (k - 1) + 1 = k
    BY <1>1
  <1>4. f \in Bijection(T, R)
    <2>1. f \in [T -> R]
      BY <1>2
    <2>2. \A a, b \in DOMAIN f : f[a] = f[b] => a = b
      BY <1>2
    <2>3. \A k \in R : f[k - 1] = k
      BY <1>3
    <2>4. \A k \in R : \E i \in T : f[i] = k
      BY <1>3, <2>3
    <2> HIDE DEF f, T, R
    <2> QED  BY <2>1, <2>2, <2>4 DEF Bijection, Injection, Surjection, IsInjective
  <1>5. Head(s).task = t <=> 1 \in S
    BY <1>1
  <1>6. Cardinality(T) = OfTask(Tail(s), t) /\ Cardinality(S) = OfTask(s, t)
    BY DEF OfTask
  <1>7. OfTask(Tail(s), t) \in Nat /\ OfTask(s, t) \in Nat /\ IsFiniteSet(T) /\ IsFiniteSet(S)
    BY <1>1, IndicesFinite
  <1> HIDE DEF f, T, R
  <1>8. Cardinality(T) = Cardinality(R)
    BY <1>4, <1>7, FS_Bijection DEF ExistsBijection
  <1> HIDE DEF S
  <1>9. Cardinality(R) = IF 1 \in S THEN Cardinality(S) - 1 ELSE Cardinality(S)
    BY <1>7, FS_RemoveElement DEF R
  <1> QED  BY <1>5, <1>6, <1>7, <1>8, <1>9 DEF One

-----------------------------------------------------------------------------
(***************************************************************************)
(* Who has which jobs.  Only a poller has more than one, each of them once, *)
(* and the sorted set holds a job once.                                    *)
(***************************************************************************)
Members == {e.job : e \in delayed}

Distinct == \A e, f \in delayed : e.job = f.job => e = f

Orderly(a) ==
    /\ pc[a] \in {"idle", "brpop", "zrange", "llen", "zcard", "ldead"} => hand[a] = <<>>
    /\ a \notin Pollers => toRemove[a] = <<>> /\ \A i \in DOMAIN hand[a] : i = 1
    /\ a \in Pollers =>
          /\ IsInjective(hand[a]) /\ IsInjective(toRemove[a])
          /\ pc[a] = "repush" => toRemove[a] = <<>>
          /\ Range(toRemove[a]) \subseteq Range(hand[a])

Tidy == Distinct /\ \A a \in Actors : Orderly(a)

\* One actor moves.
LEMMA OthersOrderly ==
  ASSUME Tidy, NEW a \in Actors, Orderly(a)', Distinct',
         \A b \in Actors \ {a} : /\ pc'[b] = pc[b] /\ hand'[b] = hand[b]
                                 /\ toRemove'[b] = toRemove[b]
  PROVE  Tidy'
  <1>1. ASSUME NEW b \in Actors \ {a} PROVE Orderly(b)'
    BY <1>1 DEF Tidy, Orderly
  <1> QED  BY <1>1 DEF Tidy

LEMMA FinishOrderly ==
  ASSUME TypeInv, NEW a \in Actors, Finish(a)
  PROVE  /\ Orderly(a)'
         /\ hand'[a] = <<>> /\ toRemove'[a] = <<>>
         /\ \A b \in Actors \ {a} : /\ pc'[b] = pc[b] /\ hand'[b] = hand[b]
                                    /\ toRemove'[b] = toRemove[b]
  <1>1. hand'[a] = <<>> /\ toRemove'[a] = <<>> /\ pc'[a] = "idle"
    BY DEF Finish, TypeInv, TypeOK, LocalOK
  <1>2. \A b \in Actors \ {a} : /\ pc'[b] = pc[b] /\ hand'[b] = hand[b]
                                /\ toRemove'[b] = toRemove[b]
    BY DEF Finish, TypeInv, TypeOK, LocalOK
  <1>3. Orderly(a)'
    BY <1>1 DEF Orderly, IsInjective, Range
  <1> QED  BY <1>1, <1>2, <1>3

LEMMA ScoredMembers ==
  ASSUME NEW j, NEW n, delayed' = Scored(j, n)
  PROVE  Members \subseteq Members'
  <1>1. ASSUME NEW e \in delayed PROVE \E f \in Scored(j, n) : f.job = e.job
    <2>1. CASE e.job # j
      BY <2>1 DEF Scored
    <2>2. CASE e.job = j
      <3>1. [job |-> j, score |-> n] \in Scored(j, n) /\ [job |-> j, score |-> n].job = j
        BY DEF Scored
      <3> QED  BY <2>2, <3>1
    <2> QED  BY <2>1, <2>2
  <1> QED  BY <1>1 DEF Members

\* The batch of a poll has no job twice.
LEMMA BatchOrderly ==
  ASSUME TypeInv, Distinct, NEW p \in Actors, NEW s \in ByScore(DueAt(stamp[p]))
  PROVE  IsInjective(JobsOf(s)) /\ Range(JobsOf(s)) \subseteq Members
  <1> DEFINE D == DueAt(stamp[p])
  <1>1. s \in [1..Cardinality(D) -> D] /\ IsInjective(s)
    BY DEF ByScore, SetToSeqs, IsInjective
  <1>2. DOMAIN JobsOf(s) = 1..Cardinality(D)
        /\ \A i \in 1..Cardinality(D) : JobsOf(s)[i] = s[i].job /\ s[i] \in delayed
    BY <1>1 DEF JobsOf, DueAt
  <1>3. \A i, k \in 1..Cardinality(D) : s[i].job = s[k].job => i = k
    BY <1>1, <1>2 DEF Distinct, IsInjective
  <1>4. IsInjective(JobsOf(s))
    BY <1>2, <1>3 DEF IsInjective
  <1> QED  BY <1>2, <1>4 DEF Range, Members

\* Without its first element an injective sequence is injective and does not
\* contain that element.
LEMMA InjectiveTail ==
  ASSUME NEW s \in Seq(Jobs), s # <<>>, IsInjective(s)
  PROVE  /\ IsInjective(Tail(s))
         /\ Range(Tail(s)) \subseteq Range(s) \ {Head(s)}
         /\ Head(s) \in Range(s)
         /\ Range(s) \subseteq Range(Tail(s)) \union {Head(s)}
  <1>1. /\ Len(s) \in Nat /\ Len(s) > 0 /\ DOMAIN s = 1..Len(s)
        /\ DOMAIN Tail(s) = 1..(Len(s) - 1)
        /\ \A i \in 1..(Len(s) - 1) : Tail(s)[i] = s[i + 1]
        /\ Head(s) = s[1]
    BY LenProperties, HeadTailProperties, EmptySeq
  <1>2. \A i, k \in 1..Len(s) : s[i] = s[k] => i = k
    BY <1>1 DEF IsInjective
  <1>3. IsInjective(Tail(s))
    BY <1>1, <1>2 DEF IsInjective
  <1>4. \A i \in 1..(Len(s) - 1) : i + 1 \in 1..Len(s) /\ i + 1 # 1
    BY <1>1
  <1>5. Range(Tail(s)) \subseteq Range(s) \ {Head(s)}
    BY <1>1, <1>2, <1>4 DEF Range
  <1>6. \A i \in 1..Len(s) : i = 1 \/ (i - 1 \in 1..(Len(s) - 1) /\ Tail(s)[i - 1] = s[i])
    BY <1>1
  <1>7. ASSUME NEW x \in Range(s) PROVE x \in Range(Tail(s)) \union {Head(s)}
    <2>1. PICK i \in 1..Len(s) : x = s[i]
      BY <1>1, <1>7 DEF Range
    <2>2. CASE i = 1
      BY <1>1, <2>1, <2>2
    <2>3. CASE i # 1
      <3>1. i - 1 \in DOMAIN Tail(s) /\ Tail(s)[i - 1] = x
        BY <1>1, <1>6, <2>1, <2>3
      <3> QED  BY <3>1 DEF Range
    <2> QED  BY <2>2, <2>3
  <1>8. Head(s) \in Range(s)
    <2>1. 1 \in DOMAIN s /\ s[1] = Head(s)
      BY <1>1
    <2> QED  BY <2>1 DEF Range
  <1> QED  BY <1>3, <1>5, <1>7, <1>8

LEMMA SubmitTidy ==
  ASSUME TypeInv, Tidy, NEW c \in Clients, NEW t \in Tasks,
         Enqueue(c, t) \/ \E d \in Delays : Schedule(c, t, d)
  PROVE  Tidy'
  <1>1. c \in Actors /\ c \notin Pollers
    BY KindsAssumption DEF Actors
  <1>2. hand'[c] = <<Fresh(t)>> /\ toRemove'[c] = toRemove[c] /\ pc'[c] \in {"lpush", "zadd"}
    BY <1>1 DEF Enqueue, Schedule, Submit, Request, TypeInv, TypeOK, LocalOK
  <1>3. \A b \in Actors \ {c} : /\ pc'[b] = pc[b] /\ hand'[b] = hand[b]
                                /\ toRemove'[b] = toRemove[b]
    BY <1>1 DEF Enqueue, Schedule, Submit, Request, TypeInv, TypeOK, LocalOK
  <1>4. delayed' = delayed
    BY DEF Enqueue, Schedule, Submit, redis
  <1>5. Orderly(c)'
    BY <1>1, <1>2 DEF Tidy, Orderly
  <1> QED  BY <1>1, <1>3, <1>4, <1>5, OthersOrderly DEF Tidy, Distinct, Members

\* A command of the actor's last step in a function: it drops everything.
LEMMA FinishTidy ==
  ASSUME TypeInv, Tidy, NEW a \in Actors, Finish(a), delayed' = delayed
  PROVE  Tidy'
  BY FinishOrderly, OthersOrderly DEF Tidy, Distinct, Members

LEMMA ZAddTidy ==
  ASSUME TypeInv, Tidy, NEW a \in Actors, ZAdd(a)
  PROVE  Tidy'
  <1>1. Distinct'
    BY DEF ZAdd, Scored, Tidy, Distinct
  <1> QED  BY <1>1, FinishOrderly, OthersOrderly DEF ZAdd

LEMMA RequestTidy ==
  ASSUME TypeInv, Tidy, NEW a \in Actors, RequestPop(a) \/ StartPoll(a) \/ StartStats(a)
  PROVE  Tidy'
  <1>1. /\ hand'[a] = hand[a] /\ toRemove'[a] = toRemove[a] /\ pc[a] = "idle"
        /\ pc'[a] \in {"brpop", "zrange", "llen"}
    BY DEF RequestPop, StartPoll, StartStats, Request, TypeInv, TypeOK, LocalOK
  <1>2. \A b \in Actors \ {a} : /\ pc'[b] = pc[b] /\ hand'[b] = hand[b]
                                /\ toRemove'[b] = toRemove[b]
    BY DEF RequestPop, StartPoll, StartStats, Request, TypeInv, TypeOK, LocalOK
  <1>3. delayed' = delayed
    BY DEF RequestPop, StartPoll, StartStats, redis
  <1>4. Orderly(a)'
    BY <1>1, <1>3 DEF Tidy, Orderly, Members
  <1> QED  BY <1>2, <1>3, <1>4, OthersOrderly DEF Tidy, Distinct, Members

LEMMA PopTidy ==
  ASSUME TypeInv, Tidy, NEW w \in Workers, Pop(w)
  PROVE  Tidy'
  <1>1. w \in Actors /\ w \notin Pollers /\ delayed' = delayed
    BY KindsAssumption DEF Pop, Actors
  <1>2. CASE Finish(w)
    BY <1>1, <1>2, FinishTidy
  <1>3. CASE /\ pc' = [pc EXCEPT ![w] = "run"]
             /\ hand' = [hand EXCEPT ![w] = <<Head(pending)>>]
             /\ UNCHANGED <<toRemove, stamp, stats>>
    <2>1. hand'[w] = <<Head(pending)>> /\ toRemove'[w] = toRemove[w] /\ pc'[w] = "run"
      BY <1>1, <1>3 DEF TypeInv, TypeOK, LocalOK
    <2>2. Orderly(w)'
      BY <1>1, <2>1 DEF Tidy, Orderly
    <2>3. \A b \in Actors \ {w} : /\ pc'[b] = pc[b] /\ hand'[b] = hand[b]
                                  /\ toRemove'[b] = toRemove[b]
      BY <1>1, <1>3 DEF TypeInv, TypeOK, LocalOK
    <2> QED  BY <1>1, <2>2, <2>3, OthersOrderly DEF Tidy, Distinct, Members
  <1> QED  BY <1>2, <1>3 DEF Pop

LEMMA RunTidy ==
  ASSUME TypeInv, Tidy, NEW w \in Workers, RunOk(w) \/ RunFails(w)
  PROVE  Tidy'
  <1>1. w \in Actors /\ w \notin Pollers /\ delayed' = delayed /\ toRemove' = toRemove
    BY KindsAssumption DEF RunOk, RunFails, Actors, redis
  <1>2. \A b \in Actors \ {w} : /\ pc'[b] = pc[b] /\ hand'[b] = hand[b]
                                /\ toRemove'[b] = toRemove[b]
    BY <1>1 DEF RunOk, RunFails, Request, TypeInv, TypeOK, LocalOK
  <1>3. Orderly(w)'
    <2>1. CASE RunOk(w)
      BY <1>1, <2>1 DEF RunOk, Tidy, Orderly, TypeInv, TypeOK, LocalOK
    <2>2. CASE RunFails(w)
      <3>1. pc'[w] \in {"zadd", "bury"}
            /\ (hand'[w] = hand[w] \/ hand'[w] = <<Retried(Head(hand[w]))>>)
        BY <1>1, <2>2 DEF RunFails, Request, TypeInv, TypeOK, LocalOK
      <3> QED  BY <1>1, <3>1 DEF Tidy, Orderly
    <2> QED  BY <2>1, <2>2
  <1> QED  BY <1>1, <1>2, <1>3, OthersOrderly DEF Tidy, Distinct, Members

LEMMA FetchDueTidy ==
  ASSUME TypeInv, Tidy, NEW p \in Pollers, FetchDue(p)
  PROVE  Tidy'
  <1>1. p \in Actors /\ delayed' = delayed
    BY DEF FetchDue, Actors, redis
  <1>2. CASE Finish(p)
    BY <1>1, <1>2, FinishTidy
  <1>3. ASSUME NEW s \in ByScore(DueAt(stamp[p])),
               hand' = [hand EXCEPT ![p] = JobsOf(s)],
               toRemove' = [toRemove EXCEPT ![p] = JobsOf(s)],
               pc' = [pc EXCEPT ![p] = "zrem"]
        PROVE  Tidy'
    <2>1. IsInjective(JobsOf(s)) /\ Range(JobsOf(s)) \subseteq Members
      BY <1>1, BatchOrderly DEF Tidy
    <2>2. hand'[p] = JobsOf(s) /\ toRemove'[p] = JobsOf(s) /\ pc'[p] = "zrem"
      BY <1>1, <1>3 DEF TypeInv, TypeOK, LocalOK
    <2>3. Members' = Members
      BY <1>1 DEF Members
    <2>4. Orderly(p)'
      BY <2>1, <2>2, <2>3 DEF Orderly
    <2>5. \A b \in Actors \ {p} : /\ pc'[b] = pc[b] /\ hand'[b] = hand[b]
                                  /\ toRemove'[b] = toRemove[b]
      BY <1>1, <1>3 DEF TypeInv, TypeOK, LocalOK
    <2> QED  BY <1>1, <2>3, <2>4, <2>5, OthersOrderly DEF Tidy, Distinct
  <1> QED  BY <1>2, <1>3 DEF FetchDue

LEMMA ZRemTidy ==
  ASSUME TypeInv, Tidy, NEW p \in Pollers, ZRem(p)
  PROVE  Tidy'
  <1> DEFINE j == Head(toRemove[p])
             rest == Tail(toRemove[p])
  <1>1. p \in Actors
    BY DEF Actors
  <1>2. toRemove[p] \in Seq(Jobs) /\ toRemove[p] # <<>> /\ IsInjective(toRemove[p])
        /\ IsInjective(hand[p]) /\ Range(toRemove[p]) \subseteq Range(hand[p])
    BY <1>1 DEF ZRem, At, Tidy, Orderly, TypeInv, TypeOK, LocalOK, Equipped
  <1>3. IsInjective(rest) /\ Range(rest) \subseteq Range(toRemove[p]) \ {j}
    BY <1>2, InjectiveTail
  <1>4. Distinct'
    BY DEF ZRem, Removed, Tidy, Distinct
  <1>5. CASE Finish(p)
    BY <1>1, <1>4, <1>5, FinishOrderly, OthersOrderly
  <1>6. CASE /\ delayed' = Removed(j)
             /\ toRemove' = [toRemove EXCEPT ![p] = rest]
             /\ pc' = [pc EXCEPT ![p] = AfterZRem(rest)]
             /\ UNCHANGED <<lockq, hand, stamp, stats>>
    <2>1. toRemove'[p] = rest /\ hand'[p] = hand[p] /\ pc'[p] = AfterZRem(rest)
      BY <1>1, <1>6 DEF TypeInv, TypeOK, LocalOK
    <2>2. Orderly(p)'
      BY <1>2, <1>3, <2>1 DEF Orderly, AfterZRem
    <2>3. \A b \in Actors \ {p} : /\ pc'[b] = pc[b] /\ hand'[b] = hand[b]
                                  /\ toRemove'[b] = toRemove[b]
      BY <1>1, <1>6 DEF TypeInv, TypeOK, LocalOK
    <2> QED  BY <1>1, <1>4, <2>2, <2>3, OthersOrderly
  <1> QED  BY <1>5, <1>6 DEF ZRem

LEMMA RePushTidy ==
  ASSUME TypeInv, Tidy, NEW p \in Pollers, RePush(p)
  PROVE  Tidy'
  <1>1. p \in Actors /\ delayed' = delayed
    BY DEF RePush, Actors
  <1>2. CASE Finish(p)
    BY <1>1, <1>2, FinishTidy
  <1>3. CASE /\ hand' = [hand EXCEPT ![p] = Tail(@)]
             /\ UNCHANGED <<lockq, pc, toRemove, stamp, stats>>
    <2>1. hand[p] \in Seq(Jobs) /\ hand[p] # <<>> /\ IsInjective(hand[p]) /\ pc[p] = "repush"
      BY <1>1 DEF RePush, At, Tidy, Orderly, TypeInv, TypeOK, LocalOK, Equipped
    <2>2. IsInjective(Tail(hand[p]))
      BY <2>1, InjectiveTail
    <2>3. hand'[p] = Tail(hand[p]) /\ toRemove'[p] = toRemove[p] /\ pc'[p] = pc[p]
      BY <1>1, <1>3 DEF TypeInv, TypeOK, LocalOK
    <2>4. Members' = Members
      BY <1>1 DEF Members
    <2>5. toRemove[p] = <<>> /\ Range(<<>>) = {}
      BY <1>1, <2>1 DEF Tidy, Orderly, Range
    <2>6. Orderly(p)'
      BY <1>1, <2>1, <2>2, <2>3, <2>5 DEF Tidy, Orderly
    <2>7. \A b \in Actors \ {p} : /\ pc'[b] = pc[b] /\ hand'[b] = hand[b]
                                  /\ toRemove'[b] = toRemove[b]
      BY <1>1, <1>3 DEF TypeInv, TypeOK, LocalOK
    <2> QED  BY <1>1, <2>4, <2>6, <2>7, OthersOrderly DEF Tidy, Distinct
  <1> QED  BY <1>2, <1>3 DEF RePush

LEMMA MonitorTidy ==
  ASSUME TypeInv, Tidy, NEW m \in Monitors, MonitorStep(m)
  PROVE  Tidy'
  <1>1. m \in Actors /\ m \notin Pollers /\ delayed' = delayed
    BY KindsAssumption DEF MonitorStep, LLenPending, ZCard, LLenDead, ReadStat, Actors, redis
  <1>2. CASE Finish(m)
    BY <1>1, <1>2, FinishTidy
  <1>3. CASE /\ \E next \in {"zcard", "ldead"} : pc' = [pc EXCEPT ![m] = next]
             /\ UNCHANGED <<lockq, hand, toRemove, stamp>>
    <2>0. pc[m] \in {"llen", "zcard", "ldead"} /\ hand[m] = <<>>
      BY <1>1 DEF MonitorStep, LLenPending, ZCard, LLenDead, ReadStat, At, Tidy, Orderly
    <2>1. Orderly(m)'
      BY <1>1, <1>3, <2>0 DEF Tidy, Orderly
    <2>2. \A b \in Actors \ {m} : /\ pc'[b] = pc[b] /\ hand'[b] = hand[b]
                                  /\ toRemove'[b] = toRemove[b]
      BY <1>1, <1>3 DEF TypeInv, TypeOK, LocalOK
    <2> QED  BY <1>1, <2>1, <2>2, OthersOrderly DEF Tidy, Distinct, Members
  <1> QED  BY <1>2, <1>3 DEF MonitorStep, LLenPending, ZCard, LLenDead, ReadStat

LEMMA CrashTidy ==
  ASSUME TypeInv, Tidy, NEW p \in Procs, Crash(p)
  PROVE  Tidy'
  <1>1. delayed' = delayed
    BY DEF Crash, redis
  <1>2. ASSUME NEW a \in Actors PROVE Orderly(a)'
    <2>1. CASE Home[a] = p
      <3>1. hand'[a] = <<>> /\ toRemove'[a] = <<>> /\ pc'[a] = "idle"
        BY <2>1 DEF Crash, Cleared
      <3> QED  BY <3>1 DEF Orderly, IsInjective, Range
    <2>2. CASE Home[a] # p
      <3>1. hand'[a] = hand[a] /\ toRemove'[a] = toRemove[a] /\ pc'[a] = pc[a]
        BY <2>2 DEF Crash, Cleared
      <3> QED  BY <1>1, <3>1 DEF Tidy, Orderly, Members
    <2> QED  BY <2>1, <2>2
  <1> QED  BY <1>1, <1>2 DEF Tidy, Distinct

LEMMA TidyNext ==
  ASSUME TypeInv, Tidy, [Next]_vars
  PROVE  Tidy'
  <1>0. Clients \subseteq Actors /\ Workers \subseteq Actors
        /\ Pollers \subseteq Actors /\ Monitors \subseteq Actors
    BY DEF Actors
  <1>1. ASSUME NEW c \in Clients, ClientStep(c) PROVE Tidy'
    BY <1>0, <1>1, ZAddTidy, FinishTidy DEF ClientStep, LPush
  <1>2. ASSUME NEW w \in Workers, WorkerStep(w) PROVE Tidy'
    <2>1. CASE PopNothing(w) \/ Bury(w)
      BY <1>0, <2>1, FinishTidy DEF PopNothing, Bury, redis
    <2> QED  BY <1>0, <1>2, <2>1, RequestTidy, PopTidy, RunTidy, ZAddTidy DEF WorkerStep
  <1>3. ASSUME NEW p \in Pollers, PollerStep(p) PROVE Tidy'
    BY <1>0, <1>3, RequestTidy, FetchDueTidy, ZRemTidy, RePushTidy DEF PollerStep
  <1>4. ASSUME NEW m \in Monitors, StartStats(m) \/ MonitorStep(m) PROVE Tidy'
    BY <1>0, <1>4, RequestTidy, MonitorTidy
  <1>5. CASE UNCHANGED vars \/ Tick
    BY <1>5 DEF Tick, vars, local, redis, Tidy, Distinct, Orderly, Members
  <1> QED  BY <1>1, <1>2, <1>3, <1>4, <1>5, SubmitTidy, CrashTidy DEF Next

-----------------------------------------------------------------------------
(***************************************************************************)
(* The copies in hand when one actor moves.                                *)
(***************************************************************************)
OthersKeep(a) == \A b \in Actors \ {a} : hand'[b] = hand[b] /\ toRemove'[b] = toRemove[b]

LEMMA InHandIs ==
  ASSUME NEW t, NEW x
  PROVE  x \in InHand(t) <=> \E a \in Actors : \E j \in Loose(a) : j.task = t /\ x = <<a, j>>
  BY DEF InHand

\* Only the pairs of the actor change.
LEMMA InHandMoves ==
  ASSUME NEW t, NEW a \in Actors, OthersKeep(a)
  PROVE  /\ \A x : x \in InHand(t)' <=> \/ x \in InHand(t) /\ x[1] # a
                                        \/ \E j \in Loose(a)' : j.task = t /\ x = <<a, j>>
         /\ \A x : x \in InHand(t)  <=> \/ x \in InHand(t) /\ x[1] # a
                                        \/ \E j \in Loose(a) : j.task = t /\ x = <<a, j>>
  <1>1. ASSUME NEW b \in Actors \ {a} PROVE Loose(b)' = Loose(b)
    BY <1>1 DEF OthersKeep, Loose
  <1>2. \A x : x \in InHand(t)' <=> \E b \in Actors : \E j \in Loose(b)' : j.task = t /\ x = <<b, j>>
    BY DEF InHand
  <1>3. ASSUME NEW x PROVE x \in InHand(t)' <=>
           \/ x \in InHand(t) /\ x[1] # a
           \/ \E j \in Loose(a)' : j.task = t /\ x = <<a, j>>
    BY <1>1, <1>2, InHandIs
  <1>4. ASSUME NEW x PROVE x \in InHand(t) <=>
           \/ x \in InHand(t) /\ x[1] # a
           \/ \E j \in Loose(a) : j.task = t /\ x = <<a, j>>
    BY InHandIs
  <1> QED  BY <1>3, <1>4

\* Nothing new, or nothing changed.
LEMMA Drops ==
  ASSUME NEW t, IsFiniteSet(InHand(t)), NEW a \in Actors, OthersKeep(a), Loose(a)' \subseteq Loose(a)
  PROVE  /\ IsFiniteSet(InHand(t)')
         /\ Cardinality(InHand(t)') <= Cardinality(InHand(t))
         /\ Loose(a)' = Loose(a) => Cardinality(InHand(t)') = Cardinality(InHand(t))
  <1>1. ASSUME NEW x \in InHand(t)' PROVE x \in InHand(t)
    BY <1>1, InHandMoves
  <1>2. ASSUME Loose(a)' = Loose(a), NEW x \in InHand(t) PROVE x \in InHand(t)'
    BY <1>2, InHandMoves
  <1>3. Loose(a)' = Loose(a) => InHand(t)' = InHand(t)
    BY <1>1, <1>2
  <1> QED  BY <1>1, <1>3, FS_Subset, FS_CardinalityType

\* One more.
LEMMA Takes ==
  ASSUME NEW t, IsFiniteSet(InHand(t)), NEW a \in Actors, OthersKeep(a),
         NEW j, j \notin Loose(a), Loose(a)' = Loose(a) \union {j}
  PROVE  /\ IsFiniteSet(InHand(t)')
         /\ Cardinality(InHand(t)') = Cardinality(InHand(t)) + One(j, t)
  <1>1. CASE j.task = t
    <2>1. InHand(t)' = InHand(t) \union {<<a, j>>}
      BY <1>1, InHandMoves
    <2>2. <<a, j>> \notin InHand(t)
      BY InHandIs
    <2>3. IsFiniteSet(InHand(t)') /\ Cardinality(InHand(t)') = Cardinality(InHand(t)) + 1
      BY <2>1, <2>2, FS_AddElement
    <2>4. One(j, t) = 1
      BY <1>1 DEF One
    <2> QED  BY <2>3, <2>4
  <1>2. CASE j.task # t
    <2>0. ASSUME NEW x PROVE x \in InHand(t)' <=> x \in InHand(t)
      BY <1>2, InHandMoves
    <2>1. InHand(t)' = InHand(t)
      BY <2>0
    <2>2. Cardinality(InHand(t)) \in Nat
      BY FS_CardinalityType
    <2> QED  BY <1>2, <2>1, <2>2 DEF One
  <1> QED  BY <1>1, <1>2

\* One less.
LEMMA Gives ==
  ASSUME NEW t, IsFiniteSet(InHand(t)), NEW a \in Actors, OthersKeep(a),
         NEW j \in Loose(a), Loose(a)' \subseteq Loose(a) \ {j}
  PROVE  /\ IsFiniteSet(InHand(t)')
         /\ Cardinality(InHand(t)') + One(j, t) <= Cardinality(InHand(t))
         /\ Loose(a)' = Loose(a) \ {j} =>
               Cardinality(InHand(t)') + One(j, t) = Cardinality(InHand(t))
  <1>0. Cardinality(InHand(t)) \in Nat
    BY FS_CardinalityType
  <1>1. CASE j.task = t
    <2> DEFINE S == InHand(t) \ {<<a, j>>}
    <2>1. InHand(t)' \subseteq S /\ (Loose(a)' = Loose(a) \ {j} => InHand(t)' = S)
      BY <1>1, InHandMoves
    <2>2. <<a, j>> \in InHand(t)
      BY <1>1, InHandIs
    <2>3. IsFiniteSet(S) /\ Cardinality(S) = Cardinality(InHand(t)) - 1
      BY <2>2, FS_RemoveElement
    <2> HIDE DEF S
    <2>4. /\ IsFiniteSet(InHand(t)') /\ Cardinality(InHand(t)') <= Cardinality(S)
          /\ Loose(a)' = Loose(a) \ {j} => Cardinality(InHand(t)') = Cardinality(S)
      BY <2>1, <2>3, FS_Subset
    <2>5. Cardinality(InHand(t)') \in Nat
      BY <2>4, FS_CardinalityType
    <2> QED  BY <1>0, <1>1, <2>3, <2>4, <2>5 DEF One
  <1>2. CASE j.task # t
    <2>0. ASSUME NEW x \in InHand(t)' PROVE x \in InHand(t)
      BY <2>0, InHandMoves
    <2>1. /\ InHand(t)' \subseteq InHand(t)
          /\ Loose(a)' = Loose(a) \ {j} => InHand(t)' = InHand(t)
      <3>1. ASSUME Loose(a)' = Loose(a) \ {j}, NEW x \in InHand(t) PROVE x \in InHand(t)'
        BY <1>2, <3>1, InHandMoves
      <3> QED  BY <2>0, <3>1
    <2>2. IsFiniteSet(InHand(t)') /\ Cardinality(InHand(t)') <= Cardinality(InHand(t))
      BY <2>1, FS_Subset
    <2>3. Cardinality(InHand(t)') \in Nat
      BY <2>2, FS_CardinalityType
    <2> QED  BY <1>0, <1>2, <2>1, <2>2, <2>3 DEF One
  <1> QED  BY <1>1, <1>2

\* One for another of the same task.
LEMMA Swaps ==
  ASSUME NEW t, IsFiniteSet(InHand(t)), NEW a \in Actors, OthersKeep(a),
         NEW j, Loose(a) = {j}, NEW k, Loose(a)' = {k}, k.task = j.task
  PROVE  IsFiniteSet(InHand(t)') /\ Cardinality(InHand(t)') = Cardinality(InHand(t))
  <1>1. CASE j.task # t
    <2>1. ASSUME NEW x PROVE x \in InHand(t)' <=> x \in InHand(t)
      BY <1>1, InHandMoves
    <2> QED  BY <2>1
  <1>2. CASE j.task = t
    <2> DEFINE S == {x \in InHand(t) : x[1] # a}
    <2>1. InHand(t) = S \union {<<a, j>>} /\ InHand(t)' = S \union {<<a, k>>}
      BY <1>2, InHandMoves
    <2>2. <<a, j>> \notin S /\ <<a, k>> \notin S /\ IsFiniteSet(S)
      BY FS_Subset
    <2> HIDE DEF S
    <2> QED  BY <2>1, <2>2, FS_AddElement
  <1> QED  BY <1>1, <1>2

LEMMA EmptyHand == ASSUME NEW a \in Actors, hand[a] = <<>> PROVE Loose(a) = {}
  BY DEF Loose, Range

LEMMA EmptyHandAfter == ASSUME NEW a \in Actors, hand'[a] = <<>> PROVE Loose(a)' = {}
  BY DEF Loose, Range

\* Clients and workers have one job, or none.
LEMMA SingleHand ==
  ASSUME TypeInv, Tidy, NEW a \in Actors, a \notin Pollers, hand[a] # <<>>
  PROVE  Loose(a) = {Head(hand[a])} /\ Head(hand[a]) \in Jobs
  <1>1. hand[a] \in Seq(Jobs) /\ toRemove[a] = <<>> /\ \A i \in DOMAIN hand[a] : i = 1
    BY DEF TypeInv, TypeOK, LocalOK, Tidy, Orderly
  <1>2. 1 \in DOMAIN hand[a] /\ Head(hand[a]) = hand[a][1] /\ hand[a][1] \in Jobs
    BY <1>1, LenProperties, EmptySeq, HeadTailProperties
  <1>3. Range(hand[a]) = {hand[a][1]} /\ Range(toRemove[a]) = {}
    BY <1>1, <1>2 DEF Range
  <1> QED  BY <1>2, <1>3 DEF Loose

LEMMA SingleHandAfter ==
  ASSUME Tidy, NEW a \in Actors, a \notin Pollers, toRemove' = toRemove,
         NEW j, hand'[a] = <<j>>
  PROVE  Loose(a)' = {j}
  <1>1. toRemove'[a] = <<>>
    BY DEF Tidy, Orderly
  <1>2. Range(<<j>>) = {j} /\ Range(<<>>) = {}
    BY DEF Range
  <1> QED  BY <1>1, <1>2 DEF Loose

-----------------------------------------------------------------------------
(***************************************************************************)
(* The account of one task: exact as long as nothing went wrong.           *)
(***************************************************************************)
Trouble == faults + crashes > 0

Calm == ~Trouble => \A p \in Procs : conn[p]

Accounted(t) == Copies(t) + done[t] + merged[t]

Books(t) ==
    /\ IsFiniteSet(InHand(t))
    /\ Accounted(t) <= Issued(t)
    /\ ~Trouble => Accounted(t) = Issued(t)

\* What a step does to the account of t.
Fair(t) ==
    /\ IsFiniteSet(InHand(t)')
    /\ Accounted(t)' + Issued(t) <= Accounted(t) + Issued(t)'
    /\ ~Trouble' => Accounted(t)' + Issued(t) = Accounted(t) + Issued(t)'

Numbers(t) ==
    /\ OfTask(pending, t) \in Nat /\ OfTask(dead, t) \in Nat
    /\ IsFiniteSet(Scheduled(t)) /\ Cardinality(Scheduled(t)) \in Nat
    /\ Cardinality(InHand(t)) \in Nat
    /\ done[t] \in Nat /\ merged[t] \in Nat /\ Issued(t) \in Nat

LEMMA NumbersType ==
  ASSUME TypeInv, NEW t \in Tasks, IsFiniteSet(InHand(t))
  PROVE  Numbers(t)
  <1>1. IsFiniteSet(Scheduled(t))
    BY FS_Subset DEF Scheduled, TypeInv
  <1>2. OfTask(pending, t) \in Nat /\ OfTask(dead, t) \in Nat
    BY IndicesFinite DEF TypeInv, TypeOK, RedisOK
  <1>3. /\ done[t] \in Nat /\ merged[t] \in Nat
        /\ submitted[t] \in Nat /\ doubled[t] \in Nat
    BY DEF TypeInv, TypeOK, HistoryOK
  <1>4. Issued(t) \in Nat
    BY <1>3 DEF Issued
  <1> QED  BY <1>1, <1>2, <1>3, <1>4, FS_CardinalityType DEF Numbers

LEMMA NumbersAfter ==
  ASSUME TypeInv', NEW t \in Tasks, IsFiniteSet(InHand(t)')
  PROVE  Numbers(t)'
  <1>1. IsFiniteSet(Scheduled(t)')
    BY FS_Subset DEF Scheduled, TypeInv
  <1>2. OfTask(pending', t) \in Nat /\ OfTask(dead', t) \in Nat
    BY IndicesFinite DEF TypeInv, TypeOK, RedisOK
  <1>3. OfTask(pending, t)' \in Nat /\ OfTask(dead, t)' \in Nat
    BY <1>2 DEF OfTask
  <1>4. /\ done'[t] \in Nat /\ merged'[t] \in Nat
        /\ submitted'[t] \in Nat /\ doubled'[t] \in Nat
    BY DEF TypeInv, TypeOK, HistoryOK
  <1>5. Issued(t)' \in Nat
    BY <1>4 DEF Issued
  <1> QED  BY <1>1, <1>3, <1>4, <1>5, FS_CardinalityType DEF Numbers

\* A command without an answer is trouble.
LEMMA Unanswered ==
  ASSUME TypeInv, Calm, NEW a \in Actors, ReplyLost(a) \/ Refused(a), UNCHANGED crashes
  PROVE  Trouble'
  <1>1. faults \in Nat /\ crashes \in Nat /\ Home[a] \in Procs
    BY HomeType, FaultAssumption, CrashAssumption DEF TypeInv, TypeOK, NetOK
  <1>2. CASE faults' = faults + 1
    BY <1>1, <1>2 DEF Trouble
  <1>3. CASE ~conn[Home[a]] /\ UNCHANGED net
    BY <1>1, <1>3 DEF Calm, Trouble, net
  <1> QED  BY <1>2, <1>3 DEF ReplyLost, Refused

\* A step that changes nothing but the hand of one actor.
LEMMA QuietFair ==
  ASSUME TypeInv, TypeInv', NEW t \in Tasks, IsFiniteSet(InHand(t)), IsFiniteSet(InHand(t)'),
         Cardinality(InHand(t)') <= Cardinality(InHand(t)),
         Cardinality(InHand(t)') = Cardinality(InHand(t)) \/ Trouble',
         UNCHANGED <<pending, delayed, dead, done, merged, submitted, doubled>>
  PROVE  Fair(t)
  <1>1. Numbers(t) /\ Numbers(t)'
    BY NumbersType, NumbersAfter
  <1>2. OfTask(pending, t)' = OfTask(pending, t) /\ OfTask(dead, t)' = OfTask(dead, t)
        /\ Scheduled(t)' = Scheduled(t) /\ Issued(t)' = Issued(t)
    BY DEF OfTask, Scheduled, Issued
  <1> QED  BY <1>1, <1>2 DEF Fair, Accounted, Copies, Numbers

\* Returning without an answer, and with no effect on the lists and the set.
LEMMA QuietFinish ==
  ASSUME TypeInv, TypeInv', NEW t \in Tasks, IsFiniteSet(InHand(t)), NEW a \in Actors, Finish(a),
         Loose(a) = {} \/ Trouble',
         UNCHANGED <<pending, delayed, dead, done, merged, submitted, doubled>>
  PROVE  Fair(t)
  <1>1. OthersKeep(a) /\ Loose(a)' = {}
    BY FinishOrderly, EmptyHandAfter DEF OthersKeep
  <1>2. /\ IsFiniteSet(InHand(t)') /\ Cardinality(InHand(t)') <= Cardinality(InHand(t))
        /\ Cardinality(InHand(t)') = Cardinality(InHand(t)) \/ Trouble'
    BY <1>1, Drops
  <1> QED  BY <1>2, QuietFair

LEMMA SubmitFair ==
  ASSUME TypeInv, TypeInv', Tidy, NEW t \in Tasks, IsFiniteSet(InHand(t)),
         NEW c \in Clients, NEW u \in Tasks,
         Enqueue(c, u) \/ \E d \in Delays : Schedule(c, u, d)
  PROVE  Fair(t)
  <1>1. c \in Actors /\ c \notin Pollers /\ hand[c] = <<>>
    BY KindsAssumption DEF Enqueue, Schedule, MaySubmit, Tidy, Orderly, Actors
  <1>2. OthersKeep(c) /\ hand'[c] = <<Fresh(u)>> /\ toRemove' = toRemove
    BY <1>1 DEF Enqueue, Schedule, Submit, OthersKeep, TypeInv, TypeOK, LocalOK
  <1>3. Loose(c) = {} /\ Loose(c)' = {Fresh(u)}
    BY <1>1, <1>2, EmptyHand, SingleHandAfter
  <1>4. IsFiniteSet(InHand(t)')
        /\ Cardinality(InHand(t)') = Cardinality(InHand(t)) + One(Fresh(u), t)
    BY <1>1, <1>2, <1>3, Takes
  <1>5. Issued(t)' = Issued(t) + One(Fresh(u), t)
    <2>1. /\ submitted' = [submitted EXCEPT ![u] = @ + 1] /\ submitted \in [Tasks -> Nat]
          /\ doubled' = doubled /\ doubled[t] \in Nat
      BY DEF Enqueue, Schedule, Submit, TypeInv, TypeOK, HistoryOK
    <2>2. One(Fresh(u), t) = IF u = t THEN 1 ELSE 0
      BY DEF One, Fresh
    <2> QED  BY <2>1, <2>2 DEF Issued
  <1>6. /\ OfTask(pending, t)' = OfTask(pending, t) /\ OfTask(dead, t)' = OfTask(dead, t)
        /\ Scheduled(t)' = Scheduled(t) /\ done' = done /\ merged' = merged
    BY DEF Enqueue, Schedule, Submit, redis, OfTask, Scheduled
  <1>7. Numbers(t) /\ Numbers(t)' /\ One(Fresh(u), t) \in Nat
    BY <1>4, NumbersType, NumbersAfter DEF One
  <1> QED  BY <1>4, <1>5, <1>6, <1>7 DEF Fair, Accounted, Copies, Numbers

\* A command takes effect and the job j leaves the hand.  What is added
\* elsewhere, `p` to the main list, `d` to the dead letters, `z` to the
\* sorted set and `m` to the merges, makes up for it.
LEMMA PutAway ==
  ASSUME TypeInv, TypeInv', NEW t \in Tasks, IsFiniteSet(InHand(t)), NEW a \in Actors,
         OthersKeep(a), NEW j \in Loose(a), Loose(a)' \subseteq Loose(a) \ {j},
         Loose(a)' = Loose(a) \ {j} \/ Trouble',
         NEW p \in Nat, NEW d \in Nat, NEW z \in Nat, NEW m \in Nat,
         p + d + z + m = One(j, t),
         OfTask(pending', t) = OfTask(pending, t) + p,
         OfTask(dead', t) = OfTask(dead, t) + d,
         Cardinality(Scheduled(t)') = Cardinality(Scheduled(t)) + z,
         merged'[t] = merged[t] + m,
         UNCHANGED <<done, submitted, doubled>>
  PROVE  Fair(t)
  <1>1. /\ IsFiniteSet(InHand(t)')
        /\ Cardinality(InHand(t)') + One(j, t) <= Cardinality(InHand(t))
        /\ Cardinality(InHand(t)') + One(j, t) = Cardinality(InHand(t)) \/ Trouble'
    BY Gives
  <1>2. Numbers(t) /\ Numbers(t)' /\ One(j, t) \in Nat
    BY <1>1, NumbersType, NumbersAfter DEF One
  <1>3. OfTask(pending, t)' = OfTask(pending', t) /\ OfTask(dead, t)' = OfTask(dead', t)
    BY DEF OfTask
  <1>4. /\ OfTask(pending, t)' = OfTask(pending, t) + p
        /\ OfTask(dead, t)' = OfTask(dead, t) + d
        /\ merged[t]' = merged[t] + m /\ done[t]' = done[t] /\ Issued(t)' = Issued(t)
    BY <1>3 DEF Issued
  <1>5. Accounted(t) + One(j, t) + Cardinality(InHand(t)')
        = Accounted(t)' + Cardinality(InHand(t))
    <2> DEFINE e == OfTask(pending, t)
               f == OfTask(dead, t)
               s == Cardinality(Scheduled(t))
               h == Cardinality(InHand(t))
               g == Cardinality(InHand(t)')
               u == done[t]
               v == merged[t]
               o == One(j, t)
    <2>1. Accounted(t) = e + f + s + h + u + v
      BY DEF Accounted, Copies
    <2>2. Accounted(t)' = (e + p) + (f + d) + (s + z) + g + u + (v + m)
      BY <1>4 DEF Accounted, Copies
    <2>3. /\ e \in Nat /\ f \in Nat /\ s \in Nat /\ h \in Nat /\ g \in Nat
          /\ u \in Nat /\ v \in Nat /\ o \in Nat /\ o = p + d + z + m
      BY <1>2 DEF Numbers
    <2> HIDE DEF e, f, s, h, g, u, v, o
    <2>4. (e + f + s + h + u + v) + o + g = ((e + p) + (f + d) + (s + z) + g + u + (v + m)) + h
      BY <2>3
    <2> QED  BY <2>1, <2>2, <2>4 DEF h, g, o
  <1>6. /\ Accounted(t) \in Nat /\ Accounted(t)' \in Nat /\ Issued(t) \in Nat
        /\ Cardinality(InHand(t)) \in Nat /\ Cardinality(InHand(t)') \in Nat
    BY <1>2 DEF Accounted, Copies, Numbers
  <1> HIDE DEF Accounted
  <1> QED  BY <1>1, <1>2, <1>4, <1>5, <1>6 DEF Fair

\* A ZADD adds a member, or counts as a merge.
LEMMA CountScored ==
  ASSUME TypeInv, Distinct, NEW t \in Tasks, NEW j \in Jobs, NEW n \in Nat, delayed' = Scored(j, n)
  PROVE  Cardinality(Scheduled(t)') + (IF j.task = t THEN Merges(j) ELSE 0)
         = Cardinality(Scheduled(t)) + One(j, t)
  <1> DEFINE new == [job |-> j, score |-> n]
             S == {e \in Scheduled(t) : e.job # j}
  <1>1. IsFiniteSet(Scheduled(t)) /\ IsFiniteSet(S)
    BY FS_Subset DEF Scheduled, TypeInv
  <1>2. Cardinality(Scheduled(t)) \in Nat
    BY <1>1, FS_CardinalityType
  <1>3. CASE j.task # t
    <2>1. Scheduled(t)' = Scheduled(t)
      BY <1>3 DEF Scheduled, Scored
    <2> QED  BY <1>2, <1>3, <2>1 DEF One
  <1>4. CASE j.task = t
    <2>1. Scheduled(t)' = S \union {new} /\ new \notin S
      BY <1>4 DEF Scheduled, Scored
    <2>2. Cardinality(Scheduled(t)') = Cardinality(S) + 1
      BY <1>1, <2>1, FS_AddElement
    <2>3. CASE \E e \in delayed : e.job = j
      <3>1. PICK e \in delayed : e.job = j
        BY <2>3
      <3>2. e \in Scheduled(t) /\ S = Scheduled(t) \ {e}
        BY <1>4, <3>1 DEF Scheduled, Distinct
      <3>3. Cardinality(S) = Cardinality(Scheduled(t)) - 1
        BY <1>1, <3>2, FS_RemoveElement
      <3>4. Merges(j) = 1
        BY <2>3 DEF Merges
      <3> QED  BY <1>2, <1>4, <2>2, <3>3, <3>4 DEF One
    <2>4. CASE ~ \E e \in delayed : e.job = j
      <3>1. S = Scheduled(t) /\ Merges(j) = 0
        BY <2>4 DEF Scheduled, Merges
      <3> QED  BY <1>2, <1>4, <2>2, <3>1 DEF One
    <2> QED  BY <2>3, <2>4
  <1> QED  BY <1>3, <1>4

\* LPUSH, ZADD and the dead letter's LPUSH: the job in hand is put away once.
LEMMA StoreFair ==
  ASSUME TypeInv, TypeInv', Tidy, Calm, NEW t \in Tasks, IsFiniteSet(InHand(t)),
         NEW a \in Actors, a \notin Pollers, LPush(a) \/ ZAdd(a) \/ Bury(a)
  PROVE  Fair(t)
  <1> DEFINE j == Head(hand[a])
  <1>1. Loose(a) = {j} /\ j \in Jobs
    BY SingleHand DEF LPush, ZAdd, Bury, At, TypeInv, Equipped
  <1>2. Finish(a) /\ UNCHANGED <<done, submitted, doubled, crashes>> /\ Tidy /\ Distinct
    BY DEF LPush, ZAdd, Bury, history, Tidy
  <1>3. OthersKeep(a) /\ Loose(a)' = {}
    BY <1>2, FinishOrderly, EmptyHandAfter DEF OthersKeep
  <1>4. Loose(a)' = Loose(a) \ {j} /\ One(j, t) \in Nat
    BY <1>1, <1>3 DEF One
  <1>5. Numbers(t)
    BY NumbersType
  <1>6. CASE Refused(a) /\ UNCHANGED <<pending, delayed, dead, merged>>
    BY <1>2, <1>6, QuietFinish, Unanswered
  <1>7. CASE pending' = Append(pending, j) /\ UNCHANGED <<delayed, dead, merged>>
    <2>1. OfTask(pending', t) = OfTask(pending, t) + One(j, t)
      BY <1>1, <1>7, CountAppend DEF TypeInv, TypeOK, RedisOK
    <2>2. OfTask(dead', t) = OfTask(dead, t) + 0 /\ merged'[t] = merged[t] + 0
          /\ Cardinality(Scheduled(t)') = Cardinality(Scheduled(t)) + 0
      BY <1>5, <1>7 DEF Numbers, Scheduled
    <2>3. One(j, t) + 0 + 0 + 0 = One(j, t)
      BY <1>4
    <2> HIDE DEF j
    <2> QED  BY <1>1, <1>2, <1>3, <1>4, <2>1, <2>2, <2>3, PutAway
  <1>8. CASE dead' = Append(dead, j) /\ UNCHANGED <<delayed, pending, merged>>
    <2>1. OfTask(dead', t) = OfTask(dead, t) + One(j, t)
      BY <1>1, <1>8, CountAppend DEF TypeInv, TypeOK, RedisOK
    <2>2. OfTask(pending', t) = OfTask(pending, t) + 0 /\ merged'[t] = merged[t] + 0
          /\ Cardinality(Scheduled(t)') = Cardinality(Scheduled(t)) + 0
      BY <1>5, <1>8 DEF Numbers, Scheduled
    <2>3. 0 + One(j, t) + 0 + 0 = One(j, t)
      BY <1>4
    <2> HIDE DEF j
    <2> QED  BY <1>1, <1>2, <1>3, <1>4, <2>1, <2>2, <2>3, PutAway
  <1>9. CASE /\ delayed' = Scored(j, stamp[a]) /\ UNCHANGED <<pending, dead>>
             /\ merged' = [merged EXCEPT ![j.task] = @ + Merges(j)]
    <2> DEFINE m == IF j.task = t THEN Merges(j) ELSE 0
    <2>1. Cardinality(Scheduled(t)') + m = Cardinality(Scheduled(t)) + One(j, t)
      <3>1. stamp[a] \in Nat
        BY DEF TypeInv, TypeOK, LocalOK
      <3> QED  BY <1>1, <1>2, <1>9, <3>1, CountScored
    <2>2. m \in Nat /\ m <= One(j, t)
      BY DEF Merges, One
    <2>3. merged'[t] = merged[t] + m
      BY <1>1, <1>5, <1>9 DEF Numbers, Jobs, TypeInv, TypeOK, HistoryOK
    <2>4. IsFiniteSet(Scheduled(t)')
      BY FS_Subset DEF Scheduled, TypeInv
    <2>5. Cardinality(Scheduled(t)') \in Nat
      BY <2>4, FS_CardinalityType
    <2>6. OfTask(pending', t) = OfTask(pending, t) + 0 /\ OfTask(dead', t) = OfTask(dead, t) + 0
      BY <1>5, <1>9 DEF Numbers
    <2> HIDE DEF j, m
    <2>7. /\ One(j, t) - m \in Nat /\ 0 + 0 + (One(j, t) - m) + m = One(j, t)
          /\ Cardinality(Scheduled(t)') = Cardinality(Scheduled(t)) + (One(j, t) - m)
      BY <1>4, <1>5, <2>1, <2>2, <2>5 DEF Numbers
    <2> QED  BY <1>1, <1>2, <1>3, <1>4, <2>2, <2>3, <2>6, <2>7, PutAway
  <1> QED  BY <1>6, <1>7, <1>8, <1>9 DEF LPush, ZAdd, Bury, DeadLetter, history

\* The hand of an actor at rest does not change.
LEMMA RequestFair ==
  ASSUME TypeInv, TypeInv', NEW t \in Tasks, IsFiniteSet(InHand(t)), NEW a \in Actors,
         RequestPop(a) \/ StartPoll(a) \/ StartStats(a)
  PROVE  Fair(t)
  <1>1. UNCHANGED <<hand, toRemove, pending, delayed, dead, done, merged, submitted, doubled>>
    BY DEF RequestPop, StartPoll, StartStats, redis, history
  <1>2. OthersKeep(a) /\ Loose(a)' = Loose(a)
    BY <1>1 DEF OthersKeep, Loose
  <1> QED  BY <1>1, <1>2, Drops, QuietFair

\* BRPOP moves the oldest job to the worker's hand, or drops it.
LEMMA PopFair ==
  ASSUME TypeInv, TypeInv', Tidy, Calm, NEW t \in Tasks, IsFiniteSet(InHand(t)),
         NEW w \in Workers, Pop(w)
  PROVE  Fair(t)
  <1> DEFINE j == Head(pending)
  <1>1. w \in Actors /\ w \notin Pollers /\ hand[w] = <<>>
    BY KindsAssumption DEF Pop, At, Tidy, Orderly, Actors
  <1>2. /\ UNCHANGED <<delayed, dead, done, merged, submitted, doubled, crashes>>
        /\ pending' = Tail(pending) /\ pending \in Seq(Jobs) /\ pending # <<>>
    BY DEF Pop, history, TypeInv, TypeOK, RedisOK
  <1>3. OfTask(pending', t) + One(j, t) = OfTask(pending, t)
    BY <1>2, CountTail
  <1>4. /\ IsFiniteSet(InHand(t)')
        /\ Cardinality(InHand(t)') <= Cardinality(InHand(t)) + One(j, t)
        /\ Cardinality(InHand(t)') = Cardinality(InHand(t)) + One(j, t) \/ Trouble'
    <2>1. CASE ReplyLost(w) /\ Finish(w)
      <3>1. OthersKeep(w) /\ Loose(w)' = {}
        BY <1>1, <2>1, FinishOrderly, EmptyHandAfter DEF OthersKeep
      <3>2. IsFiniteSet(InHand(t)') /\ Cardinality(InHand(t)') <= Cardinality(InHand(t))
        BY <1>1, <3>1, Drops
      <3>3. Cardinality(InHand(t)) \in Nat /\ Cardinality(InHand(t)') \in Nat /\ One(j, t) \in Nat
        BY <3>2, FS_CardinalityType DEF One
      <3>4. Trouble'
        BY <1>1, <1>2, <2>1, Unanswered
      <3> HIDE DEF j
      <3> QED  BY <3>2, <3>3, <3>4
    <2>2. CASE hand' = [hand EXCEPT ![w] = <<j>>] /\ UNCHANGED <<toRemove, stamp, stats>>
      <3>1. OthersKeep(w) /\ hand'[w] = <<j>>
        BY <1>1, <2>2 DEF OthersKeep, TypeInv, TypeOK, LocalOK
      <3>2. Loose(w) = {} /\ Loose(w)' = {j}
        BY <1>1, <2>2, <3>1, EmptyHand, SingleHandAfter
      <3>3. IsFiniteSet(InHand(t)')
            /\ Cardinality(InHand(t)') = Cardinality(InHand(t)) + One(j, t)
        BY <1>1, <3>1, <3>2, Takes
      <3>4. Cardinality(InHand(t)') \in Nat
        BY <3>3, FS_CardinalityType
      <3> HIDE DEF j
      <3> QED  BY <3>3, <3>4
    <2> QED  BY <2>1, <2>2 DEF Pop
  <1>5. Numbers(t) /\ Numbers(t)' /\ One(j, t) \in Nat
    BY <1>4, NumbersType, NumbersAfter DEF One
  <1>6. /\ OfTask(pending, t)' = OfTask(pending', t) /\ OfTask(dead, t)' = OfTask(dead, t)
        /\ Scheduled(t)' = Scheduled(t)
        /\ done' = done /\ merged' = merged /\ Issued(t)' = Issued(t)
    BY <1>2 DEF OfTask, Scheduled, Issued
  <1> HIDE DEF j
  <1> QED  BY <1>3, <1>4, <1>5, <1>6 DEF Fair, Accounted, Copies, Numbers

\* A run that succeeds turns the job in hand into a success; one that fails
\* turns it into another job of the same task.
LEMMA RunFair ==
  ASSUME TypeInv, TypeInv', Tidy, NEW t \in Tasks, IsFiniteSet(InHand(t)), NEW w \in Workers,
         RunOk(w) \/ RunFails(w)
  PROVE  Fair(t)
  <1> DEFINE j == Head(hand[w])
  <1>1. w \in Actors /\ w \notin Pollers /\ hand[w] # <<>>
    BY KindsAssumption DEF Actors, RunOk, RunFails, TypeInv, Equipped
  <1>2. Loose(w) = {j} /\ j \in Jobs
    BY <1>1, SingleHand
  <1>3. UNCHANGED <<pending, delayed, dead, merged, submitted, doubled, toRemove>>
    BY DEF RunOk, RunFails, redis
  <1>4. CASE RunOk(w)
    <2>1. OthersKeep(w) /\ hand'[w] = <<>>
      BY <1>1, <1>4 DEF RunOk, OthersKeep, TypeInv, TypeOK, LocalOK
    <2>2. Loose(w)' = Loose(w) \ {j}
      BY <1>1, <1>2, <2>1, EmptyHandAfter
    <2>3. IsFiniteSet(InHand(t)')
          /\ Cardinality(InHand(t)') + One(j, t) = Cardinality(InHand(t))
      BY <1>1, <1>2, <2>1, <2>2, Gives
    <2>4. done'[t] = done[t] + One(j, t)
      <3>1. done' = [done EXCEPT ![j.task] = @ + 1] /\ done \in [Tasks -> Nat]
        BY <1>4 DEF RunOk, TypeInv, TypeOK, HistoryOK
      <3>2. j.task \in Tasks
        BY <1>2 DEF Jobs
      <3> QED  BY <3>1, <3>2 DEF One
    <2>5. Numbers(t) /\ Numbers(t)' /\ One(j, t) \in Nat
      BY <2>3, NumbersType, NumbersAfter DEF One
    <2>6. /\ OfTask(pending, t)' = OfTask(pending, t) /\ OfTask(dead, t)' = OfTask(dead, t)
          /\ Scheduled(t)' = Scheduled(t) /\ merged' = merged /\ Issued(t)' = Issued(t)
      BY <1>3 DEF OfTask, Scheduled, Issued
    <2> HIDE DEF j
    <2> QED  BY <2>3, <2>4, <2>5, <2>6 DEF Fair, Accounted, Copies, Numbers
  <1>5. CASE RunFails(w)
    <2>1. /\ OthersKeep(w) /\ done' = done
          /\ \/ hand'[w] = <<Retried(j)>>
             \/ hand' = hand
      BY <1>1, <1>5 DEF RunFails, OthersKeep, TypeInv, TypeOK, LocalOK
    <2>2. IsFiniteSet(InHand(t)') /\ Cardinality(InHand(t)') = Cardinality(InHand(t))
      <3>1. CASE hand'[w] = <<Retried(j)>>
        <4>1. Retried(j).task = j.task
          BY <1>2 DEF Retried, Jobs
        <4>2. Loose(w)' = {Retried(j)}
          BY <1>1, <1>3, <3>1, SingleHandAfter
        <4> QED  BY <1>1, <1>2, <2>1, <4>1, <4>2, Swaps
      <3>2. CASE hand' = hand
        <4>1. Loose(w)' = Loose(w)
          BY <1>3, <3>2 DEF Loose
        <4> QED  BY <1>1, <2>1, <4>1, Drops
      <3> QED  BY <2>1, <3>1, <3>2
    <2>3. Cardinality(InHand(t)') \in Nat
      BY <2>2, FS_CardinalityType
    <2> QED  BY <1>3, <2>1, <2>2, <2>3, QuietFair
  <1> QED  BY <1>4, <1>5

\* What a poll fetches stays in the sorted set for the moment.
LEMMA FetchDueFair ==
  ASSUME TypeInv, TypeInv', Tidy, NEW t \in Tasks, IsFiniteSet(InHand(t)),
         NEW p \in Pollers, FetchDue(p)
  PROVE  Fair(t)
  <1>1. p \in Actors /\ UNCHANGED <<pending, delayed, dead, done, merged, submitted, doubled>>
    BY DEF FetchDue, Actors, redis, history
  <1>2. Loose(p) = {}
    BY <1>1, EmptyHand DEF FetchDue, At, Tidy, Orderly
  <1>3. CASE Finish(p)
    BY <1>1, <1>2, <1>3, QuietFinish
  <1>4. ASSUME NEW s, hand' = [hand EXCEPT ![p] = s], toRemove' = [toRemove EXCEPT ![p] = s]
        PROVE  Fair(t)
    <2>1. OthersKeep(p) /\ hand'[p] = toRemove'[p]
      BY <1>1, <1>4 DEF OthersKeep, TypeInv, TypeOK, LocalOK
    <2>2. Loose(p)' = {}
      BY <2>1 DEF Loose
    <2> QED  BY <1>1, <1>2, <2>1, <2>2, Drops, QuietFair
  <1> QED  BY <1>3, <1>4 DEF FetchDue

\* A ZREM takes the job out of the sorted set, if it is still there.
LEMMA CountRemoved ==
  ASSUME TypeInv, Distinct, NEW t \in Tasks, NEW j \in Jobs, delayed' = Removed(j)
  PROVE  Cardinality(Scheduled(t)') + One(j, t)
         = Cardinality(Scheduled(t)) + (IF j.task = t THEN Missing(j) ELSE 0)
  <1>1. IsFiniteSet(Scheduled(t)) /\ Cardinality(Scheduled(t)) \in Nat
    BY FS_Subset, FS_CardinalityType DEF Scheduled, TypeInv
  <1>2. CASE j.task # t
    <2>1. Scheduled(t)' = Scheduled(t)
      BY <1>2 DEF Scheduled, Removed
    <2> QED  BY <1>1, <1>2, <2>1 DEF One
  <1>3. CASE j.task = t /\ j \in Members
    <2>1. PICK e \in delayed : e.job = j
      BY <1>3 DEF Members
    <2>2. e \in Scheduled(t) /\ Scheduled(t)' = Scheduled(t) \ {e}
      BY <1>3, <2>1 DEF Scheduled, Removed, Distinct
    <2>3. Cardinality(Scheduled(t)') = Cardinality(Scheduled(t)) - 1
      BY <1>1, <2>2, FS_RemoveElement
    <2>4. One(j, t) = 1 /\ Missing(j) = 0
      BY <1>3, <2>1 DEF One, Missing, Merges
    <2> QED  BY <1>1, <2>3, <2>4
  <1>4. CASE j.task = t /\ j \notin Members
    <2>1. Scheduled(t)' = Scheduled(t)
      BY <1>4 DEF Scheduled, Removed, Members
    <2>2. One(j, t) = 1 /\ Missing(j) = 1
      BY <1>4 DEF One, Missing, Merges, Members
    <2> QED  BY <1>1, <1>4, <2>1, <2>2
  <1> QED  BY <1>2, <1>3, <1>4

\* ZREM moves a job from the sorted set to the poller's hand, or drops it; a
\* job that is no longer there comes to the hand all the same.
LEMMA ZRemFair ==
  ASSUME TypeInv, TypeInv', Tidy, Calm, NEW t \in Tasks, IsFiniteSet(InHand(t)),
         NEW p \in Pollers, ZRem(p)
  PROVE  Fair(t)
  <1> DEFINE j == Head(toRemove[p])
             rest == Tail(toRemove[p])
             m == IF j.task = t THEN Missing(j) ELSE 0
  <1>1. p \in Actors /\ UNCHANGED <<pending, dead, done, merged, submitted, crashes>>
    BY DEF ZRem, Actors
  <1>2. toRemove[p] \in Seq(Jobs) /\ toRemove[p] # <<>> /\ IsInjective(toRemove[p])
        /\ Range(toRemove[p]) \subseteq Range(hand[p])
    BY <1>1 DEF ZRem, At, Tidy, Orderly, TypeInv, TypeOK, LocalOK, Equipped
  <1>3. /\ j \in Range(toRemove[p]) /\ Range(toRemove[p]) \subseteq Range(rest) \union {j}
        /\ Range(rest) \subseteq Range(toRemove[p]) \ {j} /\ j \in Jobs
    BY <1>2, InjectiveTail, HeadTailProperties
  <1>4. ASSUME Finish(p) PROVE OthersKeep(p) /\ Loose(p)' = {}
    BY <1>1, <1>4, FinishOrderly, EmptyHandAfter DEF OthersKeep
  <1>5. Numbers(t) /\ One(j, t) \in Nat /\ m \in Nat /\ m <= One(j, t)
    BY NumbersType DEF One, Missing, Merges
  <1>6. CASE Refused(p) /\ Finish(p) /\ UNCHANGED <<delayed, doubled>>
    BY <1>1, <1>6, QuietFinish, Unanswered
  <1>7. CASE delayed' = Removed(j) /\ Applied(p)
    <2>1. Cardinality(Scheduled(t)') + One(j, t) = Cardinality(Scheduled(t)) + m
      BY <1>3, <1>7, CountRemoved DEF Tidy
    <2>2. CASE ReplyLost(p) /\ Finish(p) /\ UNCHANGED doubled
      <3>1. IsFiniteSet(InHand(t)') /\ Cardinality(InHand(t)') <= Cardinality(InHand(t))
        BY <1>1, <1>4, <2>2, Drops
      <3>2. Numbers(t)' /\ Trouble'
        BY <1>1, <2>2, <3>1, NumbersAfter, Unanswered
      <3>3. /\ OfTask(pending, t)' = OfTask(pending, t) /\ OfTask(dead, t)' = OfTask(dead, t)
            /\ done' = done /\ merged' = merged /\ Issued(t)' = Issued(t)
        BY <1>1, <2>2 DEF OfTask, Issued
      <3> HIDE DEF j, m
      <3> QED  BY <1>5, <2>1, <3>1, <3>2, <3>3 DEF Fair, Accounted, Copies, Numbers
    <2>3. CASE /\ toRemove' = [toRemove EXCEPT ![p] = rest]
               /\ doubled' = [doubled EXCEPT ![j.task] = @ + Missing(j)]
               /\ UNCHANGED <<lockq, hand, stamp, stats>>
      <3>1. OthersKeep(p) /\ hand'[p] = hand[p] /\ toRemove'[p] = rest
        BY <1>1, <2>3 DEF OthersKeep, TypeInv, TypeOK, LocalOK
      <3>2. j \notin Loose(p) /\ Loose(p)' = Loose(p) \union {j}
        BY <1>2, <1>3, <3>1 DEF Loose
      <3>3. IsFiniteSet(InHand(t)')
            /\ Cardinality(InHand(t)') = Cardinality(InHand(t)) + One(j, t)
        BY <1>1, <3>1, <3>2, Takes
      <3>4. Numbers(t)'
        BY <3>3, NumbersAfter
      <3>5. Issued(t)' = Issued(t) + m
        <4>1. /\ submitted[t] \in Nat /\ doubled[t] \in Nat /\ doubled \in [Tasks -> Nat]
              /\ Missing(j) \in Nat /\ j.task \in Tasks
          BY <1>3 DEF TypeInv, TypeOK, HistoryOK, Missing, Merges, Jobs
        <4>2. doubled'[t] = doubled[t] + m
          BY <2>3, <4>1
        <4> HIDE DEF j, m
        <4> QED  BY <1>1, <1>5, <4>1, <4>2 DEF Issued
      <3>6. /\ OfTask(pending, t)' = OfTask(pending, t) /\ OfTask(dead, t)' = OfTask(dead, t)
            /\ done' = done /\ merged' = merged
        BY <1>1 DEF OfTask
      <3> HIDE DEF j, m
      <3> QED  BY <1>5, <2>1, <3>3, <3>4, <3>5, <3>6 DEF Fair, Accounted, Copies, Numbers
    <2> QED  BY <1>6, <2>2, <2>3 DEF ZRem
  <1> QED  BY <1>6, <1>7 DEF ZRem

\* LPUSH of the batch's next job, which leaves the poller's hand.
LEMMA RePushFair ==
  ASSUME TypeInv, TypeInv', Tidy, Calm, NEW t \in Tasks, IsFiniteSet(InHand(t)),
         NEW p \in Pollers, RePush(p)
  PROVE  Fair(t)
  <1> DEFINE j == Head(hand[p])
  <1>1. p \in Actors /\ UNCHANGED <<delayed, dead, done, merged, submitted, doubled, crashes>>
    BY DEF RePush, Actors, history
  <1>2. hand[p] \in Seq(Jobs) /\ hand[p] # <<>> /\ IsInjective(hand[p]) /\ toRemove[p] = <<>>
    BY <1>1 DEF RePush, At, Tidy, Orderly, TypeInv, TypeOK, LocalOK, Equipped
  <1>3. /\ j \in Range(hand[p]) /\ j \in Jobs
        /\ Range(Tail(hand[p])) = Range(hand[p]) \ {j}
    BY <1>2, InjectiveTail, HeadTailProperties
  <1>4. Loose(p) = Range(hand[p])
    BY <1>2 DEF Loose, Range
  <1>5. CASE Refused(p) /\ Finish(p) /\ UNCHANGED pending
    BY <1>1, <1>5, QuietFinish, Unanswered
  <1>6. CASE pending' = Append(pending, j) /\ OthersKeep(p)
             /\ Loose(p)' \subseteq Loose(p) \ {j}
             /\ (Loose(p)' = Loose(p) \ {j} \/ Trouble')
    <2>1. OfTask(pending', t) = OfTask(pending, t) + One(j, t)
      BY <1>3, <1>6, CountAppend DEF TypeInv, TypeOK, RedisOK
    <2>2. One(j, t) \in Nat /\ Numbers(t)
      BY NumbersType DEF One
    <2>3. OfTask(dead', t) = OfTask(dead, t) + 0 /\ merged'[t] = merged[t] + 0
          /\ Cardinality(Scheduled(t)') = Cardinality(Scheduled(t)) + 0
      BY <1>1, <2>2 DEF Numbers, Scheduled
    <2>4. One(j, t) + 0 + 0 + 0 = One(j, t)
      BY <2>2
    <2> HIDE DEF j
    <2> QED  BY <1>1, <1>3, <1>4, <1>6, <2>1, <2>2, <2>3, <2>4, PutAway
  <1>7. CASE Finish(p) /\ (ReplyLost(p) \/ Len(hand[p]) = 1)
    <2>1. OthersKeep(p) /\ Loose(p)' = {}
      BY <1>1, <1>7, FinishOrderly, EmptyHandAfter DEF OthersKeep
    <2>2. Loose(p)' \subseteq Loose(p) \ {j} /\ (Loose(p)' = Loose(p) \ {j} \/ Trouble')
      <3>1. CASE ReplyLost(p)
        BY <1>1, <2>1, <3>1, Unanswered
      <3>2. CASE Len(hand[p]) = 1
        <4>1. DOMAIN hand[p] = {1} /\ hand[p][1] = j
          BY <1>2, <3>2, LenProperties
        <4>2. Loose(p) = {j}
          BY <1>4, <4>1 DEF Range
        <4> QED  BY <2>1, <4>2
      <3> QED  BY <1>7, <3>1, <3>2
    <2> QED  BY <1>5, <1>6, <1>7, <2>1, <2>2 DEF RePush
  <1>8. CASE hand' = [hand EXCEPT ![p] = Tail(@)]
             /\ UNCHANGED <<lockq, pc, toRemove, stamp, stats>>
    <2>1. OthersKeep(p) /\ hand'[p] = Tail(hand[p]) /\ toRemove'[p] = <<>>
      BY <1>1, <1>2, <1>8 DEF OthersKeep, TypeInv, TypeOK, LocalOK
    <2>2. Loose(p)' = Range(Tail(hand[p]))
      BY <2>1 DEF Loose, Range
    <2>3. Loose(p)' = Loose(p) \ {j}
      BY <1>3, <1>4, <2>2
    <2> QED  BY <1>5, <1>6, <2>1, <2>3 DEF RePush
  <1> QED  BY <1>5, <1>7, <1>8 DEF RePush

LEMMA MonitorFair ==
  ASSUME TypeInv, TypeInv', Calm, NEW t \in Tasks, IsFiniteSet(InHand(t)),
         Tidy, NEW m \in Monitors, MonitorStep(m)
  PROVE  Fair(t)
  <1>1. m \in Actors /\ UNCHANGED <<pending, delayed, dead, done, merged, submitted, doubled, crashes>>
    BY DEF MonitorStep, LLenPending, ZCard, LLenDead, ReadStat, Actors, redis, history
  <1>2. CASE Finish(m) /\ (ReplyLost(m) \/ Refused(m))
    BY <1>1, <1>2, QuietFinish, Unanswered
  <1>3. CASE Finish(m) /\ LLenDead(m)
    <2>1. hand[m] = <<>>
      BY <1>1, <1>3 DEF LLenDead, At, Tidy, Orderly
    <2> QED  BY <1>1, <1>3, <2>1, EmptyHand, QuietFinish
  <1>4. CASE UNCHANGED <<lockq, hand, toRemove, stamp>>
    <2>1. OthersKeep(m) /\ Loose(m)' = Loose(m)
      BY <1>4 DEF OthersKeep, Loose
    <2> QED  BY <1>1, <2>1, Drops, QuietFair
  <1> QED  BY <1>2, <1>3, <1>4 DEF MonitorStep, LLenPending, ZCard, LLenDead, ReadStat

\* A crash takes what the actors of the process had in hand.
LEMMA CrashFair ==
  ASSUME TypeInv, TypeInv', NEW t \in Tasks, IsFiniteSet(InHand(t)), NEW p \in Procs, Crash(p)
  PROVE  Fair(t)
  <1>1. UNCHANGED <<pending, delayed, dead, done, merged, submitted, doubled>>
    BY DEF Crash, redis, history
  <1>2. ASSUME NEW a \in Actors, NEW j \in Loose(a)' PROVE j \in Loose(a)
    <2>1. CASE Home[a] = p
      <3>1. hand'[a] = <<>>
        BY <2>1 DEF Crash, Cleared
      <3> QED  BY <1>2, <3>1, EmptyHandAfter
    <2>2. CASE Home[a] # p
      <3>1. hand'[a] = hand[a] /\ toRemove'[a] = toRemove[a]
        BY <2>2 DEF Crash, Cleared
      <3> QED  BY <1>2, <3>1 DEF Loose
    <2> QED  BY <2>1, <2>2
  <1>3. InHand(t)' \subseteq InHand(t)
    BY <1>2 DEF InHand
  <1>4. IsFiniteSet(InHand(t)') /\ Cardinality(InHand(t)') <= Cardinality(InHand(t))
    BY <1>3, FS_Subset
  <1>5. Trouble'
    BY FaultAssumption, CrashAssumption DEF Crash, Trouble, TypeInv, TypeOK, NetOK
  <1> QED  BY <1>1, <1>4, <1>5, QuietFair

LEMMA NextFair ==
  ASSUME TypeInv, TypeInv', Tidy, Calm, NEW t \in Tasks, IsFiniteSet(InHand(t)), [Next]_vars
  PROVE  Fair(t)
  <1>0. /\ Clients \subseteq Actors /\ Workers \subseteq Actors
        /\ Pollers \subseteq Actors /\ Monitors \subseteq Actors
        /\ Clients \intersect Pollers = {} /\ Workers \intersect Pollers = {}
    BY KindsAssumption DEF Actors
  <1>1. ASSUME NEW c \in Clients, ClientStep(c) PROVE Fair(t)
    BY <1>0, <1>1, StoreFair DEF ClientStep
  <1>2. ASSUME NEW w \in Workers, WorkerStep(w) PROVE Fair(t)
    <2>1. CASE ZAdd(w) \/ Bury(w)
      BY <1>0, <2>1, StoreFair
    <2>2. CASE PopNothing(w)
      <3>1. hand[w] = <<>>
        BY <1>0, <2>2 DEF PopNothing, At, Tidy, Orderly
      <3>2. Loose(w) = {}
        BY <1>0, <3>1, EmptyHand
      <3> QED  BY <1>0, <2>2, <3>2, QuietFinish DEF PopNothing, redis, history
    <2> QED  BY <1>0, <1>2, <2>1, <2>2, RequestFair, PopFair, RunFair DEF WorkerStep
  <1>3. ASSUME NEW p \in Pollers, PollerStep(p) PROVE Fair(t)
    BY <1>0, <1>3, RequestFair, FetchDueFair, ZRemFair, RePushFair DEF PollerStep
  <1>4. ASSUME NEW m \in Monitors, StartStats(m) \/ MonitorStep(m) PROVE Fair(t)
    BY <1>0, <1>4, RequestFair, MonitorFair
  <1>5. CASE UNCHANGED vars \/ Tick
    <2>1. UNCHANGED <<pending, delayed, dead, done, merged, submitted, doubled, hand, toRemove>>
      BY <1>5 DEF Tick, vars, local, redis, history
    <2>2. InHand(t)' = InHand(t)
      BY <2>1 DEF InHand, Loose
    <2>3. Cardinality(InHand(t)) \in Nat
      BY FS_CardinalityType
    <2> QED  BY <2>1, <2>2, <2>3, QuietFair
  <1> QED  BY <1>1, <1>2, <1>3, <1>4, <1>5, SubmitFair, CrashFair DEF Next

-----------------------------------------------------------------------------
\* Connections break only when something goes wrong, and trouble is never over.
LEMMA CalmNext ==
  ASSUME TypeInv, Calm, [Next]_vars
  PROVE  Calm' /\ (Trouble => Trouble')
  <1>0. faults \in Nat /\ crashes \in Nat
    BY FaultAssumption, CrashAssumption DEF TypeInv, TypeOK, NetOK
  <1>1. \/ UNCHANGED <<net, crashes>>
        \/ faults' = faults + 1 /\ UNCHANGED crashes
        \/ crashes' = crashes + 1 /\ UNCHANGED faults
    <2>1. ASSUME NEW c \in Clients, NEW t \in Tasks,
                 Enqueue(c, t) \/ \E d \in Delays : Schedule(c, t, d)
          PROVE  UNCHANGED <<net, crashes>>
      BY <2>1 DEF Enqueue, Schedule, Submit
    <2>2. ASSUME NEW a, Applied(a) \/ Refused(a)
          PROVE  UNCHANGED net \/ faults' = faults + 1
      BY <2>2 DEF Applied, Answered, ReplyLost, Refused
    <2>3. ASSUME NEW c \in Clients, ClientStep(c)
          PROVE  (UNCHANGED net \/ faults' = faults + 1) /\ UNCHANGED crashes
      BY <2>2, <2>3 DEF ClientStep, LPush, ZAdd
    <2>4. ASSUME NEW w \in Workers, WorkerStep(w)
          PROVE  (UNCHANGED net \/ faults' = faults + 1) /\ UNCHANGED crashes
      BY <2>2, <2>4 DEF WorkerStep, RequestPop, Pop, PopNothing, TimesOut, RunOk, RunFails,
                        ZAdd, Bury, Applied
    <2>5. ASSUME NEW p \in Pollers, PollerStep(p)
          PROVE  (UNCHANGED net \/ faults' = faults + 1) /\ UNCHANGED crashes
      BY <2>2, <2>5 DEF PollerStep, StartPoll, FetchDue, ZRem, RePush, Applied
    <2>6. ASSUME NEW m \in Monitors, StartStats(m) \/ MonitorStep(m)
          PROVE  (UNCHANGED net \/ faults' = faults + 1) /\ UNCHANGED crashes
      BY <2>2, <2>6 DEF StartStats, MonitorStep, LLenPending, ZCard, LLenDead, ReadStat, Applied
    <2>7. ASSUME NEW p \in Procs, Crash(p) PROVE crashes' = crashes + 1 /\ UNCHANGED faults
      BY <2>7 DEF Crash
    <2>8. CASE UNCHANGED vars \/ Tick
      BY <2>8 DEF Tick, vars
    <2> QED  BY <2>1, <2>3, <2>4, <2>5, <2>6, <2>7, <2>8 DEF Next
  <1> QED  BY <1>0, <1>1 DEF Calm, Trouble, net

CountInv == TypeInv /\ Tidy /\ Calm /\ \A t \in Tasks : Books(t)

LEMMA CountInit == ASSUME Init PROVE CountInv
  <1>1. Tidy
    BY DEF Init, Tidy, Distinct, Orderly, IsInjective, Range
  <1>2. ASSUME NEW t \in Tasks PROVE Books(t)
    <2>1. \A a \in Actors : Loose(a) = {}
      BY EmptyHand DEF Init
    <2>2. InHand(t) = {} /\ Scheduled(t) = {}
      BY <2>1 DEF Init, InHand, Scheduled
    <2>3. OfTask(pending, t) = 0 /\ OfTask(dead, t) = 0
      <3>1. {i \in DOMAIN <<>> : <<>>[i].task = t} = {}
        OBVIOUS
      <3> QED  BY <3>1, FS_EmptySet DEF Init, OfTask
    <2>4. done[t] = 0 /\ merged[t] = 0 /\ Issued(t) = 0
      BY DEF Init, Issued
    <2> QED  BY <2>2, <2>3, <2>4, FS_EmptySet DEF Books, Accounted, Copies
  <1>3. Calm
    BY DEF Init, Calm
  <1> QED  BY <1>1, <1>2, <1>3, TypeInit DEF CountInv

LEMMA CountNext == ASSUME CountInv, [Next]_vars PROVE CountInv'
  <1>1. TypeInv' /\ Tidy' /\ Calm' /\ (Trouble => Trouble')
    BY TypeNext, TidyNext, CalmNext DEF CountInv
  <1>2. ASSUME NEW t \in Tasks PROVE Books(t)'
    <2>1. Books(t) /\ Fair(t)
      BY <1>1, NextFair DEF CountInv, Books
    <2>2. Numbers(t) /\ Numbers(t)'
      BY <1>1, <2>1, NumbersType, NumbersAfter DEF CountInv, Books, Fair
    <2>3. Accounted(t) \in Nat /\ Accounted(t)' \in Nat
          /\ Issued(t) \in Nat /\ Issued(t)' \in Nat
      BY <2>2 DEF Numbers, Accounted, Copies
    <2> QED  BY <1>1, <2>1, <2>3 DEF Books, Fair
  <1> QED  BY <1>1, <1>2 DEF CountInv

LEMMA CountHolds == Spec => []CountInv
  BY CountInit, CountNext, PTL DEF Spec

\* One submission never turns into two deliveries, however many processes,
\* clients, workers and pollers there are, whatever fails and whenever they
\* crash, but for the members that two pollers read and both push.
THEOREM NoDuplicationCorrect == Spec => []NoDuplication
  <1>1. ASSUME CountInv, NEW t \in Tasks PROVE Copies(t) + done[t] <= Issued(t)
    <2>1. Numbers(t) /\ Books(t)
      BY <1>1, NumbersType DEF CountInv, Books
    <2> QED  BY <2>1 DEF Numbers, Books, Accounted, Copies
  <1>2. CountInv => NoDuplication
    BY <1>1 DEF NoDuplication
  <1> QED  BY <1>2, CountHolds, PTL

\* And until a command fails or a process crashes none is lost.
THEOREM ConservedCorrect == Spec => []Conserved
  <1>1. ASSUME CountInv, faults + crashes = 0, NEW t \in Tasks
        PROVE  Copies(t) + done[t] + merged[t] = Issued(t)
    BY <1>1 DEF CountInv, Books, Trouble, Accounted
  <1>2. CountInv => Conserved
    BY <1>1 DEF Conserved
  <1> QED  BY <1>2, CountHolds, PTL

-----------------------------------------------------------------------------
(***************************************************************************)
(* Attempts.  A copy of a job that has been retried r times carries one    *)
(* ticket for each run it may still have, r..MaxRetries.  A set of copies  *)
(* is a set of pairs of a place and a job.                                 *)
(***************************************************************************)
Tickets(x) == {x} \X (x[2].retry..MaxRetries)

Left(S) == UNION {Tickets(x) : x \in S}

Weight(j, t) == IF j.task = t THEN MaxRetries + 1 - j.retry ELSE 0

Owned(S) == \A x \in S : x[2] \in Jobs

LEMMA TicketCount ==
  ASSUME NEW x, x[2] \in Jobs
  PROVE  /\ IsFiniteSet(Tickets(x))
         /\ Cardinality(Tickets(x)) = MaxRetries + 1 - x[2].retry
         /\ MaxRetries + 1 - x[2].retry \in Nat
  <1>1. x[2].retry \in 0..MaxRetries /\ MaxRetries \in Nat
    BY RetryAssumption DEF Jobs
  <1>2. IsFiniteSet(x[2].retry..MaxRetries)
        /\ Cardinality(x[2].retry..MaxRetries) = MaxRetries + 1 - x[2].retry
    <2> DEFINE r == x[2].retry
    <2>1. r \in Int /\ MaxRetries \in Int /\ ~(r > MaxRetries)
      BY <1>1
    <2> HIDE DEF r
    <2>2. IsFiniteSet(r..MaxRetries) /\ Cardinality(r..MaxRetries) = MaxRetries - r + 1
      BY <2>1, FS_Interval
    <2> QED  BY <2>1, <2>2 DEF r
  <1>3. IsFiniteSet({x}) /\ Cardinality({x}) = 1
    BY FS_Singleton
  <1>4. IsFiniteSet(Tickets(x))
        /\ Cardinality(Tickets(x)) = Cardinality({x}) * Cardinality(x[2].retry..MaxRetries)
    BY <1>2, <1>3, FS_Product DEF Tickets
  <1> QED  BY <1>1, <1>2, <1>3, <1>4

LEMMA LeftFinite ==
  ASSUME NEW S, IsFiniteSet(S), Owned(S)
  PROVE  IsFiniteSet(Left(S)) /\ Cardinality(Left(S)) \in Nat
  <1>1. IsFiniteSet(0..MaxRetries)
    BY RetryAssumption, FS_Interval
  <1>2. IsFiniteSet(S \X (0..MaxRetries))
    BY <1>1, FS_Product
  <1>3. ASSUME NEW x \in S PROVE Tickets(x) \subseteq S \X (0..MaxRetries)
    BY <1>3, RetryAssumption DEF Tickets, Owned, Jobs
  <1>4. Left(S) \subseteq S \X (0..MaxRetries)
    BY <1>3 DEF Left
  <1> QED  BY <1>2, <1>4, FS_Subset, FS_CardinalityType

LEMMA LeftSubset ==
  ASSUME NEW S, IsFiniteSet(S), Owned(S), NEW T \in SUBSET S
  PROVE  /\ IsFiniteSet(T) /\ Owned(T)
         /\ Cardinality(Left(T)) <= Cardinality(Left(S))
  <1>1. Left(T) \subseteq Left(S)
    BY DEF Left
  <1>2. IsFiniteSet(T) /\ Owned(T)
    BY FS_Subset DEF Owned
  <1> QED  BY <1>1, <1>2, LeftFinite, FS_Subset

\* One copy more brings its tickets.
LEMMA LeftAdd ==
  ASSUME NEW S, IsFiniteSet(S), Owned(S), NEW x, x[2] \in Jobs
  PROVE  /\ IsFiniteSet(S \union {x}) /\ Owned(S \union {x})
         /\ Cardinality(Left(S \union {x})) <= Cardinality(Left(S)) + (MaxRetries + 1 - x[2].retry)
  <1>1. Left(S \union {x}) = Left(S) \union Tickets(x)
    BY DEF Left
  <1>2. IsFiniteSet(Left(S)) /\ Cardinality(Left(S)) \in Nat
    BY LeftFinite
  <1>3. /\ IsFiniteSet(Tickets(x))
        /\ Cardinality(Tickets(x)) = MaxRetries + 1 - x[2].retry
        /\ MaxRetries + 1 - x[2].retry \in Nat
    BY TicketCount
  <1>4. Cardinality(Left(S) \union Tickets(x))
        = Cardinality(Left(S)) + Cardinality(Tickets(x)) - Cardinality(Left(S) \intersect Tickets(x))
    BY <1>2, <1>3, FS_Union
  <1>5. Cardinality(Left(S) \intersect Tickets(x)) \in Nat
    BY <1>2, FS_Intersection, FS_CardinalityType
  <1>6. IsFiniteSet(S \union {x}) /\ Owned(S \union {x})
    BY FS_AddElement DEF Owned
  <1> DEFINE l == Cardinality(Left(S))
             n == Cardinality(Tickets(x))
             b == Cardinality(Left(S) \intersect Tickets(x))
  <1>7. l \in Nat /\ n \in Nat /\ b \in Nat => l + n - b <= l + n
    OBVIOUS
  <1>8. Cardinality(Left(S \union {x})) <= l + n
    BY <1>1, <1>2, <1>3, <1>4, <1>5, <1>7
  <1> QED  BY <1>3, <1>6, <1>8

\* One copy less takes its tickets away.
LEMMA LeftRemove ==
  ASSUME NEW S, IsFiniteSet(S), Owned(S), NEW x \in S
  PROVE  /\ IsFiniteSet(S \ {x}) /\ Owned(S \ {x})
         /\ Cardinality(Left(S \ {x})) + (MaxRetries + 1 - x[2].retry) <= Cardinality(Left(S))
  <1>1. /\ IsFiniteSet(S \ {x}) /\ Owned(S \ {x})
        /\ IsFiniteSet(Left(S \ {x})) /\ Cardinality(Left(S \ {x})) \in Nat
    BY FS_RemoveElement, LeftFinite DEF Owned
  <1>2. /\ IsFiniteSet(Tickets(x))
        /\ Cardinality(Tickets(x)) = MaxRetries + 1 - x[2].retry
        /\ MaxRetries + 1 - x[2].retry \in Nat
    BY TicketCount DEF Owned
  <1>3. Left(S \ {x}) \intersect Tickets(x) = {}
    BY DEF Left, Tickets
  <1>4. Left(S \ {x}) \union Tickets(x) \subseteq Left(S)
    BY DEF Left
  <1>5. IsFiniteSet(Left(S)) /\ Cardinality(Left(S)) \in Nat
    BY LeftFinite
  <1>6. Cardinality(Left(S \ {x}) \union Tickets(x))
        = Cardinality(Left(S \ {x})) + Cardinality(Tickets(x))
    <2>1. Cardinality({}) = 0
      BY FS_EmptySet
    <2>2. Cardinality(Left(S \ {x}) \intersect Tickets(x)) = 0
      BY <1>3, <2>1
    <2>3. Cardinality(Left(S \ {x}) \union Tickets(x))
          = Cardinality(Left(S \ {x})) + Cardinality(Tickets(x))
            - Cardinality(Left(S \ {x}) \intersect Tickets(x))
      BY <1>1, <1>2, FS_Union
    <2>4. Cardinality(Left(S \ {x})) \in Nat /\ Cardinality(Tickets(x)) \in Nat
      BY <1>1, <1>2
    <2> QED  BY <2>2, <2>3, <2>4
  <1>7. Cardinality(Left(S \ {x}) \union Tickets(x)) <= Cardinality(Left(S))
    BY <1>4, <1>5, FS_Subset
  <1> QED  BY <1>1, <1>2, <1>5, <1>6, <1>7

-----------------------------------------------------------------------------
(***************************************************************************)
(* The copies of a task that will run again, by place.                     *)
(***************************************************************************)
Queued(s, t) == {<<i, s[i]>> : i \in {k \in DOMAIN s : s[k].task = t}}

Timed(t) == {<<e, e.job>> : e \in Scheduled(t)}

\* Whoever is about to write a dead letter holds a job that will not.
Able(t) == {x \in InHand(t) : pc[x[1]] # "bury"}

LEMMA QueuedFinite ==
  ASSUME NEW s \in Seq(Jobs), NEW t
  PROVE  IsFiniteSet(Queued(s, t)) /\ Owned(Queued(s, t)) /\ Cardinality(Left(Queued(s, t))) \in Nat
  <1> DEFINE K == {k \in DOMAIN s : s[k].task = t}
             f == [i \in K |-> <<i, s[i]>>]
  <1>1. IsFiniteSet(K)
    BY IndicesFinite
  <1>2. f \in Surjection(K, Queued(s, t))
    BY DEF Queued, Surjection
  <1>3. IsFiniteSet(Queued(s, t))
    <2> HIDE DEF K, f
    <2> QED  BY <1>1, <1>2, FS_Surjection
  <1>4. ASSUME NEW i \in DOMAIN s PROVE s[i] \in Jobs
    BY <1>4
  <1>5. Owned(Queued(s, t))
    BY <1>4 DEF Owned, Queued
  <1> QED  BY <1>3, <1>5, LeftFinite

LEMMA QueuedAppend ==
  ASSUME NEW s \in Seq(Jobs), NEW j \in Jobs, NEW t
  PROVE  Cardinality(Left(Queued(Append(s, j), t))) <= Cardinality(Left(Queued(s, t))) + Weight(j, t)
  <1> DEFINE n == Len(s) + 1
             Q == Queued(s, t)
             A == Queued(Append(s, j), t)
  <1>1. /\ Len(s) \in Nat /\ DOMAIN s = 1..Len(s) /\ DOMAIN Append(s, j) = 1..n
        /\ \A i \in 1..Len(s) : Append(s, j)[i] = s[i]
        /\ Append(s, j)[n] = j
    BY LenProperties, AppendProperties
  <1>2. IsFiniteSet(Q) /\ Owned(Q) /\ Cardinality(Left(Q)) \in Nat
    BY QueuedFinite
  <1>3. ASSUME NEW x \in A PROVE x \in Q \/ (j.task = t /\ x = <<n, j>>)
    <2>1. PICK i \in DOMAIN Append(s, j) : Append(s, j)[i].task = t /\ x = <<i, Append(s, j)[i]>>
      BY <1>3 DEF Queued
    <2>2. CASE i = n
      BY <1>1, <2>1, <2>2
    <2>3. CASE i # n
      <3>1. i \in 1..Len(s)
        BY <1>1, <2>3
      <3>2. i \in DOMAIN s /\ s[i].task = t /\ x = <<i, s[i]>>
        BY <1>1, <2>1, <3>1
      <3> QED  BY <3>2 DEF Queued
    <2> QED  BY <2>2, <2>3
  <1> HIDE DEF n, A, Q
  <1>4. CASE j.task # t
    <2>1. A \subseteq Q
      BY <1>3, <1>4
    <2>2. Cardinality(Left(A)) <= Cardinality(Left(Q))
      BY <1>2, <2>1, LeftSubset
    <2> QED  BY <1>2, <1>4, <2>2 DEF Weight, A, Q
  <1>5. CASE j.task = t
    <2> DEFINE x == <<n, j>>
    <2>1. A \subseteq Q \union {x} /\ x[2] = j
      BY <1>3
    <2>2. /\ IsFiniteSet(Q \union {x}) /\ Owned(Q \union {x})
          /\ Cardinality(Left(Q \union {x})) <= Cardinality(Left(Q)) + (MaxRetries + 1 - j.retry)
      BY <1>2, <2>1, LeftAdd
    <2> HIDE DEF x
    <2>3. /\ Cardinality(Left(A)) <= Cardinality(Left(Q \union {x}))
          /\ IsFiniteSet(A) /\ Owned(A)
      BY <2>1, <2>2, LeftSubset
    <2>4. Cardinality(Left(A)) \in Nat /\ Cardinality(Left(Q \union {x})) \in Nat
      BY <2>2, <2>3, LeftFinite
    <2>5. MaxRetries + 1 - j.retry \in Nat /\ Weight(j, t) = MaxRetries + 1 - j.retry
      BY <1>5, RetryAssumption DEF Weight, Jobs
    <2> QED  BY <1>2, <2>2, <2>3, <2>4, <2>5 DEF A, Q
  <1> QED  BY <1>4, <1>5

LEMMA QueuedTail ==
  ASSUME NEW s \in Seq(Jobs), s # <<>>, NEW t
  PROVE  Cardinality(Left(Queued(Tail(s), t))) + Weight(Head(s), t) <= Cardinality(Left(Queued(s, t)))
  <1> DEFINE Q == Queued(s, t)
             R == {x \in Q : x[1] # 1}
             T == Queued(Tail(s), t)
             f == [y \in Left(T) |-> <<<<y[1][1] + 1, y[1][2]>>, y[2]>>]
  <1>1. /\ Len(s) \in Nat /\ Len(s) > 0 /\ DOMAIN s = 1..Len(s)
        /\ Tail(s) \in Seq(Jobs) /\ DOMAIN Tail(s) = 1..(Len(s) - 1)
        /\ \A i \in 1..(Len(s) - 1) : Tail(s)[i] = s[i + 1]
        /\ Head(s) = s[1] /\ Head(s) \in Jobs
    BY LenProperties, HeadTailProperties, EmptySeq
  <1>2. IsFiniteSet(Q) /\ Owned(Q) /\ IsFiniteSet(T) /\ Owned(T)
        /\ Cardinality(Left(Q)) \in Nat /\ Cardinality(Left(T)) \in Nat
    BY <1>1, QueuedFinite
  <1>3. IsFiniteSet(R) /\ Owned(R)
    BY <1>2, LeftSubset
  <1>4. ASSUME NEW x \in T PROVE x = <<x[1], x[2]>> /\ x[1] \in Nat /\ <<x[1] + 1, x[2]>> \in R
    <2>1. PICK i \in DOMAIN Tail(s) : Tail(s)[i].task = t /\ x = <<i, Tail(s)[i]>>
      BY <1>4 DEF Queued
    <2>2. i \in 1..(Len(s) - 1) /\ i + 1 \in DOMAIN s /\ i + 1 # 1 /\ Tail(s)[i] = s[i + 1]
      BY <1>1, <2>1
    <2>3. <<i + 1, s[i + 1]>> \in Q
      BY <2>1, <2>2 DEF Queued
    <2> QED  BY <2>1, <2>2, <2>3
  <1>5. ASSUME NEW y \in Left(T)
        PROVE  /\ y = <<y[1], y[2]>> /\ y[1] \in T
               /\ <<<<y[1][1] + 1, y[1][2]>>, y[2]>> \in Left(R)
    <2>1. PICK x \in T : y \in Tickets(x)
      BY <1>5 DEF Left
    <2>2. y = <<x, y[2]>> /\ y[2] \in x[2].retry..MaxRetries
      BY <2>1 DEF Tickets
    <2> DEFINE z == <<x[1] + 1, x[2]>>
    <2>3. z \in R /\ z[2] = x[2]
      BY <1>4
    <2> HIDE DEF R, z
    <2>4. <<z, y[2]>> \in Tickets(z)
      BY <2>2, <2>3 DEF Tickets
    <2>5. <<z, y[2]>> \in Left(R)
      BY <2>3, <2>4 DEF Left
    <2>6. y[1] = x
      BY <2>2
    <2> QED  BY <2>2, <2>5, <2>6 DEF z
  <1>6. f \in Injection(Left(T), Left(R))
    <2> HIDE DEF T, R
    <2>1. f \in [Left(T) -> Left(R)]
      BY <1>5
    <2>2. ASSUME NEW y \in Left(T), NEW z \in Left(T), f[y] = f[z] PROVE y = z
      <3>1. y[1][1] + 1 = z[1][1] + 1 /\ y[1][2] = z[1][2] /\ y[2] = z[2]
        BY <2>2
      <3>2. y[1][1] \in Nat /\ z[1][1] \in Nat
        BY <1>4, <1>5
      <3>3. y[1] = <<y[1][1], y[1][2]>> /\ z[1] = <<z[1][1], z[1][2]>>
        BY <1>4, <1>5
      <3>4. y[1][1] = z[1][1]
        <4>1. \A m, n \in Nat : m + 1 = n + 1 => m = n
          OBVIOUS
        <4> HIDE DEF f
        <4> QED  BY <3>1, <3>2, <4>1
      <3>5. y[1] = z[1]
        BY <3>1, <3>3, <3>4
      <3> QED  BY <1>5, <3>1, <3>5
    <2> QED  BY <2>1, <2>2 DEF Injection, IsInjective
  <1>7. Cardinality(Left(T)) <= Cardinality(Left(R)) /\ Cardinality(Left(R)) \in Nat
    <2> HIDE DEF f, T, R
    <2> QED  BY <1>3, <1>6, LeftFinite, FS_Injection
  <1>8. CASE Head(s).task # t
    <2>1. Cardinality(Left(R)) <= Cardinality(Left(Q))
      BY <1>2, LeftSubset
    <2> HIDE DEF T, Q, R
    <2>2. Weight(Head(s), t) = 0
      BY <1>8 DEF Weight
    <2> QED  BY <1>2, <1>7, <2>1, <2>2 DEF T, Q
  <1>9. CASE Head(s).task = t
    <2> DEFINE x == <<1, Head(s)>>
    <2>1. x \in Q /\ x[2] = Head(s)
      BY <1>1, <1>9 DEF Queued
    <2>2. R \subseteq Q \ {x}
      OBVIOUS
    <2>3. /\ IsFiniteSet(Q \ {x}) /\ Owned(Q \ {x})
          /\ Cardinality(Left(Q \ {x})) + (MaxRetries + 1 - Head(s).retry) <= Cardinality(Left(Q))
      BY <1>2, <2>1, LeftRemove
    <2> HIDE DEF T, Q, R, x
    <2>4. Cardinality(Left(R)) <= Cardinality(Left(Q \ {x})) /\ Cardinality(Left(Q \ {x})) \in Nat
      BY <2>2, <2>3, LeftSubset, LeftFinite
    <2>5. MaxRetries + 1 - Head(s).retry \in Nat /\ Weight(Head(s), t) = MaxRetries + 1 - Head(s).retry
      BY <1>1, <1>9, RetryAssumption DEF Weight, Jobs
    <2> QED  BY <1>2, <1>7, <2>3, <2>4, <2>5 DEF T, Q
  <1> QED  BY <1>8, <1>9

QueuedLeft(t) == Cardinality(Left(Queued(pending, t)))

TimedLeft(t) == Cardinality(Left(Timed(t)))

HandLeft(t) == Cardinality(Left(Able(t)))

\* What the copies of t may still be run, and what it has been run.
Total(t) == QueuedLeft(t) + TimedLeft(t) + HandLeft(t) + runs[t]

LEMMA TimedFinite ==
  ASSUME TypeInv, NEW t
  PROVE  IsFiniteSet(Timed(t)) /\ Owned(Timed(t)) /\ TimedLeft(t) \in Nat
  <1> DEFINE f == [e \in Scheduled(t) |-> <<e, e.job>>]
  <1>1. IsFiniteSet(Scheduled(t))
    BY FS_Subset DEF Scheduled, TypeInv
  <1>2. f \in Surjection(Scheduled(t), Timed(t))
    BY DEF Timed, Surjection
  <1>3. IsFiniteSet(Timed(t))
    <2> HIDE DEF f
    <2> QED  BY <1>1, <1>2, FS_Surjection
  <1>4. ASSUME NEW e \in Scheduled(t) PROVE e.job \in Jobs
    BY <1>4 DEF Scheduled, TypeInv, TypeOK, RedisOK, Entries
  <1>5. Owned(Timed(t))
    BY <1>4 DEF Owned, Timed
  <1> QED  BY <1>3, <1>5, LeftFinite DEF TimedLeft

LEMMA LooseJobs == ASSUME TypeInv, NEW a \in Actors PROVE Loose(a) \subseteq Jobs
  <1>1. hand[a] \in Seq(Jobs)
    BY DEF TypeInv, TypeOK, LocalOK
  <1>2. \A i \in DOMAIN hand[a] : hand[a][i] \in Jobs
    BY <1>1
  <1> QED  BY <1>2 DEF Loose, Range

LEMMA AbleFinite ==
  ASSUME TypeInv, NEW t, IsFiniteSet(InHand(t))
  PROVE  IsFiniteSet(Able(t)) /\ Owned(Able(t)) /\ HandLeft(t) \in Nat
  <1>1. IsFiniteSet(Able(t))
    BY FS_Subset DEF Able
  <1>2. ASSUME NEW x \in InHand(t) PROVE x[2] \in Jobs
    <2>1. PICK a \in Actors : \E j \in Loose(a) : x = <<a, j>>
      BY <1>2, InHandIs
    <2> QED  BY <2>1, LooseJobs
  <1>3. Owned(Able(t))
    BY <1>2 DEF Owned, Able
  <1> QED  BY <1>1, <1>3, LeftFinite DEF HandLeft

LEMMA WeightType ==
  ASSUME NEW j \in Jobs, NEW t
  PROVE  /\ Weight(j, t) \in Nat /\ One(j, t) \in Nat /\ One(j, t) <= Weight(j, t)
         /\ j.task = t => Weight(j, t) = MaxRetries + 1 - j.retry
  <1>1. j.retry \in Nat /\ j.retry <= MaxRetries /\ MaxRetries \in Nat
    BY RetryAssumption DEF Jobs
  <1> QED  BY <1>1 DEF Weight, One

LEMMA TotalType ==
  ASSUME TypeInv, NEW t \in Tasks, IsFiniteSet(InHand(t))
  PROVE  /\ QueuedLeft(t) \in Nat /\ TimedLeft(t) \in Nat /\ HandLeft(t) \in Nat
         /\ runs[t] \in Nat /\ Total(t) \in Nat
  <1>1. QueuedLeft(t) \in Nat
    BY QueuedFinite DEF QueuedLeft, TypeInv, TypeOK, RedisOK
  <1>2. runs[t] \in Nat
    BY DEF TypeInv, TypeOK, HistoryOK
  <1> QED  BY <1>1, <1>2, TimedFinite, AbleFinite DEF Total

\* One actor moves.
Moves(a) == OthersKeep(a) /\ \A b \in Actors \ {a} : pc'[b] = pc[b]

LEMMA AbleMoves ==
  ASSUME NEW t, NEW a \in Actors, Moves(a), NEW x
  PROVE  /\ x \in Able(t)' <=>
              \/ x \in Able(t) /\ x[1] # a
              \/ pc'[a] # "bury" /\ \E j \in Loose(a)' : j.task = t /\ x = <<a, j>>
         /\ x \in Able(t) <=>
              \/ x \in Able(t) /\ x[1] # a
              \/ pc[a] # "bury" /\ \E j \in Loose(a) : j.task = t /\ x = <<a, j>>
  <1>1. /\ x \in InHand(t)' <=>
             \/ x \in InHand(t) /\ x[1] # a
             \/ \E j \in Loose(a)' : j.task = t /\ x = <<a, j>>
        /\ x \in InHand(t)  <=>
             \/ x \in InHand(t) /\ x[1] # a
             \/ \E j \in Loose(a) : j.task = t /\ x = <<a, j>>
    BY InHandMoves DEF Moves
  <1>2. x \in InHand(t) => x[1] \in Actors
    BY InHandIs
  <1>3. x \in Able(t)' <=> x \in InHand(t)' /\ pc'[x[1]] # "bury"
    BY DEF Able
  <1>4. x \in Able(t) <=> x \in InHand(t) /\ pc[x[1]] # "bury"
    BY DEF Able
  <1>5. x \in InHand(t) /\ x[1] # a => pc'[x[1]] = pc[x[1]]
    BY <1>2 DEF Moves
  <1>6. \A j : x = <<a, j>> => x[1] = a
    OBVIOUS
  <1>7. x \in Able(t)' <=>
             \/ x \in Able(t) /\ x[1] # a
             \/ pc'[a] # "bury" /\ \E j \in Loose(a)' : j.task = t /\ x = <<a, j>>
    BY <1>1, <1>3, <1>4, <1>5, <1>6
  <1>8. x \in Able(t) <=>
             \/ x \in Able(t) /\ x[1] # a
             \/ pc[a] # "bury" /\ \E j \in Loose(a) : j.task = t /\ x = <<a, j>>
    BY <1>1, <1>4, <1>6
  <1> QED  BY <1>7, <1>8

\* The hand gets at most one job more.
LEMMA HandGains ==
  ASSUME TypeInv, NEW t, IsFiniteSet(InHand(t)), NEW a \in Actors, Moves(a), pc[a] # "bury",
         NEW j \in Jobs, Loose(a)' \subseteq Loose(a) \union {j}
  PROVE  HandLeft(t)' <= HandLeft(t) + Weight(j, t)
  <1>1. IsFiniteSet(Able(t)) /\ Owned(Able(t)) /\ HandLeft(t) \in Nat
    BY AbleFinite
  <1>2. Weight(j, t) \in Nat
    BY WeightType
  <1>3. ASSUME NEW x \in Able(t)' PROVE x \in Able(t) \/ (j.task = t /\ x = <<a, j>>)
    BY <1>3, AbleMoves
  <1>4. CASE j.task # t
    <2>1. Able(t)' \subseteq Able(t)
      BY <1>3, <1>4
    <2>2. Cardinality(Left(Able(t)')) <= Cardinality(Left(Able(t)))
      BY <1>1, <2>1, LeftSubset
    <2>3. Weight(j, t) = 0
      BY <1>4 DEF Weight
    <2> QED  BY <1>1, <2>2, <2>3 DEF HandLeft, Left, Tickets
  <1>5. CASE j.task = t
    <2> DEFINE x == <<a, j>>
               T == Able(t) \union {x}
    <2>1. Able(t)' \subseteq T /\ x[2] = j
      BY <1>3
    <2>2. /\ IsFiniteSet(T) /\ Owned(T)
          /\ Cardinality(Left(T)) <= Cardinality(Left(Able(t))) + (MaxRetries + 1 - j.retry)
      BY <1>1, <2>1, LeftAdd
    <2> HIDE DEF x, T
    <2>3. Cardinality(Left(Able(t)')) <= Cardinality(Left(T)) /\ Cardinality(Left(T)) \in Nat
          /\ Cardinality(Left(Able(t)')) \in Nat
      BY <2>1, <2>2, LeftSubset, LeftFinite
    <2>4. Weight(j, t) = MaxRetries + 1 - j.retry
      BY <1>5 DEF Weight
    <2>5. Cardinality(Left(Able(t)')) <= Cardinality(Left(Able(t))) + Weight(j, t)
      BY <1>1, <1>2, <2>2, <2>3, <2>4 DEF HandLeft
    <2> QED  BY <2>5 DEF HandLeft, Left, Tickets
  <1> QED  BY <1>4, <1>5

\* The hand gives one job away.
LEMMA HandLoses ==
  ASSUME TypeInv, NEW t, IsFiniteSet(InHand(t)), NEW a \in Actors, Moves(a), pc[a] # "bury",
         NEW j \in Loose(a),
         pc'[a] = "bury" \/ Loose(a)' \subseteq Loose(a) \ {j},
         Loose(a)' \subseteq Loose(a)
  PROVE  HandLeft(t)' + Weight(j, t) <= HandLeft(t)
  <1>1. IsFiniteSet(Able(t)) /\ Owned(Able(t)) /\ HandLeft(t) \in Nat
    BY AbleFinite
  <1>2. j \in Jobs /\ Weight(j, t) \in Nat
    BY WeightType, LooseJobs
  <1>3. ASSUME NEW x \in Able(t)' PROVE x \in Able(t) /\ (pc'[a] = "bury" => x[1] # a)
    BY <1>3, AbleMoves
  <1>4. CASE j.task # t
    <2>1. Able(t)' \subseteq Able(t)
      BY <1>3, <1>4
    <2>2. Cardinality(Left(Able(t)')) <= Cardinality(Left(Able(t)))
          /\ Cardinality(Left(Able(t)')) \in Nat
      BY <1>1, <2>1, LeftSubset, LeftFinite
    <2>3. Weight(j, t) = 0
      BY <1>4 DEF Weight
    <2>4. Cardinality(Left(Able(t)')) + Weight(j, t) <= Cardinality(Left(Able(t)))
      BY <1>1, <2>2, <2>3 DEF HandLeft
    <2> QED  BY <2>4 DEF HandLeft, Left, Tickets
  <1>5. CASE j.task = t
    <2> DEFINE x == <<a, j>>
               T == Able(t) \ {x}
    <2>1. x \in Able(t) /\ x[2] = j
      BY <1>5, AbleMoves
    <2>2. x \notin Able(t)'
      BY AbleMoves
    <2>3. Able(t)' \subseteq T
      BY <1>3, <2>2
    <2>4. /\ IsFiniteSet(T) /\ Owned(T)
          /\ Cardinality(Left(T)) + (MaxRetries + 1 - j.retry) <= Cardinality(Left(Able(t)))
      BY <1>1, <2>1, LeftRemove
    <2> HIDE DEF x, T
    <2>5. Cardinality(Left(Able(t)')) <= Cardinality(Left(T)) /\ Cardinality(Left(T)) \in Nat
          /\ Cardinality(Left(Able(t)')) \in Nat
      BY <2>3, <2>4, LeftSubset, LeftFinite
    <2>6. Weight(j, t) = MaxRetries + 1 - j.retry
      BY <1>5 DEF Weight
    <2>7. Cardinality(Left(Able(t)')) + Weight(j, t) <= Cardinality(Left(Able(t)))
      BY <1>1, <1>2, <2>4, <2>5, <2>6 DEF HandLeft
    <2> QED  BY <2>7 DEF HandLeft, Left, Tickets
  <1> QED  BY <1>4, <1>5

\* A job is exchanged for another one of its task.
LEMMA HandSwaps ==
  ASSUME TypeInv, NEW t, IsFiniteSet(InHand(t)), NEW a \in Actors, Moves(a), pc[a] # "bury",
         NEW j, Loose(a) = {j}, NEW k \in Jobs, Loose(a)' = {k}, k.task = j.task
  PROVE  HandLeft(t)' + Weight(j, t) <= HandLeft(t) + Weight(k, t)
  <1>1. IsFiniteSet(Able(t)) /\ Owned(Able(t)) /\ HandLeft(t) \in Nat
    BY AbleFinite
  <1>2. j \in Jobs /\ Weight(j, t) \in Nat /\ Weight(k, t) \in Nat
    BY WeightType, LooseJobs
  <1>4. CASE j.task # t
    <2>1. ASSUME NEW x \in Able(t)' PROVE x \in Able(t)
      BY <1>4, <2>1, AbleMoves
    <2>2. Cardinality(Left(Able(t)')) <= Cardinality(Left(Able(t)))
          /\ Cardinality(Left(Able(t)')) \in Nat
      BY <1>1, <2>1, LeftSubset, LeftFinite
    <2>3. Weight(j, t) = 0 /\ Weight(k, t) = 0
      BY <1>4 DEF Weight
    <2>4. Cardinality(Left(Able(t)')) + Weight(j, t) <= Cardinality(Left(Able(t))) + Weight(k, t)
      BY <1>1, <2>2, <2>3 DEF HandLeft
    <2> QED  BY <2>4 DEF HandLeft, Left, Tickets
  <1>5. CASE j.task = t
    <2> DEFINE x == <<a, j>>
               y == <<a, k>>
               T == Able(t) \ {x}
               U == T \union {y}
    <2>1. x \in Able(t) /\ x[2] = j /\ y[2] = k
      BY <1>5, AbleMoves
    <2>2. ASSUME NEW z \in Able(t)' PROVE z \in U
      BY <2>2, AbleMoves
    <2>3. Able(t)' \subseteq U
      BY <2>2
    <2>4. /\ IsFiniteSet(T) /\ Owned(T)
          /\ Cardinality(Left(T)) + (MaxRetries + 1 - j.retry) <= Cardinality(Left(Able(t)))
      BY <1>1, <2>1, LeftRemove
    <2>5. /\ IsFiniteSet(U) /\ Owned(U)
          /\ Cardinality(Left(U)) <= Cardinality(Left(T)) + (MaxRetries + 1 - k.retry)
      <3> HIDE DEF T, y
      <3> QED  BY <2>1, <2>4, LeftAdd
    <2> HIDE DEF x, y, T, U
    <2>6. /\ Cardinality(Left(Able(t)')) <= Cardinality(Left(U))
          /\ Cardinality(Left(T)) \in Nat /\ Cardinality(Left(U)) \in Nat
          /\ Cardinality(Left(Able(t)')) \in Nat
      BY <2>3, <2>4, <2>5, LeftSubset, LeftFinite
    <2>7. Weight(j, t) = MaxRetries + 1 - j.retry /\ Weight(k, t) = MaxRetries + 1 - k.retry
      BY <1>5 DEF Weight
    <2>8. /\ Cardinality(Left(T)) + Weight(j, t) <= Cardinality(Left(Able(t)))
          /\ Cardinality(Left(U)) <= Cardinality(Left(T)) + Weight(k, t)
      BY <2>4, <2>5, <2>7
    <2>9. Cardinality(Left(Able(t)')) + Weight(j, t) <= Cardinality(Left(Able(t))) + Weight(k, t)
      BY <1>1, <1>2, <2>6, <2>8 DEF HandLeft
    <2> QED  BY <2>9 DEF HandLeft, Left, Tickets
  <1> QED  BY <1>4, <1>5

\* Nothing comes to hand.
LEMMA HandKeeps ==
  ASSUME TypeInv, NEW t, IsFiniteSet(InHand(t)), NEW a \in Actors, Moves(a),
         Loose(a)' \subseteq Loose(a), pc[a] # "bury" \/ Loose(a)' = {}
  PROVE  HandLeft(t)' <= HandLeft(t)
  <1>1. IsFiniteSet(Able(t)) /\ Owned(Able(t))
    BY AbleFinite
  <1>2. ASSUME NEW x \in Able(t)' PROVE x \in Able(t)
    BY <1>2, AbleMoves
  <1>3. Cardinality(Left(Able(t)')) <= Cardinality(Left(Able(t)))
    BY <1>1, <1>2, LeftSubset
  <1> QED  BY <1>3 DEF HandLeft, Left, Tickets

LEMMA FinishMoves ==
  ASSUME TypeInv, NEW a \in Actors, Finish(a)
  PROVE  Moves(a) /\ Loose(a)' = {} /\ pc'[a] = "idle"
  <1>1. pc'[a] = "idle"
    BY DEF Finish, TypeInv, TypeOK, LocalOK
  <1> QED  BY <1>1, FinishOrderly, EmptyHandAfter DEF Moves, OthersKeep

\* A ZADD brings the tickets of its job, if it was not there.
LEMMA TimedScored ==
  ASSUME TypeInv, NEW t, NEW j \in Jobs, NEW n \in Nat, delayed' = Scored(j, n)
  PROVE  TimedLeft(t)' <= TimedLeft(t) + Weight(j, t)
  <1> DEFINE new == [job |-> j, score |-> n]
             S == {x \in Timed(t) : x[2] # j}
             y == <<new, j>>
             T == S \union {y}
  <1>1. IsFiniteSet(Timed(t)) /\ Owned(Timed(t)) /\ TimedLeft(t) \in Nat
    BY TimedFinite
  <1>2. Weight(j, t) \in Nat
    BY WeightType
  <1>3. ASSUME NEW x \in Timed(t)' PROVE x \in S \/ (j.task = t /\ x = y)
    <2>1. PICK e \in Scored(j, n) : e.job.task = t /\ x = <<e, e.job>>
      BY <1>3 DEF Timed, Scheduled
    <2>2. CASE e = new
      BY <2>1, <2>2
    <2>3. CASE e # new
      <3>1. e \in delayed /\ e.job # j
        BY <2>1, <2>3 DEF Scored
      <3> QED  BY <2>1, <3>1 DEF Timed, Scheduled
    <2> QED  BY <2>2, <2>3
  <1>4. /\ IsFiniteSet(S) /\ Owned(S)
        /\ Cardinality(Left(S)) <= Cardinality(Left(Timed(t))) /\ Cardinality(Left(S)) \in Nat
    BY <1>1, LeftSubset, LeftFinite
  <1>5. CASE j.task # t
    <2>1. Timed(t)' \subseteq S
      BY <1>3, <1>5
    <2> HIDE DEF S
    <2>2. Cardinality(Left(Timed(t)')) <= Cardinality(Left(S))
          /\ Cardinality(Left(Timed(t)')) \in Nat
      BY <1>4, <2>1, LeftSubset, LeftFinite
    <2>3. Weight(j, t) = 0
      BY <1>5 DEF Weight
    <2>4. Cardinality(Left(Timed(t)')) <= Cardinality(Left(Timed(t))) + Weight(j, t)
      BY <1>1, <1>4, <2>2, <2>3 DEF TimedLeft
    <2> QED  BY <2>4 DEF TimedLeft, Left, Tickets
  <1>6. CASE j.task = t
    <2>1. Timed(t)' \subseteq T /\ y[2] = j
      BY <1>3
    <2> HIDE DEF S, y
    <2>2. /\ IsFiniteSet(T) /\ Owned(T)
          /\ Cardinality(Left(T)) <= Cardinality(Left(S)) + (MaxRetries + 1 - j.retry)
      BY <1>4, <2>1, LeftAdd
    <2> HIDE DEF T
    <2>3. Cardinality(Left(Timed(t)')) <= Cardinality(Left(T)) /\ Cardinality(Left(T)) \in Nat
          /\ Cardinality(Left(Timed(t)')) \in Nat
      BY <2>1, <2>2, LeftSubset, LeftFinite
    <2>4. Weight(j, t) = MaxRetries + 1 - j.retry
      BY <1>6 DEF Weight
    <2>5. Cardinality(Left(Timed(t)')) <= Cardinality(Left(Timed(t))) + Weight(j, t)
      BY <1>1, <1>2, <1>4, <2>2, <2>3, <2>4 DEF TimedLeft
    <2> QED  BY <2>5 DEF TimedLeft, Left, Tickets
  <1> QED  BY <1>5, <1>6

\* A ZREM of a member takes its tickets.
LEMMA TimedRemoved ==
  ASSUME TypeInv, NEW t, NEW j \in Members, delayed' = Removed(j)
  PROVE  TimedLeft(t)' + Weight(j, t) <= TimedLeft(t)
  <1>1. IsFiniteSet(Timed(t)) /\ Owned(Timed(t)) /\ TimedLeft(t) \in Nat
    BY TimedFinite
  <1>2. PICK e \in delayed : e.job = j
    BY DEF Members
  <1>3. j \in Jobs /\ Weight(j, t) \in Nat
    BY <1>2, WeightType DEF TypeInv, TypeOK, RedisOK, Entries
  <1>4. ASSUME NEW x \in Timed(t)' PROVE x \in Timed(t) /\ x[2] # j
    BY <1>4 DEF Timed, Scheduled, Removed
  <1>5. CASE j.task # t
    <2>1. Timed(t)' \subseteq Timed(t)
      BY <1>4
    <2>2. Cardinality(Left(Timed(t)')) <= Cardinality(Left(Timed(t)))
          /\ Cardinality(Left(Timed(t)')) \in Nat
      BY <1>1, <2>1, LeftSubset, LeftFinite
    <2>3. Weight(j, t) = 0
      BY <1>5 DEF Weight
    <2>4. Cardinality(Left(Timed(t)')) + Weight(j, t) <= Cardinality(Left(Timed(t)))
      BY <1>1, <2>2, <2>3 DEF TimedLeft
    <2> QED  BY <2>4 DEF TimedLeft, Left, Tickets
  <1>6. CASE j.task = t
    <2> DEFINE x == <<e, j>>
               T == Timed(t) \ {x}
    <2>1. x \in Timed(t) /\ x[2] = j
      BY <1>2, <1>6 DEF Timed, Scheduled
    <2>2. Timed(t)' \subseteq T
      BY <1>4
    <2>3. /\ IsFiniteSet(T) /\ Owned(T)
          /\ Cardinality(Left(T)) + (MaxRetries + 1 - j.retry) <= Cardinality(Left(Timed(t)))
      BY <1>1, <2>1, LeftRemove
    <2> HIDE DEF x, T
    <2>4. Cardinality(Left(Timed(t)')) <= Cardinality(Left(T)) /\ Cardinality(Left(T)) \in Nat
          /\ Cardinality(Left(Timed(t)')) \in Nat
      BY <2>2, <2>3, LeftSubset, LeftFinite
    <2>5. Weight(j, t) = MaxRetries + 1 - j.retry
      BY <1>6 DEF Weight
    <2>6. Cardinality(Left(Timed(t)')) + Weight(j, t) <= Cardinality(Left(Timed(t)))
      BY <1>1, <1>3, <2>3, <2>4, <2>5 DEF TimedLeft
    <2> QED  BY <2>6 DEF TimedLeft, Left, Tickets
  <1> QED  BY <1>5, <1>6

-----------------------------------------------------------------------------
(***************************************************************************)
(* Only a submission, or a member that a second poller pushes, raises what *)
(* a task may still be run.                                                *)
(***************************************************************************)
Thrifty(t) == Total(t)' <= Total(t)

\* What a step does to the attempts of t: none more, or those of one more copy.
Grants(t) ==
    \/ Thrifty(t) /\ Issued(t)' = Issued(t)
    \/ Total(t)' <= Total(t) + (MaxRetries + 1) /\ Issued(t)' = Issued(t) + 1

TotalOK(t) ==
    /\ QueuedLeft(t) \in Nat /\ TimedLeft(t) \in Nat /\ HandLeft(t) \in Nat
    /\ runs[t] \in Nat /\ Total(t) \in Nat

LEMMA TotalNow == \A t \in Tasks : TypeInv /\ IsFiniteSet(InHand(t)) => TotalOK(t)
  BY TotalType DEF TotalOK

LEMMA TotalThen == (\A t \in Tasks : TypeInv /\ IsFiniteSet(InHand(t)) => TotalOK(t))'
  BY TotalNow, PTL

LEMMA TotalAfter ==
  ASSUME TypeInv', NEW t \in Tasks, IsFiniteSet(InHand(t)')
  PROVE  TotalOK(t)'
  BY TotalThen

\* The lists, the sorted set and the runs are as before.
LEMMA Unmoved ==
  ASSUME NEW t
  PROVE  /\ UNCHANGED pending => QueuedLeft(t)' = QueuedLeft(t)
         /\ UNCHANGED delayed => TimedLeft(t)' = TimedLeft(t)
  BY DEF QueuedLeft, Queued, TimedLeft, Timed, Scheduled, Left, Tickets

\* A step that only drops what an actor has in hand.
LEMMA QuietThrifty ==
  ASSUME TypeInv, TypeInv', NEW t \in Tasks, IsFiniteSet(InHand(t)), IsFiniteSet(InHand(t)'),
         NEW a \in Actors, Moves(a), Loose(a)' \subseteq Loose(a), pc[a] # "bury" \/ Loose(a)' = {},
         UNCHANGED <<pending, delayed, runs>>
  PROVE  Thrifty(t)
  <1>1. TotalOK(t) /\ TotalOK(t)'
    BY TotalType, TotalAfter DEF TotalOK
  <1>2. QueuedLeft(t)' = QueuedLeft(t) /\ TimedLeft(t)' = TimedLeft(t)
        /\ HandLeft(t)' <= HandLeft(t)
    BY HandKeeps, Unmoved
  <1> QED  BY <1>1, <1>2 DEF Thrifty, Total, TotalOK

LEMMA FinishThrifty ==
  ASSUME TypeInv, TypeInv', NEW t \in Tasks, IsFiniteSet(InHand(t)), IsFiniteSet(InHand(t)'),
         NEW a \in Actors, Finish(a), UNCHANGED <<pending, delayed, runs>>
  PROVE  Thrifty(t)
  BY FinishMoves, QuietThrifty

\* LPUSH and ZADD put the job in hand away; Bury drops it.
LEMMA StoreThrifty ==
  ASSUME TypeInv, TypeInv', Tidy, NEW t \in Tasks, IsFiniteSet(InHand(t)), IsFiniteSet(InHand(t)'),
         NEW a \in Actors, a \notin Pollers, LPush(a) \/ ZAdd(a) \/ Bury(a)
  PROVE  Thrifty(t)
  <1> DEFINE j == Head(hand[a])
  <1>1. Loose(a) = {j} /\ j \in Jobs /\ stamp[a] \in Nat
    BY SingleHand DEF LPush, ZAdd, Bury, At, TypeInv, Equipped, TypeOK, LocalOK
  <1>2. Finish(a) /\ runs' = runs
    BY DEF LPush, ZAdd, Bury, history
  <1>3. Moves(a) /\ Loose(a)' = {}
    BY <1>2, FinishMoves
  <1>4. CASE UNCHANGED <<pending, delayed>>
    BY <1>2, <1>4, FinishThrifty
  <1>5. TotalOK(t) /\ TotalOK(t)' /\ Weight(j, t) \in Nat
    BY <1>1, TotalType, TotalAfter, WeightType DEF TotalOK
  <1>6. CASE LPush(a) /\ pending' = Append(pending, j)
    <2>1. HandLeft(t)' + Weight(j, t) <= HandLeft(t)
      <3>1. pc[a] # "bury"
        BY <1>6 DEF LPush, At
      <3> QED  BY <1>1, <1>3, <3>1, HandLoses
    <2>2. TimedLeft(t)' = TimedLeft(t)
      BY <1>6, Unmoved DEF LPush
    <2>3. QueuedLeft(t)' <= QueuedLeft(t) + Weight(j, t)
      <3>1. Cardinality(Left(Queued(pending', t))) <= Cardinality(Left(Queued(pending, t))) + Weight(j, t)
        BY <1>1, <1>6, QueuedAppend DEF TypeInv, TypeOK, RedisOK
      <3> QED  BY <3>1 DEF QueuedLeft, Queued, Left, Tickets
    <2> HIDE DEF j
    <2> QED  BY <1>2, <1>5, <2>1, <2>2, <2>3 DEF Thrifty, Total, TotalOK
  <1>7. CASE ZAdd(a) /\ delayed' = Scored(j, stamp[a])
    <2>1. HandLeft(t)' + Weight(j, t) <= HandLeft(t)
      <3>1. pc[a] # "bury"
        BY <1>7 DEF ZAdd, At
      <3> QED  BY <1>1, <1>3, <3>1, HandLoses
    <2>2. QueuedLeft(t)' = QueuedLeft(t)
      BY <1>7, Unmoved DEF ZAdd
    <2>3. TimedLeft(t)' <= TimedLeft(t) + Weight(j, t)
      BY <1>1, <1>7, TimedScored
    <2> HIDE DEF j
    <2> QED  BY <1>2, <1>5, <2>1, <2>2, <2>3 DEF Thrifty, Total, TotalOK
  <1> QED  BY <1>4, <1>6, <1>7 DEF LPush, ZAdd, Bury

LEMMA RequestThrifty ==
  ASSUME TypeInv, TypeInv', Tidy, NEW t \in Tasks, IsFiniteSet(InHand(t)), IsFiniteSet(InHand(t)'),
         NEW a \in Actors, RequestPop(a) \/ StartPoll(a) \/ StartStats(a)
  PROVE  Thrifty(t)
  <1>1. UNCHANGED <<hand, toRemove, pending, delayed, runs>> /\ pc[a] = "idle"
    BY DEF RequestPop, StartPoll, StartStats, redis, history
  <1>2. Moves(a) /\ Loose(a)' = Loose(a)
    BY <1>1 DEF Moves, OthersKeep, Loose, RequestPop, StartPoll, StartStats, Request,
                TypeInv, TypeOK, LocalOK
  <1> QED  BY <1>1, <1>2, QuietThrifty

LEMMA PopThrifty ==
  ASSUME TypeInv, TypeInv', Tidy, NEW t \in Tasks, IsFiniteSet(InHand(t)), IsFiniteSet(InHand(t)'),
         NEW w \in Workers, Pop(w)
  PROVE  Thrifty(t)
  <1> DEFINE j == Head(pending)
  <1>1. w \in Actors /\ w \notin Pollers /\ hand[w] = <<>> /\ pc[w] # "bury"
    BY KindsAssumption DEF Pop, At, Tidy, Orderly, Actors
  <1>2. /\ UNCHANGED <<delayed, runs>>
        /\ pending' = Tail(pending) /\ pending \in Seq(Jobs) /\ pending # <<>>
    BY DEF Pop, history, TypeInv, TypeOK, RedisOK
  <1>3. j \in Jobs
    BY <1>2, HeadTailProperties
  <1>4. QueuedLeft(t)' + Weight(j, t) <= QueuedLeft(t)
    <2>1. Cardinality(Left(Queued(pending', t))) + Weight(j, t) <= Cardinality(Left(Queued(pending, t)))
      BY <1>2, QueuedTail
    <2> QED  BY <2>1 DEF QueuedLeft, Queued, Left, Tickets
  <1>5. Moves(w) /\ Loose(w)' \subseteq Loose(w) \union {j}
    <2>1. CASE Finish(w)
      BY <1>1, <2>1, FinishMoves
    <2>2. CASE /\ pc' = [pc EXCEPT ![w] = "run"]
               /\ hand' = [hand EXCEPT ![w] = <<j>>] /\ UNCHANGED <<toRemove, stamp, stats>>
      <3>1. Moves(w) /\ hand'[w] = <<j>>
        BY <1>1, <2>2 DEF Moves, OthersKeep, TypeInv, TypeOK, LocalOK
      <3> QED  BY <1>1, <2>2, <3>1, SingleHandAfter
    <2> QED  BY <2>1, <2>2 DEF Pop
  <1>6. HandLeft(t)' <= HandLeft(t) + Weight(j, t)
    BY <1>1, <1>3, <1>5, HandGains
  <1>7. TotalOK(t) /\ TotalOK(t)' /\ Weight(j, t) \in Nat
    BY <1>3, TotalType, TotalAfter, WeightType DEF TotalOK
  <1>8. TimedLeft(t)' = TimedLeft(t) /\ runs'[t] = runs[t]
    BY <1>2, Unmoved
  <1> HIDE DEF j
  <1> QED  BY <1>4, <1>6, <1>7, <1>8 DEF Thrifty, Total, TotalOK

\* A run uses up one ticket of its job.
LEMMA RunThrifty ==
  ASSUME TypeInv, TypeInv', Tidy, NEW t \in Tasks, IsFiniteSet(InHand(t)), IsFiniteSet(InHand(t)'),
         NEW w \in Workers, RunOk(w) \/ RunFails(w)
  PROVE  Thrifty(t)
  <1> DEFINE j == Head(hand[w])
  <1>1. w \in Actors /\ w \notin Pollers /\ hand[w] # <<>> /\ pc[w] # "bury"
    BY KindsAssumption DEF Actors, RunOk, RunFails, TypeInv, Equipped
  <1>2. Loose(w) = {j} /\ j \in Jobs
    BY <1>1, SingleHand
  <1>3. UNCHANGED <<pending, delayed, toRemove>>
    BY DEF RunOk, RunFails, redis
  <1>4. runs'[t] = runs[t] + One(j, t)
    <2>1. runs' = [runs EXCEPT ![j.task] = @ + 1] /\ runs \in [Tasks -> Nat]
      BY DEF RunOk, RunFails, TypeInv, TypeOK, HistoryOK
    <2>2. j.task \in Tasks
      BY <1>2 DEF Jobs
    <2> QED  BY <2>1, <2>2 DEF One
  <1>5. Moves(w)
    BY <1>1 DEF RunOk, RunFails, Request, Moves, OthersKeep, TypeInv, TypeOK, LocalOK
  <1>6. HandLeft(t)' + One(j, t) <= HandLeft(t)
    <2>0. /\ HandLeft(t) \in Nat /\ HandLeft(t)' \in Nat
          /\ Weight(j, t) \in Nat /\ One(j, t) \in Nat /\ One(j, t) <= Weight(j, t)
      BY <1>2, TotalType, TotalAfter, WeightType DEF TotalOK
    <2>1. CASE RunOk(w)
      <3>1. hand'[w] = <<>>
        BY <1>1, <2>1 DEF RunOk, TypeInv, TypeOK, LocalOK
      <3>2. Loose(w)' = {}
        BY <1>1, <3>1, EmptyHandAfter
      <3>3. HandLeft(t)' + Weight(j, t) <= HandLeft(t)
        BY <1>1, <1>2, <1>5, <3>2, HandLoses
      <3> HIDE DEF j
      <3> QED  BY <2>0, <3>3
    <2>2. CASE pc'[w] = "bury" /\ hand' = hand
      <3>1. Loose(w)' = Loose(w)
        BY <1>3, <2>2 DEF Loose
      <3>2. HandLeft(t)' + Weight(j, t) <= HandLeft(t)
        BY <1>1, <1>2, <1>5, <2>2, <3>1, HandLoses
      <3> HIDE DEF j
      <3> QED  BY <2>0, <3>2
    <2>3. CASE CanRetry(j) /\ hand'[w] = <<Retried(j)>>
      <3> DEFINE k == Retried(j)
      <3>1. k \in Jobs /\ k.task = j.task /\ k.retry = j.retry + 1
        <4>1. k \in Jobs
          BY <1>2, <2>3, RetriedType DEF TypeInv
        <4>2. k.task = j.task /\ k.retry = j.retry + 1
          BY <1>2 DEF Retried, Jobs
        <4> QED  BY <4>1, <4>2
      <3>2. Loose(w)' = {k}
        BY <1>1, <1>3, <2>3, SingleHandAfter
      <3>3. HandLeft(t)' + Weight(j, t) <= HandLeft(t) + Weight(k, t)
        <4> HIDE DEF k
        <4> QED  BY <1>1, <1>2, <1>5, <3>1, <3>2, HandSwaps
      <3> HIDE DEF k
      <3>4. Weight(k, t) + One(j, t) = Weight(j, t) /\ Weight(k, t) \in Nat
        <4>1. j.retry \in Nat /\ MaxRetries \in Nat /\ Weight(k, t) \in Nat
          BY <1>2, <3>1, RetryAssumption, WeightType DEF Jobs
        <4>2. CASE j.task = t
          <5>1. Weight(k, t) = MaxRetries + 1 - (j.retry + 1)
                /\ Weight(j, t) = MaxRetries + 1 - j.retry /\ One(j, t) = 1
            BY <3>1, <4>2 DEF Weight, One
          <5> HIDE DEF j
          <5> QED  BY <4>1, <5>1
        <4>3. CASE j.task # t
          BY <3>1, <4>3 DEF Weight, One
        <4> QED  BY <4>1, <4>2, <4>3
      <3> HIDE DEF j
      <3> QED  BY <2>0, <3>3, <3>4
    <2>4. RunFails(w) => \/ pc'[w] = "bury" /\ hand' = hand
                         \/ CanRetry(j) /\ hand'[w] = <<Retried(j)>>
      BY <1>1 DEF RunFails, Request, TypeInv, TypeOK, LocalOK
    <2> QED  BY <2>1, <2>2, <2>3, <2>4
  <1>7. TotalOK(t) /\ TotalOK(t)' /\ One(j, t) \in Nat
    BY <1>2, TotalType, TotalAfter, WeightType DEF TotalOK
  <1>8. QueuedLeft(t)' = QueuedLeft(t) /\ TimedLeft(t)' = TimedLeft(t)
    BY <1>3, Unmoved
  <1> HIDE DEF j
  <1> QED  BY <1>4, <1>6, <1>7, <1>8 DEF Thrifty, Total, TotalOK

LEMMA FetchDueThrifty ==
  ASSUME TypeInv, TypeInv', Tidy, NEW t \in Tasks, IsFiniteSet(InHand(t)), IsFiniteSet(InHand(t)'),
         NEW p \in Pollers, FetchDue(p)
  PROVE  Thrifty(t)
  <1>1. p \in Actors /\ UNCHANGED <<pending, delayed, runs>>
    BY DEF FetchDue, Actors, redis, history
  <1>2. CASE Finish(p)
    BY <1>1, <1>2, FinishThrifty
  <1>3. ASSUME NEW s, hand' = [hand EXCEPT ![p] = s], toRemove' = [toRemove EXCEPT ![p] = s],
               pc' = [pc EXCEPT ![p] = "zrem"]
        PROVE  Thrifty(t)
    <2>1. Moves(p) /\ hand'[p] = toRemove'[p]
      BY <1>1, <1>3 DEF Moves, OthersKeep, TypeInv, TypeOK, LocalOK
    <2>2. Loose(p)' = {}
      BY <2>1 DEF Loose
    <2> QED  BY <1>1, <2>1, <2>2, QuietThrifty
  <1> QED  BY <1>2, <1>3 DEF FetchDue

\* A ZREM moves the tickets of its job from the sorted set to the hand; if
\* another poller has removed the job, the hand gets tickets all the same.
LEMMA ZRemGrants ==
  ASSUME TypeInv, TypeInv', Tidy, NEW t \in Tasks, IsFiniteSet(InHand(t)), IsFiniteSet(InHand(t)'),
         NEW p \in Pollers, ZRem(p)
  PROVE  Grants(t)
  <1> DEFINE j == Head(toRemove[p])
             rest == Tail(toRemove[p])
  <1>1. p \in Actors /\ UNCHANGED <<pending, runs, submitted>> /\ pc[p] # "bury"
    BY DEF ZRem, At, Actors
  <1>2. toRemove[p] \in Seq(Jobs) /\ toRemove[p] # <<>> /\ IsInjective(toRemove[p])
    BY <1>1 DEF ZRem, At, Tidy, Orderly, TypeInv, TypeOK, LocalOK, Equipped
  <1>3. /\ j \in Range(toRemove[p]) /\ Range(toRemove[p]) \subseteq Range(rest) \union {j}
        /\ j \in Jobs /\ j.task \in Tasks
    <2>1. j \in Jobs
      BY <1>2, HeadTailProperties
    <2> QED  BY <1>2, <2>1, InjectiveTail DEF Jobs
  <1>4. submitted[t] \in Nat /\ doubled[t] \in Nat /\ doubled \in [Tasks -> Nat]
    BY DEF TypeInv, TypeOK, HistoryOK
  <1>5. CASE Finish(p) /\ UNCHANGED <<delayed, doubled>>
    <2>1. Thrifty(t)
      BY <1>1, <1>5, FinishThrifty
    <2> QED  BY <1>1, <1>5, <2>1 DEF Grants, Issued
  <1>6. ASSUME delayed' = Removed(j) PROVE Grants(t)
    <2>1. Moves(p) /\ Loose(p)' \subseteq Loose(p) \union {j}
      <3>1. CASE Finish(p)
        BY <1>1, <3>1, FinishMoves
      <3>2. CASE /\ toRemove' = [toRemove EXCEPT ![p] = rest]
                 /\ pc' = [pc EXCEPT ![p] = AfterZRem(rest)]
                 /\ UNCHANGED <<lockq, hand, stamp, stats>>
        <4>1. Moves(p) /\ hand'[p] = hand[p] /\ toRemove'[p] = rest
          BY <1>1, <3>2 DEF Moves, OthersKeep, TypeInv, TypeOK, LocalOK
        <4> QED  BY <1>3, <4>1 DEF Loose
      <3> QED  BY <3>1, <3>2 DEF ZRem
    <2>2. HandLeft(t)' <= HandLeft(t) + Weight(j, t)
      BY <1>1, <1>3, <2>1, HandGains
    <2>3. /\ TotalOK(t) /\ TotalOK(t)' /\ Weight(j, t) \in Nat
          /\ QueuedLeft(t)' = QueuedLeft(t) /\ runs'[t] = runs[t]
      BY <1>1, <1>3, Unmoved, TotalType, TotalAfter, WeightType DEF TotalOK
    <2>4. doubled' = doubled \/ doubled' = [doubled EXCEPT ![j.task] = @ + Missing(j)]
      BY DEF ZRem
    <2>5. CASE j \in Members
      <3>1. TimedLeft(t)' + Weight(j, t) <= TimedLeft(t)
        BY <1>6, <2>5, TimedRemoved
      <3>2. Thrifty(t)
        <4> HIDE DEF j
        <4> QED  BY <2>2, <2>3, <3>1 DEF Thrifty, Total, TotalOK
      <3>3. Missing(j) = 0
        BY <2>5 DEF Missing, Merges, Members
      <3>4. doubled'[t] = doubled[t]
        <4> HIDE DEF j
        <4> QED  BY <1>3, <1>4, <2>4, <3>3
      <3> QED  BY <1>1, <3>2, <3>4 DEF Grants, Issued
    <2>6. CASE j \notin Members
      <3>1. delayed' = delayed
        BY <1>6, <2>6 DEF Removed, Members
      <3>2. TimedLeft(t)' = TimedLeft(t)
        BY <3>1, Unmoved
      <3>3. CASE Finish(p) /\ UNCHANGED doubled
        BY <1>5, <3>1, <3>3
      <3>4. CASE doubled' = [doubled EXCEPT ![j.task] = @ + Missing(j)]
        <4>1. Missing(j) = 1
          BY <2>6 DEF Missing, Merges, Members
        <4>2. CASE j.task = t
          <5>1. Weight(j, t) <= MaxRetries + 1 /\ MaxRetries \in Nat
            BY <1>3, RetryAssumption DEF Weight, Jobs
          <5>2. doubled'[t] = doubled[t] + 1
            <6> HIDE DEF j
            <6> QED  BY <1>4, <3>4, <4>1, <4>2
          <5>3. Total(t)' <= Total(t) + (MaxRetries + 1)
            <6> HIDE DEF j
            <6> QED  BY <2>2, <2>3, <3>2, <5>1 DEF Total, TotalOK
          <5>4. Issued(t)' = Issued(t) + 1
            BY <1>1, <1>4, <5>2 DEF Issued
          <5> QED  BY <5>3, <5>4 DEF Grants
        <4>3. CASE j.task # t
          <5>1. Weight(j, t) = 0
            BY <4>3 DEF Weight
          <5>2. doubled'[t] = doubled[t]
            <6> HIDE DEF j
            <6> QED  BY <1>4, <3>4, <4>3
          <5>3. Thrifty(t)
            <6> HIDE DEF j
            <6> QED  BY <2>2, <2>3, <3>2, <5>1 DEF Thrifty, Total, TotalOK
          <5> QED  BY <1>1, <5>2, <5>3 DEF Grants, Issued
        <4> QED  BY <4>2, <4>3
      <3> QED  BY <1>5, <3>1, <3>3, <3>4 DEF ZRem
    <2> QED  BY <2>5, <2>6
  <1> QED  BY <1>5, <1>6 DEF ZRem

LEMMA RePushThrifty ==
  ASSUME TypeInv, TypeInv', Tidy, NEW t \in Tasks, IsFiniteSet(InHand(t)), IsFiniteSet(InHand(t)'),
         NEW p \in Pollers, RePush(p)
  PROVE  Thrifty(t)
  <1> DEFINE j == Head(hand[p])
  <1>1. p \in Actors /\ UNCHANGED <<delayed, runs>> /\ pc[p] # "bury"
    BY DEF RePush, At, Actors, history
  <1>2. hand[p] \in Seq(Jobs) /\ hand[p] # <<>> /\ IsInjective(hand[p]) /\ toRemove[p] = <<>>
    BY <1>1 DEF RePush, At, Tidy, Orderly, TypeInv, TypeOK, LocalOK, Equipped
  <1>3. /\ j \in Range(hand[p]) /\ j \in Jobs
        /\ Range(Tail(hand[p])) \subseteq Range(hand[p]) \ {j}
    BY <1>2, InjectiveTail, HeadTailProperties
  <1>4. Loose(p) = Range(hand[p])
    BY <1>2 DEF Loose, Range
  <1>5. CASE UNCHANGED pending /\ Finish(p)
    BY <1>1, <1>5, FinishThrifty
  <1>6. CASE pending' = Append(pending, j)
    <2>1. QueuedLeft(t)' <= QueuedLeft(t) + Weight(j, t)
      <3>1. Cardinality(Left(Queued(pending', t))) <= Cardinality(Left(Queued(pending, t))) + Weight(j, t)
        BY <1>3, <1>6, QueuedAppend DEF TypeInv, TypeOK, RedisOK
      <3> QED  BY <3>1 DEF QueuedLeft, Queued, Left, Tickets
    <2>2. Moves(p) /\ Loose(p)' \subseteq Loose(p) \ {j}
      <3>1. CASE Finish(p)
        BY <1>1, <3>1, FinishMoves
      <3>2. CASE hand' = [hand EXCEPT ![p] = Tail(@)]
                 /\ UNCHANGED <<lockq, pc, toRemove, stamp, stats>>
        <4>1. Moves(p) /\ hand'[p] = Tail(hand[p])
          BY <1>1, <3>2 DEF Moves, OthersKeep, TypeInv, TypeOK, LocalOK
        <4> QED  BY <1>3, <1>4, <4>1 DEF Loose
      <3> QED  BY <1>5, <3>1, <3>2 DEF RePush
    <2>3. HandLeft(t)' + Weight(j, t) <= HandLeft(t)
      BY <1>1, <1>3, <1>4, <2>2, HandLoses
    <2>4. TotalOK(t) /\ TotalOK(t)' /\ Weight(j, t) \in Nat
      BY <1>3, TotalType, TotalAfter, WeightType DEF TotalOK
    <2>5. TimedLeft(t)' = TimedLeft(t) /\ runs'[t] = runs[t]
      BY <1>1, Unmoved
    <2> HIDE DEF j
    <2> QED  BY <2>1, <2>3, <2>4, <2>5 DEF Thrifty, Total, TotalOK
  <1> QED  BY <1>5, <1>6 DEF RePush

LEMMA MonitorThrifty ==
  ASSUME TypeInv, TypeInv', Tidy, NEW t \in Tasks, IsFiniteSet(InHand(t)), IsFiniteSet(InHand(t)'),
         NEW m \in Monitors, MonitorStep(m)
  PROVE  Thrifty(t)
  <1>1. m \in Actors /\ UNCHANGED <<pending, delayed, runs>> /\ pc[m] # "bury"
    BY DEF MonitorStep, LLenPending, ZCard, LLenDead, ReadStat, At, Actors, redis, history
  <1>2. CASE Finish(m)
    BY <1>1, <1>2, FinishThrifty
  <1>3. CASE /\ \E next \in {"zcard", "ldead"} : pc' = [pc EXCEPT ![m] = next]
             /\ UNCHANGED <<lockq, hand, toRemove, stamp>>
    <2>1. Moves(m) /\ Loose(m)' = Loose(m)
      BY <1>1, <1>3 DEF Moves, OthersKeep, Loose, TypeInv, TypeOK, LocalOK
    <2> QED  BY <1>1, <2>1, QuietThrifty
  <1> QED  BY <1>2, <1>3 DEF MonitorStep, LLenPending, ZCard, LLenDead, ReadStat

LEMMA CrashThrifty ==
  ASSUME TypeInv, TypeInv', NEW t \in Tasks, IsFiniteSet(InHand(t)), IsFiniteSet(InHand(t)'),
         NEW p \in Procs, Crash(p)
  PROVE  Thrifty(t)
  <1>1. UNCHANGED <<pending, delayed, runs>>
    BY DEF Crash, redis, history
  <1>2. ASSUME NEW a \in Actors, NEW j \in Loose(a)'
        PROVE  j \in Loose(a) /\ pc'[a] = pc[a]
    <2>1. CASE Home[a] = p
      <3>1. hand'[a] = <<>>
        BY <2>1 DEF Crash, Cleared
      <3> QED  BY <1>2, <3>1, EmptyHandAfter
    <2>2. CASE Home[a] # p
      <3>1. hand'[a] = hand[a] /\ toRemove'[a] = toRemove[a] /\ pc'[a] = pc[a]
        BY <2>2 DEF Crash, Cleared
      <3> QED  BY <1>2, <3>1 DEF Loose
    <2> QED  BY <2>1, <2>2
  <1>3. ASSUME NEW x \in Able(t)' PROVE x \in Able(t)
    <2>1. x \in InHand(t)' /\ pc'[x[1]] # "bury"
      BY <1>3 DEF Able
    <2>2. PICK a \in Actors : \E j \in Loose(a)' : j.task = t /\ x = <<a, j>>
      BY <2>1 DEF InHand
    <2>3. x \in InHand(t) /\ x[1] = a /\ pc'[a] = pc[a]
      BY <1>2, <2>2, InHandIs
    <2> QED  BY <2>1, <2>3 DEF Able
  <1>4. HandLeft(t)' <= HandLeft(t)
    <2>1. IsFiniteSet(Able(t)) /\ Owned(Able(t))
      BY AbleFinite
    <2>2. Cardinality(Left(Able(t)')) <= Cardinality(Left(Able(t)))
      BY <1>3, <2>1, LeftSubset
    <2> QED  BY <2>2 DEF HandLeft, Left, Tickets
  <1>5. TotalOK(t) /\ TotalOK(t)'
    BY TotalType, TotalAfter DEF TotalOK
  <1>6. QueuedLeft(t)' = QueuedLeft(t) /\ TimedLeft(t)' = TimedLeft(t)
    BY <1>1, Unmoved
  <1> QED  BY <1>1, <1>4, <1>5, <1>6 DEF Thrifty, Total, TotalOK

\* A submission brings MaxRetries + 1 runs.
LEMMA SubmitGrants ==
  ASSUME TypeInv, TypeInv', Tidy, NEW t \in Tasks, IsFiniteSet(InHand(t)), IsFiniteSet(InHand(t)'),
         NEW c \in Clients, NEW u \in Tasks,
         Enqueue(c, u) \/ \E d \in Delays : Schedule(c, u, d)
  PROVE  Grants(t)
  <1>1. c \in Actors /\ c \notin Pollers /\ hand[c] = <<>> /\ pc[c] # "bury"
    BY KindsAssumption DEF Enqueue, Schedule, MaySubmit, Tidy, Orderly, Actors
  <1>2. Moves(c) /\ hand'[c] = <<Fresh(u)>> /\ toRemove' = toRemove
    BY <1>1 DEF Enqueue, Schedule, Submit, Request, Moves, OthersKeep, TypeInv, TypeOK, LocalOK
  <1>3. Loose(c)' = {Fresh(u)}
    BY <1>1, <1>2, SingleHandAfter
  <1>4. Fresh(u) \in Jobs
    BY FreshType
  <1>5. HandLeft(t)' <= HandLeft(t) + Weight(Fresh(u), t)
    BY <1>1, <1>2, <1>3, <1>4, HandGains
  <1>6. Issued(t)' = IF t = u THEN Issued(t) + 1 ELSE Issued(t)
    <2>1. /\ submitted \in [Tasks -> Nat] /\ doubled[t] \in Nat /\ doubled' = doubled
          /\ submitted' = [submitted EXCEPT ![u] = @ + 1]
      BY DEF Enqueue, Schedule, Submit, TypeInv, TypeOK, HistoryOK
    <2> QED  BY <2>1 DEF Issued
  <1>7. Weight(Fresh(u), t) = IF t = u THEN MaxRetries + 1 ELSE 0
    BY RetryAssumption DEF Weight, Fresh
  <1>8. UNCHANGED <<pending, delayed, runs>>
    BY DEF Enqueue, Schedule, Submit, redis
  <1>9. TotalOK(t) /\ TotalOK(t)' /\ MaxRetries \in Nat
    BY TotalType, TotalAfter, RetryAssumption DEF TotalOK
  <1>10. QueuedLeft(t)' = QueuedLeft(t) /\ TimedLeft(t)' = TimedLeft(t) /\ runs'[t] = runs[t]
    BY <1>8, Unmoved
  <1> QED  BY <1>5, <1>6, <1>7, <1>9, <1>10 DEF Grants, Thrifty, Total, TotalOK

-----------------------------------------------------------------------------
(***************************************************************************)
(* A job that has been retried r times belongs to a task that has been run *)
(* at least r times, and whoever is about to write a dead letter has seen  *)
(* its last run.                                                           *)
(***************************************************************************)
Around == Range(pending) \union Members \union UNION {Range(hand[a]) : a \in Actors}

Past(j) == j.retry <= runs[j.task]

Exhausted(t) == runs[t] > MaxRetries

Spent ==
    /\ \A j \in Around : Past(j)
    /\ \A a \in Actors : pc[a] = "bury" => Exhausted(Head(hand[a]).task)
    /\ \A i \in DOMAIN dead : Exhausted(dead[i].task)

LEMMA AroundJobs == ASSUME TypeInv PROVE Around \subseteq Jobs
  <1>1. Range(pending) \subseteq Jobs
    BY DEF TypeInv, TypeOK, RedisOK, Range
  <1>2. Members \subseteq Jobs
    BY DEF TypeInv, TypeOK, RedisOK, Members, Entries
  <1>3. ASSUME NEW a \in Actors PROVE Range(hand[a]) \subseteq Jobs
    <2>1. hand[a] \in Seq(Jobs)
      BY DEF TypeInv, TypeOK, LocalOK
    <2> QED  BY <2>1 DEF Range
  <1> QED  BY <1>1, <1>2, <1>3 DEF Around

\* What is around after a step of one actor.
LEMMA AroundMoves ==
  ASSUME NEW a \in Actors, Moves(a), NEW j \in Around'
  PROVE  j \in Range(pending') \/ j \in Members' \/ j \in Range(hand'[a]) \/ j \in Around
  <1>1. CASE j \in Range(pending)' \/ j \in Members'
    BY <1>1 DEF Range
  <1>2. ASSUME NEW b \in Actors, j \in Range(hand'[b]) PROVE j \in Range(hand'[a]) \/ j \in Around
    BY <1>2 DEF Moves, OthersKeep, Around
  <1> QED  BY <1>1, <1>2 DEF Around, Range

LEMMA RangeEmpty == Range(<<>>) = {}
  BY DEF Range

LEMMA HeadAround ==
  ASSUME TypeInv, NEW a \in Actors, hand[a] # <<>>
  PROVE  Head(hand[a]) \in Around /\ Head(hand[a]) \in Jobs
  <1>1. hand[a] \in Seq(Jobs)
    BY DEF TypeInv, TypeOK, LocalOK
  <1>2. Head(hand[a]) \in Range(hand[a])
    BY <1>1, RangeOfTail
  <1> QED  BY <1>2, AroundJobs DEF Around

\* A step of one actor that writes no new job, and no dead letter.
LEMMA SpentStep ==
  ASSUME Spent, NEW a \in Actors, Moves(a), pc'[a] # "bury", UNCHANGED <<runs, dead>>,
         Range(pending') \subseteq Around, Members' \subseteq Around,
         Range(hand'[a]) \subseteq Around
  PROVE  Spent'
  <1>1. ASSUME NEW j \in Around' PROVE Past(j)'
    BY <1>1, AroundMoves DEF Spent, Past
  <1>2. ASSUME NEW b \in Actors, pc'[b] = "bury" PROVE Exhausted(Head(hand[b]).task)'
    BY <1>2 DEF Moves, OthersKeep, Spent, Exhausted
  <1>3. \A i \in DOMAIN dead' : Exhausted(dead[i].task)'
    BY DEF Spent, Exhausted
  <1> QED  BY <1>1, <1>2, <1>3 DEF Spent

LEMMA FinishSpent ==
  ASSUME TypeInv, Spent, NEW a \in Actors, Finish(a), UNCHANGED <<runs, dead>>,
         Range(pending') \subseteq Around, Members' \subseteq Around
  PROVE  Spent'
  <1>1. Moves(a) /\ pc'[a] # "bury" /\ hand'[a] = <<>>
    BY FinishMoves, FinishOrderly
  <1> QED  BY <1>1, RangeEmpty, SpentStep

LEMMA SubmitSpent ==
  ASSUME TypeInv, Spent, NEW c \in Clients, NEW u \in Tasks,
         Enqueue(c, u) \/ \E d \in Delays : Schedule(c, u, d)
  PROVE  Spent'
  <1>1. c \in Actors
    BY DEF Actors
  <1>2. Moves(c) /\ hand'[c] = <<Fresh(u)>> /\ pc'[c] # "bury"
    BY <1>1 DEF Enqueue, Schedule, Submit, Request, Moves, OthersKeep, TypeInv, TypeOK, LocalOK
  <1>3. UNCHANGED <<pending, delayed, dead, runs>>
    BY DEF Enqueue, Schedule, Submit, redis
  <1>4. Range(<<Fresh(u)>>) = {Fresh(u)}
    BY DEF Range
  <1>5. runs[u] \in Nat
    BY DEF TypeInv, TypeOK, HistoryOK
  <1>6. ASSUME NEW j \in Around' PROVE Past(j)'
    <2>1. j = Fresh(u) \/ j \in Around
      BY <1>1, <1>2, <1>3, <1>4, <1>6, AroundMoves DEF Around, Members
    <2>2. CASE j = Fresh(u)
      BY <1>3, <1>5, <2>2 DEF Past, Fresh
    <2> QED  BY <1>3, <2>1, <2>2 DEF Spent, Past
  <1>7. ASSUME NEW b \in Actors, pc'[b] = "bury" PROVE Exhausted(Head(hand[b]).task)'
    BY <1>2, <1>3, <1>7 DEF Moves, OthersKeep, Spent, Exhausted
  <1>8. \A i \in DOMAIN dead' : Exhausted(dead[i].task)'
    BY <1>3 DEF Spent, Exhausted
  <1> QED  BY <1>6, <1>7, <1>8 DEF Spent

LEMMA StoreSpent ==
  ASSUME TypeInv, Spent, NEW a \in Actors, LPush(a) \/ ZAdd(a)
  PROVE  Spent'
  <1> DEFINE j == Head(hand[a])
  <1>1. j \in Around /\ j \in Jobs
    BY HeadAround DEF LPush, ZAdd, At, TypeInv, Equipped
  <1>2. Finish(a) /\ UNCHANGED <<runs, dead>>
    BY DEF LPush, ZAdd, history
  <1>3. Range(pending) \subseteq Around /\ Members \subseteq Around
    BY DEF Around
  <1>4. Range(pending') \subseteq Around
    <2>1. pending' = pending \/ pending' = Append(pending, j)
      BY DEF LPush, ZAdd
    <2>2. pending \in Seq(Jobs)
      BY DEF TypeInv, TypeOK, RedisOK
    <2>3. Range(Append(pending, j)) = Range(pending) \union {j}
      BY <1>1, <2>2, RangeOfAppend
    <2> QED  BY <1>1, <1>3, <2>1, <2>3
  <1>5. Members' \subseteq Around
    <2>1. delayed' = delayed \/ delayed' = Scored(j, stamp[a])
      BY DEF LPush, ZAdd
    <2>2. Members' \subseteq Members \union {j}
      BY <2>1 DEF Members, Scored
    <2> QED  BY <1>1, <1>3, <2>2
  <1> QED  BY <1>2, <1>4, <1>5, FinishSpent

LEMMA BurySpent ==
  ASSUME TypeInv, Spent, NEW w \in Actors, Bury(w)
  PROVE  Spent'
  <1> DEFINE j == Head(hand[w])
  <1>1. Finish(w) /\ UNCHANGED <<runs, pending, delayed>>
    BY DEF Bury, history
  <1>2. Moves(w) /\ pc'[w] = "idle" /\ hand'[w] = <<>>
    BY <1>1, FinishMoves, FinishOrderly
  <1>3. ASSUME NEW k \in Around' PROVE Past(k)'
    <2>1. k \in Around
      BY <1>1, <1>2, <1>3, RangeEmpty, AroundMoves DEF Around, Members
    <2> QED  BY <1>1, <2>1 DEF Spent, Past
  <1>4. ASSUME NEW b \in Actors, pc'[b] = "bury" PROVE Exhausted(Head(hand[b]).task)'
    BY <1>1, <1>2, <1>4 DEF Moves, OthersKeep, Spent, Exhausted
  <1>5. j \in Jobs /\ Exhausted(j.task)
    BY HeadAround DEF Bury, At, TypeInv, Equipped, Spent
  <1>6. ASSUME NEW i \in DOMAIN dead' PROVE Exhausted(dead[i].task)'
    <2>1. CASE dead' = dead
      BY <1>1, <1>6, <2>1 DEF Spent, Exhausted
    <2>2. CASE dead' = Append(dead, j)
      <3>1. dead \in Seq(Jobs)
        BY DEF TypeInv, TypeOK, RedisOK
      <3>2. dead'[i] \in Range(Append(dead, j))
        BY <1>6, <2>2 DEF Range
      <3>3. dead'[i] = j \/ dead'[i] \in Range(dead)
        <4> HIDE DEF j
        <4> QED  BY <1>5, <3>1, <3>2, RangeOfAppend
      <3>4. Exhausted(dead'[i].task)
        BY <1>5, <3>3 DEF Spent, Range
      <3> QED  BY <1>1, <3>4 DEF Exhausted
    <2> QED  BY <2>1, <2>2 DEF Bury, DeadLetter
  <1> QED  BY <1>3, <1>4, <1>6 DEF Spent

LEMMA RunSpent ==
  ASSUME TypeInv, Spent, NEW w \in Workers, RunOk(w) \/ RunFails(w)
  PROVE  Spent'
  <1> DEFINE j == Head(hand[w])
  <1>1. w \in Actors
    BY DEF Actors
  <1>2. j \in Around /\ j \in Jobs /\ j.task \in Tasks /\ j.retry \in 0..MaxRetries
    BY <1>1, HeadAround DEF RunOk, RunFails, TypeInv, Equipped, Jobs
  <1>3. runs' = [runs EXCEPT ![j.task] = @ + 1] /\ runs \in [Tasks -> Nat] /\ MaxRetries \in Nat
    BY RetryAssumption DEF RunOk, RunFails, TypeInv, TypeOK, HistoryOK
  <1>4. \A t \in Tasks : runs[t] <= runs'[t] /\ runs[t] \in Nat /\ runs'[t] \in Nat
    BY <1>3
  <1>5. runs'[j.task] = runs[j.task] + 1 /\ j.retry <= runs[j.task]
    BY <1>2, <1>3 DEF Spent, Past
  <1>6. Moves(w)
    BY <1>1 DEF RunOk, RunFails, Request, Moves, OthersKeep, TypeInv, TypeOK, LocalOK
  <1>7. UNCHANGED <<pending, delayed, dead>>
    BY DEF RunOk, RunFails, redis
  <1>8. \/ hand'[w] = <<>> /\ pc'[w] # "bury"
        \/ hand'[w] = <<Retried(j)>> /\ pc'[w] # "bury"
        \/ hand'[w] = hand[w] /\ ~CanRetry(j)
    BY <1>1 DEF RunOk, RunFails, Request, TypeInv, TypeOK, LocalOK
  <1>9. ASSUME NEW k \in Around' PROVE Past(k)'
    <2>1. k \in Around \/ k = Retried(j)
      <3>1. Range(<<Retried(j)>>) = {Retried(j)}
        BY DEF Range
      <3>2. Range(hand'[w]) \subseteq Around \union {Retried(j)}
        BY <1>1, <1>8, <3>1, RangeEmpty DEF Around
      <3> HIDE DEF j
      <3> QED  BY <1>1, <1>6, <1>7, <1>9, <3>2, AroundMoves DEF Around, Members
    <2>2. CASE k \in Around
      <3>1. k.task \in Tasks /\ k.retry \in 0..MaxRetries /\ k.retry <= runs[k.task]
        BY <2>2, AroundJobs DEF Jobs, Spent, Past
      <3> QED  BY <1>3, <1>4, <3>1 DEF Past
    <2>3. CASE k = Retried(j)
      <3>1. k.task = j.task /\ k.retry = j.retry + 1
        BY <1>2, <2>3 DEF Retried, Jobs
      <3>2. j.retry \in Nat /\ runs[j.task] \in Nat
        BY <1>2, <1>4
      <3> HIDE DEF j
      <3> QED  BY <1>5, <3>1, <3>2 DEF Past
    <2> QED  BY <2>1, <2>2, <2>3
  <1>10. ASSUME NEW b \in Actors, pc'[b] = "bury" PROVE Exhausted(Head(hand[b]).task)'
    <2>1. CASE b = w
      <3>1. hand'[w] = hand[w] /\ ~CanRetry(j)
        BY <1>8, <1>10, <2>1
      <3>2. runs'[j.task] > MaxRetries
        <4>1. j.retry = MaxRetries /\ runs[j.task] \in Nat
          BY <1>2, <1>3, <1>4, <3>1 DEF CanRetry
        <4> HIDE DEF j
        <4> QED  BY <1>3, <1>5, <4>1
      <3> QED  BY <2>1, <3>1, <3>2 DEF Exhausted
    <2>2. CASE b # w
      <3>1. pc[b] = "bury" /\ hand'[b] = hand[b]
        BY <1>6, <1>10, <2>2 DEF Moves, OthersKeep
      <3>2. Exhausted(Head(hand[b]).task) /\ Head(hand[b]).task \in Tasks
        BY <3>1, HeadAround DEF Spent, TypeInv, Equipped, Jobs
      <3> QED  BY <1>3, <1>4, <3>1, <3>2 DEF Exhausted
    <2> QED  BY <2>1, <2>2
  <1>11. ASSUME NEW i \in DOMAIN dead' PROVE Exhausted(dead[i].task)'
    <2>1. dead[i] \in Jobs /\ Exhausted(dead[i].task)
      BY <1>7, <1>11 DEF Spent, TypeInv, TypeOK, RedisOK
    <2> QED  BY <1>3, <1>4, <1>7, <2>1 DEF Exhausted, Jobs
  <1> QED  BY <1>9, <1>10, <1>11 DEF Spent

LEMMA PollSpent ==
  ASSUME TypeInv, Tidy, Spent, NEW p \in Pollers, FetchDue(p) \/ ZRem(p) \/ RePush(p)
  PROVE  Spent'
  <1>1. p \in Actors /\ UNCHANGED <<runs, dead>>
    BY DEF FetchDue, ZRem, RePush, Actors, redis, history
  <1>2. Range(pending) \subseteq Around /\ Members \subseteq Around /\ Range(hand[p]) \subseteq Around
    BY <1>1 DEF Around
  <1>3. CASE FetchDue(p)
    <2>1. UNCHANGED <<pending, delayed>>
      BY <1>3 DEF FetchDue, redis
    <2>2. Range(pending') \subseteq Around /\ Members' \subseteq Around
      BY <1>2, <2>1 DEF Members
    <2>3. CASE Finish(p)
      BY <1>1, <2>2, <2>3, FinishSpent
    <2>4. ASSUME NEW s \in ByScore(DueAt(stamp[p])), hand' = [hand EXCEPT ![p] = JobsOf(s)],
                 toRemove' = [toRemove EXCEPT ![p] = JobsOf(s)],
                 pc' = [pc EXCEPT ![p] = "zrem"]
          PROVE  Spent'
      <3>1. Moves(p) /\ hand'[p] = JobsOf(s) /\ pc'[p] # "bury"
        BY <1>1, <2>4 DEF Moves, OthersKeep, TypeInv, TypeOK, LocalOK
      <3>2. Range(JobsOf(s)) \subseteq Members
        BY <1>1, BatchOrderly DEF Tidy
      <3> QED  BY <1>1, <1>2, <2>2, <3>1, <3>2, SpentStep
    <2> QED  BY <1>3, <2>3, <2>4 DEF FetchDue
  <1>4. CASE ZRem(p)
    <2>1. pending' = pending /\ Members' \subseteq Members
      BY <1>4 DEF ZRem, Members, Removed
    <2>2. Range(pending') \subseteq Around /\ Members' \subseteq Around
      BY <1>2, <2>1
    <2>3. CASE Finish(p)
      BY <1>1, <2>2, <2>3, FinishSpent
    <2>4. ASSUME NEW rest, pc' = [pc EXCEPT ![p] = AfterZRem(rest)],
                 toRemove' = [toRemove EXCEPT ![p] = rest], hand' = hand
          PROVE  Spent'
      <3>1. Moves(p) /\ hand'[p] = hand[p] /\ pc'[p] # "bury"
        BY <1>1, <2>4 DEF Moves, OthersKeep, TypeInv, TypeOK, LocalOK, AfterZRem
      <3> QED  BY <1>1, <1>2, <2>2, <3>1, SpentStep
    <2> QED  BY <1>4, <2>3, <2>4 DEF ZRem
  <1>5. CASE RePush(p)
    <2> DEFINE j == Head(hand[p])
    <2>1. hand[p] \in Seq(Jobs) /\ hand[p] # <<>> /\ pc[p] = "repush"
      BY <1>1, <1>5 DEF RePush, At, TypeInv, TypeOK, LocalOK, Equipped
    <2>2. Range(Tail(hand[p])) \subseteq Range(hand[p]) /\ j \in Range(hand[p]) /\ j \in Jobs
      BY <2>1, RangeOfTail, HeadTailProperties
    <2>3. delayed' = delayed /\ (pending' = pending \/ pending' = Append(pending, j))
      BY <1>5 DEF RePush
    <2>4. Range(pending') \subseteq Range(pending) \union {j}
      <3> HIDE DEF j
      <3> QED  BY <2>2, <2>3, RangeOfAppend DEF TypeInv, TypeOK, RedisOK
    <2>5. Range(pending') \subseteq Around /\ Members' \subseteq Around
      BY <1>2, <2>2, <2>3, <2>4 DEF Members
    <2>6. CASE Finish(p)
      BY <1>1, <2>5, <2>6, FinishSpent
    <2>7. CASE hand' = [hand EXCEPT ![p] = Tail(@)]
               /\ UNCHANGED <<lockq, pc, toRemove, stamp, stats>>
      <3>1. Moves(p) /\ hand'[p] = Tail(hand[p]) /\ pc'[p] # "bury"
        BY <1>1, <2>1, <2>7 DEF Moves, OthersKeep, TypeInv, TypeOK, LocalOK
      <3> QED  BY <1>1, <1>2, <2>2, <2>5, <3>1, SpentStep
    <2> QED  BY <1>5, <2>5, <2>6, <2>7, <1>1, FinishSpent DEF RePush
  <1> QED  BY <1>3, <1>4, <1>5

LEMMA PopSpent ==
  ASSUME TypeInv, Spent, NEW w \in Workers, Pop(w) \/ PopNothing(w) \/ RequestPop(w)
  PROVE  Spent'
  <1>1. w \in Actors /\ UNCHANGED <<runs, dead, delayed>>
    BY DEF Pop, PopNothing, RequestPop, Actors, redis, history
  <1>2. Range(pending) \subseteq Around /\ Members' \subseteq Around /\ Range(hand[w]) \subseteq Around
    BY <1>1 DEF Around, Members
  <1>3. Range(pending') \subseteq Around
    <2>1. CASE pending' = pending
      BY <1>2, <2>1
    <2>2. CASE pending' = Tail(pending) /\ pending # <<>>
      BY <1>2, <2>2, RangeOfTail DEF TypeInv, TypeOK, RedisOK
    <2> QED  BY <2>1, <2>2 DEF Pop, PopNothing, RequestPop, redis
  <1>4. CASE Finish(w)
    BY <1>1, <1>2, <1>3, <1>4, FinishSpent
  <1>5. CASE RequestPop(w)
    <2>1. Moves(w) /\ hand'[w] = hand[w] /\ pc'[w] # "bury"
      BY <1>1, <1>5 DEF RequestPop, Request, Moves, OthersKeep, TypeInv, TypeOK, LocalOK
    <2> QED  BY <1>1, <1>2, <1>3, <2>1, SpentStep
  <1>6. CASE /\ pc' = [pc EXCEPT ![w] = "run"] /\ pending # <<>>
             /\ hand' = [hand EXCEPT ![w] = <<Head(pending)>>] /\ toRemove' = toRemove
    <2>1. Moves(w) /\ hand'[w] = <<Head(pending)>> /\ pc'[w] # "bury"
      BY <1>1, <1>6 DEF Moves, OthersKeep, TypeInv, TypeOK, LocalOK
    <2>2. Head(pending) \in Around
      BY <1>2, <1>6, RangeOfTail DEF TypeInv, TypeOK, RedisOK
    <2>3. Range(<<Head(pending)>>) \subseteq Around
      BY <2>2 DEF Range
    <2> QED  BY <1>1, <1>2, <1>3, <2>1, <2>3, SpentStep
  <1> QED  BY <1>4, <1>5, <1>6 DEF Pop, PopNothing

LEMMA StillSpent ==
  ASSUME TypeInv, Spent, NEW a \in Actors,
         StartPoll(a) \/ StartStats(a) \/ LLenPending(a) \/ ZCard(a) \/ LLenDead(a)
  PROVE  Spent'
  <1>1. UNCHANGED <<runs, dead, delayed, pending>>
    BY DEF StartPoll, StartStats, LLenPending, ZCard, LLenDead, ReadStat, redis, history
  <1>2. Range(pending') \subseteq Around /\ Members' \subseteq Around /\ Range(hand[a]) \subseteq Around
    BY <1>1 DEF Around, Members
  <1>3. CASE Finish(a)
    BY <1>1, <1>2, <1>3, FinishSpent
  <1>4. CASE hand' = hand /\ \E next \in {"zrange", "llen", "zcard", "ldead"} :
                                pc' = [pc EXCEPT ![a] = next]
             /\ toRemove' = toRemove
    <2>1. Moves(a) /\ hand'[a] = hand[a] /\ pc'[a] # "bury"
      BY <1>4 DEF Moves, OthersKeep, TypeInv, TypeOK, LocalOK
    <2> QED  BY <1>1, <1>2, <2>1, SpentStep
  <1> QED  BY <1>3, <1>4 DEF StartPoll, StartStats, Request, LLenPending, ZCard, LLenDead, ReadStat

LEMMA CrashSpent ==
  ASSUME Spent, NEW p \in Procs, Crash(p)
  PROVE  Spent'
  <1>1. UNCHANGED <<runs, dead, delayed, pending>>
    BY DEF Crash, redis, history
  <1>2. ASSUME NEW a \in Actors PROVE \/ hand'[a] = <<>> /\ pc'[a] = "idle"
                                      \/ hand'[a] = hand[a] /\ pc'[a] = pc[a]
    BY DEF Crash, Cleared
  <1>3. ASSUME NEW j \in Around' PROVE j \in Around
    <2>1. \A a \in Actors : j \in Range(hand'[a]) => j \in Range(hand[a])
      BY <1>2, RangeEmpty
    <2> QED  BY <1>1, <1>3, <2>1 DEF Around, Members, Range
  <1> QED  BY <1>1, <1>2, <1>3 DEF Spent, Past, Exhausted

LEMMA SpentNext == ASSUME TypeInv, Tidy, Spent, [Next]_vars PROVE Spent'
  <1>0. Clients \subseteq Actors /\ Workers \subseteq Actors
        /\ Pollers \subseteq Actors /\ Monitors \subseteq Actors
    BY DEF Actors
  <1>1. ASSUME NEW c \in Clients, ClientStep(c) PROVE Spent'
    BY <1>0, <1>1, StoreSpent DEF ClientStep
  <1>2. ASSUME NEW w \in Workers, WorkerStep(w) PROVE Spent'
    BY <1>0, <1>2, PopSpent, RunSpent, StoreSpent, BurySpent DEF WorkerStep
  <1>3. ASSUME NEW p \in Pollers, PollerStep(p) PROVE Spent'
    BY <1>0, <1>3, PollSpent, StillSpent DEF PollerStep
  <1>4. ASSUME NEW m \in Monitors, StartStats(m) \/ MonitorStep(m) PROVE Spent'
    BY <1>0, <1>4, StillSpent DEF MonitorStep
  <1>5. CASE UNCHANGED vars \/ Tick
    <2>1. UNCHANGED <<pending, delayed, dead, hand, pc, runs>>
      BY <1>5 DEF Tick, vars, local, redis, history
    <2> QED  BY <2>1 DEF Spent, Past, Exhausted, Around, Members, Range
  <1> QED  BY <1>1, <1>2, <1>3, <1>4, <1>5, SubmitSpent, CrashSpent DEF Next

-----------------------------------------------------------------------------
LEMMA NextGrants ==
  ASSUME TypeInv, TypeInv', Tidy, NEW t \in Tasks, IsFiniteSet(InHand(t)), IsFiniteSet(InHand(t)'),
         [Next]_vars
  PROVE  Grants(t)
  <1>0. /\ Clients \subseteq Actors /\ Workers \subseteq Actors
        /\ Pollers \subseteq Actors /\ Monitors \subseteq Actors
        /\ Clients \intersect Pollers = {} /\ Workers \intersect Pollers = {}
    BY KindsAssumption DEF Actors
  <1>1. ASSUME Thrifty(t), UNCHANGED <<submitted, doubled>> PROVE Grants(t)
    BY <1>1 DEF Grants, Issued
  <1>2. ASSUME NEW c \in Clients, ClientStep(c) PROVE Grants(t)
    <2>1. UNCHANGED <<submitted, doubled>>
      BY <1>2 DEF ClientStep, LPush, ZAdd, history
    <2> QED  BY <1>0, <1>1, <1>2, <2>1, StoreThrifty DEF ClientStep
  <1>3. ASSUME NEW w \in Workers, WorkerStep(w) PROVE Grants(t)
    <2>1. UNCHANGED <<submitted, doubled>>
      BY <1>3 DEF WorkerStep, RequestPop, Pop, PopNothing, RunOk, RunFails, ZAdd, Bury, history
    <2>2. CASE PopNothing(w)
      BY <1>0, <1>1, <2>1, <2>2, FinishThrifty DEF PopNothing, redis, history
    <2>3. CASE ~PopNothing(w)
      <3>1. Thrifty(t)
        BY <1>0, <1>3, <2>3, StoreThrifty, RequestThrifty, PopThrifty, RunThrifty DEF WorkerStep
      <3> QED  BY <1>1, <2>1, <3>1
    <2> QED  BY <2>2, <2>3
  <1>4. ASSUME NEW p \in Pollers, PollerStep(p) PROVE Grants(t)
    <2>1. CASE ZRem(p)
      BY <2>1, ZRemGrants
    <2>2. CASE StartPoll(p) \/ FetchDue(p) \/ RePush(p)
      <3>1. UNCHANGED <<submitted, doubled>>
        BY <2>2 DEF StartPoll, FetchDue, RePush, history
      <3> QED  BY <1>0, <1>1, <2>2, <3>1, RequestThrifty, FetchDueThrifty, RePushThrifty
    <2> QED  BY <1>4, <2>1, <2>2 DEF PollerStep
  <1>5. ASSUME NEW m \in Monitors, StartStats(m) \/ MonitorStep(m) PROVE Grants(t)
    <2>1. UNCHANGED <<submitted, doubled>>
      BY <1>5 DEF StartStats, MonitorStep, LLenPending, ZCard, LLenDead, ReadStat, history
    <2> QED  BY <1>0, <1>1, <1>5, <2>1, RequestThrifty, MonitorThrifty
  <1>6. ASSUME NEW p \in Procs, Crash(p) PROVE Grants(t)
    BY <1>1, <1>6, CrashThrifty DEF Crash, history
  <1>7. CASE UNCHANGED vars \/ Tick
    <2>1. UNCHANGED <<pending, delayed, hand, toRemove, pc, runs, submitted, doubled>>
      BY <1>7 DEF Tick, vars, local, redis, history
    <2>2. QueuedLeft(t)' = QueuedLeft(t) /\ TimedLeft(t)' = TimedLeft(t)
      BY <2>1, Unmoved
    <2>3. HandLeft(t)' = HandLeft(t)
      BY <2>1 DEF HandLeft, Left, Tickets, Able, InHand, Loose
    <2>4. TotalOK(t)
      BY TotalType DEF TotalOK
    <2>5. Thrifty(t)
      BY <2>1, <2>2, <2>3, <2>4 DEF Thrifty, Total, TotalOK
    <2> QED  BY <1>1, <2>1, <2>5
  <1> QED  BY <1>2, <1>3, <1>4, <1>5, <1>6, <1>7, SubmitGrants DEF Next

\* Each copy issued is worth MaxRetries + 1 runs.
LEMMA OneMore ==
  ASSUME NEW m \in Nat, NEW s \in Nat
  PROVE  m * (s + 1) = m * s + m /\ m * s \in Nat
  OBVIOUS

Budget(t) == Total(t) <= (MaxRetries + 1) * Issued(t)

AttemptsInv == CountInv /\ Spent /\ \A t \in Tasks : Budget(t)

LEMMA AttemptsInit == ASSUME Init PROVE AttemptsInv
  <1>1. CountInv /\ TypeInv
    BY CountInit DEF CountInv
  <1>2. Around = {}
    BY RangeEmpty DEF Init, Around, Members
  <1>3. Spent
    BY <1>2 DEF Init, Spent
  <1>4. ASSUME NEW t \in Tasks PROVE Budget(t)
    <2>1. \A a \in Actors : Loose(a) = {}
      BY EmptyHand DEF Init
    <2>2. InHand(t) = {} /\ Scheduled(t) = {}
      BY <2>1 DEF Init, InHand, Scheduled
    <2>3. Queued(pending, t) = {} /\ Timed(t) = {} /\ Able(t) = {}
      BY <2>2 DEF Init, Queued, Timed, Able
    <2>4. Left({}) = {} /\ Cardinality({}) = 0
      BY FS_EmptySet DEF Left
    <2>5. Total(t) = 0
      <3>1. QueuedLeft(t) = 0 /\ TimedLeft(t) = 0 /\ HandLeft(t) = 0
        BY <2>3, <2>4 DEF QueuedLeft, TimedLeft, HandLeft
      <3>2. runs[t] = 0
        BY DEF Init
      <3> QED  BY <3>1, <3>2 DEF Total
    <2>6. Issued(t) = 0
      BY DEF Init, Issued
    <2>7. (MaxRetries + 1) * 0 = 0
      BY RetryAssumption
    <2> QED  BY <2>5, <2>6, <2>7 DEF Budget
  <1> QED  BY <1>1, <1>3, <1>4 DEF AttemptsInv

LEMMA AttemptsNext == ASSUME AttemptsInv, [Next]_vars PROVE AttemptsInv'
  <1>1. CountInv /\ CountInv'
    BY CountNext DEF AttemptsInv
  <1>2. TypeInv /\ TypeInv' /\ Tidy
    BY <1>1 DEF CountInv
  <1>3. Spent'
    BY <1>2, SpentNext DEF AttemptsInv
  <1>4. ASSUME NEW t \in Tasks PROVE Budget(t)'
    <2>1. IsFiniteSet(InHand(t)) /\ IsFiniteSet(InHand(t)')
      BY <1>1 DEF CountInv, Books
    <2>2. TotalOK(t) /\ TotalOK(t)' /\ Budget(t) /\ Issued(t) \in Nat /\ MaxRetries + 1 \in Nat
      BY <1>2, <2>1, TotalType, TotalAfter, RetryAssumption
      DEF TotalOK, AttemptsInv, TypeInv, TypeOK, HistoryOK, Issued
    <2>3. Grants(t)
      BY <1>2, <2>1, NextGrants
    <2> DEFINE m == MaxRetries + 1
               s == Issued(t)
    <2>4. m * (s + 1) = m * s + m /\ m * s \in Nat
      BY <2>2, OneMore
    <2>5. m \in Nat /\ Total(t) \in Nat /\ Total(t)' \in Nat /\ Total(t) <= m * s
      BY <2>2 DEF TotalOK, Budget
    <2>6. \/ Total(t)' <= Total(t) /\ Issued(t)' = s
          \/ Total(t)' <= Total(t) + m /\ Issued(t)' = s + 1
      BY <2>3 DEF Grants, Thrifty
    <2>7. Total(t)' <= m * Issued(t)'
      <3> DEFINE ms == m * s
      <3>1. m * (s + 1) = ms + m /\ ms \in Nat /\ Total(t) <= ms
        BY <2>4, <2>5
      <3> HIDE DEF m, s, ms
      <3>2. CASE Total(t)' <= Total(t) /\ Issued(t)' = s
        <4>1. Total(t)' <= ms
          BY <2>5, <3>1, <3>2
        <4> QED  BY <3>2, <4>1 DEF ms
      <3>3. CASE Total(t)' <= Total(t) + m /\ Issued(t)' = s + 1
        <4>1. Total(t)' <= ms + m
          BY <2>5, <3>1, <3>3
        <4> QED  BY <3>1, <3>3, <4>1
      <3> QED  BY <2>6, <3>2, <3>3
    <2> QED  BY <2>7 DEF Budget
  <1> QED  BY <1>1, <1>3, <1>4 DEF AttemptsInv

LEMMA AttemptsHold == Spec => []AttemptsInv
  BY AttemptsInit, AttemptsNext, PTL DEF Spec

\* However often a task is retried, and whatever fails, its handler runs at
\* most MaxRetries + 1 times for each copy issued, and a dead letter is written
\* only after that many runs.
THEOREM AttemptsBoundedCorrect == Spec => []AttemptsBounded
  <1>1. ASSUME AttemptsInv, NEW t \in Tasks
        PROVE  /\ runs[t] <= (MaxRetries + 1) * Issued(t)
               /\ OfTask(dead, t) > 0 => runs[t] > MaxRetries
    <2>1. TotalOK(t) /\ Total(t) <= (MaxRetries + 1) * Issued(t)
          /\ (MaxRetries + 1) * Issued(t) \in Nat
      <3>1. CountInv /\ TypeInv /\ Budget(t) /\ IsFiniteSet(InHand(t))
        BY <1>1 DEF AttemptsInv, CountInv, Books
      <3>2. Issued(t) \in Nat /\ MaxRetries + 1 \in Nat
        BY <3>1, RetryAssumption DEF TypeInv, TypeOK, HistoryOK, Issued
      <3>3. (MaxRetries + 1) * Issued(t) \in Nat
        BY <3>2, OneMore
      <3> QED  BY <3>1, <3>3, TotalType DEF TotalOK, Budget
    <2> DEFINE b == (MaxRetries + 1) * Issued(t)
    <2>2. runs[t] <= b
      <3>1. b \in Nat /\ Total(t) <= b
        BY <2>1
      <3> HIDE DEF b
      <3> QED  BY <2>1, <3>1 DEF TotalOK, Total
    <2>3. ASSUME OfTask(dead, t) > 0 PROVE runs[t] > MaxRetries
      <3>1. PICK i \in DOMAIN dead : dead[i].task = t
        <4> DEFINE S == {i \in DOMAIN dead : dead[i].task = t}
        <4>1. Cardinality(S) > 0
          BY <2>3 DEF OfTask
        <4>2. S # {}
          <5> HIDE DEF S
          <5> QED  BY <4>1, FS_EmptySet
        <4> QED  BY <4>2
      <3> QED  BY <1>1, <3>1 DEF AttemptsInv, Spent, Exhausted
    <2> QED  BY <2>2, <2>3
  <1>2. AttemptsInv => AttemptsBounded
    BY <1>1 DEF AttemptsBounded
  <1> QED  BY <1>2, AttemptsHold, PTL

-----------------------------------------------------------------------------
(***************************************************************************)
(* Nothing doubled.  A poller keeps the mutex of its process from the      *)
(* ZRANGEBYSCORE to its last ZREM, and only pollers remove members: if all *)
(* are of one process, what one has yet to remove is still there.          *)
(***************************************************************************)
Removes(p) ==
    /\ toRemove[p] # <<>> => Holds(p)
    /\ Range(toRemove[p]) \subseteq Members

\* What a step of an actor may do to the mutex of its process.
Queues(a) ==
    \/ UNCHANGED lockq
    \/ lockq' = [lockq EXCEPT ![Home[a]] = Append(@, a)]
    \/ Holds(a) /\ Unlock(a)

\* The members stay when another actor moves.
LEMMA OthersRemove ==
  ASSUME TypeInv, NEW a \in Actors, NEW p \in Actors \ {a}, Removes(p), Queues(a),
         toRemove'[p] = toRemove[p], Members \subseteq Members'
  PROVE  Removes(p)'
  <1>1. ASSUME Holds(p) PROVE Holds(p)'
    <2>1. CASE Holds(a) /\ Unlock(a)
      <3>1. Home[a] # Home[p]
        BY <1>1, <2>1 DEF Holds
      <3>2. Home[p] \in Procs /\ lockq \in [Procs -> Seq(Actors)]
        BY HomeType DEF TypeInv, TypeOK, LocalOK
      <3> QED  BY <1>1, <2>1, <3>1, <3>2 DEF Unlock, Holds
    <2> QED  BY <1>1, <2>1, HolderStays DEF Queues
  <1> QED  BY <1>1 DEF Removes

Removing == \A p \in Pollers : Removes(p)

LEMMA RemovingMoves ==
  ASSUME TypeInv, Removing, NEW a \in Actors, Queues(a), OthersKeep(a),
         Members \subseteq Members', a \in Pollers => Removes(a)'
  PROVE  Removing'
  <1>1. ASSUME NEW p \in Pollers \ {a} PROVE Removes(p)'
    BY OthersRemove DEF Removing, OthersKeep, Actors
  <1> QED  BY <1>1 DEF Removing

\* Whoever returns has nothing left to remove.
LEMMA FinishRemoves ==
  ASSUME TypeInv, Removing, NEW a \in Actors, Holds(a), Finish(a), Members \subseteq Members'
  PROVE  Removing'
  <1>1. OthersKeep(a) /\ toRemove'[a] = <<>> /\ Queues(a)
    BY FinishOrderly DEF OthersKeep, Queues, Finish
  <1>2. Removes(a)'
    BY <1>1 DEF Removes, Range
  <1> QED  BY <1>1, <1>2, RemovingMoves

\* Whoever keeps what it has to remove keeps the mutex.
LEMMA StillRemoves ==
  ASSUME TypeInv, Removing, NEW a \in Actors,
         UNCHANGED lockq \/ lockq' = [lockq EXCEPT ![Home[a]] = Append(@, a)],
         UNCHANGED toRemove, OthersKeep(a), Members \subseteq Members'
  PROVE  Removing'
  <1>1. ASSUME a \in Pollers PROVE Removes(a)'
    BY <1>1, HolderStays DEF Removing, Removes
  <1> QED  BY <1>1, RemovingMoves DEF Queues

LEMMA SubmitRemoves ==
  ASSUME TypeInv, Removing, NEW c \in Clients, NEW t \in Tasks,
         Enqueue(c, t) \/ \E d \in Delays : Schedule(c, t, d)
  PROVE  Removing'
  <1>1. c \in Actors
    BY DEF Actors
  <1>2. UNCHANGED <<toRemove, delayed>> /\ OthersKeep(c)
    BY <1>1 DEF Enqueue, Schedule, Submit, redis, OthersKeep, TypeInv, TypeOK, LocalOK
  <1>3. lockq' = [lockq EXCEPT ![Home[c]] = Append(@, c)]
    BY DEF Enqueue, Schedule, Request
  <1> QED  BY <1>1, <1>2, <1>3, StillRemoves DEF Members

LEMMA StoreRemoves ==
  ASSUME TypeInv, Removing, NEW a \in Actors, LPush(a) \/ ZAdd(a) \/ PopNothing(a) \/ Bury(a)
  PROVE  Removing'
  <1>1. Holds(a) /\ Finish(a)
    BY DEF LPush, ZAdd, PopNothing, Bury, At
  <1>2. Members \subseteq Members'
    <2>1. CASE delayed' = delayed
      BY <2>1 DEF Members
    <2>2. CASE delayed' = Scored(Head(hand[a]), stamp[a])
      BY <2>2, ScoredMembers
    <2> QED  BY <2>1, <2>2 DEF LPush, ZAdd, PopNothing, Bury, redis
  <1> QED  BY <1>1, <1>2, FinishRemoves

LEMMA WorkRemoves ==
  ASSUME TypeInv, Removing, NEW w \in Workers, RequestPop(w) \/ Pop(w) \/ RunOk(w) \/ RunFails(w)
  PROVE  Removing'
  <1>1. w \in Actors /\ w \notin Pollers /\ delayed' = delayed
    BY KindsAssumption DEF RequestPop, Pop, RunOk, RunFails, redis, Actors
  <1>2. CASE Pop(w) /\ Finish(w)
    BY <1>1, <1>2, FinishRemoves DEF Pop, At, Members
  <1>3. CASE Pop(w) /\ Unlock(w) /\ UNCHANGED toRemove
             /\ hand' = [hand EXCEPT ![w] = <<Head(pending)>>]
    <2>1. Holds(w) /\ OthersKeep(w) /\ Queues(w)
      BY <1>3 DEF Pop, At, OthersKeep, Queues, TypeInv, TypeOK, LocalOK
    <2> QED  BY <1>1, <1>3, <2>1, RemovingMoves DEF Members
  <1>4. CASE RequestPop(w) \/ RunOk(w) \/ RunFails(w)
    <2>1. UNCHANGED toRemove /\ OthersKeep(w)
      BY <1>4 DEF RequestPop, RunOk, RunFails, OthersKeep, TypeInv, TypeOK, LocalOK
    <2>2. UNCHANGED lockq \/ lockq' = [lockq EXCEPT ![Home[w]] = Append(@, w)]
      <3>1. CASE RequestPop(w) \/ RunFails(w)
        BY <3>1 DEF RequestPop, RunFails, Request
      <3>2. CASE RunOk(w)
        BY <3>2 DEF RunOk
      <3> QED  BY <1>4, <3>1, <3>2
    <2> QED  BY <1>1, <2>1, <2>2, StillRemoves DEF Members
  <1> QED  BY <1>2, <1>3, <1>4 DEF Pop

\* The batch is in the sorted set when it is read.
LEMMA FetchDueRemoves ==
  ASSUME TypeInv, Tidy, Removing, NEW p \in Actors, FetchDue(p)
  PROVE  Removing'
  <1>1. Holds(p) /\ delayed' = delayed /\ Members' = Members
    BY DEF FetchDue, At, redis, Members
  <1>2. CASE Finish(p)
    BY <1>1, <1>2, FinishRemoves
  <1>3. ASSUME NEW s \in ByScore(DueAt(stamp[p])),
               hand' = [hand EXCEPT ![p] = JobsOf(s)],
               toRemove' = [toRemove EXCEPT ![p] = JobsOf(s)],
               UNCHANGED <<lockq, stamp, stats>>
        PROVE  Removing'
    <2>1. Range(JobsOf(s)) \subseteq Members
      BY BatchOrderly DEF Tidy
    <2>2. toRemove'[p] = JobsOf(s) /\ OthersKeep(p)
      BY <1>3 DEF OthersKeep, TypeInv, TypeOK, LocalOK
    <2>3. Holds(p)' /\ Queues(p)
      BY <1>1, <1>3 DEF Holds, Queues
    <2>4. Removes(p)'
      BY <1>1, <2>1, <2>2, <2>3 DEF Removes
    <2> QED  BY <1>1, <2>2, <2>3, <2>4, RemovingMoves
  <1> QED  BY <1>2, <1>3 DEF FetchDue

\* While one poller removes a member no other of its process has any to remove.
LEMMA ZRemRemoves ==
  ASSUME PollsAlone, TypeInv, Tidy, Removing, NEW p \in Pollers, ZRem(p)
  PROVE  Removing' /\ doubled' = doubled
  <1> DEFINE j == Head(toRemove[p])
             rest == Tail(toRemove[p])
  <1>1. p \in Actors /\ Holds(p)
    BY DEF ZRem, At, Actors
  <1>2. toRemove[p] \in Seq(Jobs) /\ toRemove[p] # <<>> /\ IsInjective(toRemove[p])
    BY <1>1 DEF ZRem, At, Tidy, Orderly, TypeInv, TypeOK, LocalOK, Equipped
  <1>3. j \in Range(toRemove[p]) /\ Range(rest) \subseteq Range(toRemove[p]) \ {j}
        /\ j.task \in Tasks
    <2>1. j \in Jobs
      BY <1>2, HeadTailProperties
    <2> QED  BY <1>2, <2>1, InjectiveTail DEF Jobs
  <1>4. j \in Members /\ Range(rest) \subseteq Members \ {j}
    BY <1>3 DEF Removing, Removes
  <1>5. ASSUME NEW q \in Pollers \ {p} PROVE toRemove[q] = <<>>
    BY <1>1, <1>5 DEF PollsAlone, Removing, Removes, Holds
  <1>6. doubled' = doubled
    <2>1. Missing(j) = 0 /\ doubled \in [Tasks -> Nat]
      BY <1>4 DEF Missing, Merges, Members, TypeInv, TypeOK, HistoryOK
    <2>2. doubled' = doubled \/ doubled' = [doubled EXCEPT ![j.task] = @ + Missing(j)]
      BY DEF ZRem
    <2> HIDE DEF j
    <2> QED  BY <1>3, <2>1, <2>2
  <1>7. Members \ {j} \subseteq Members'
    BY DEF ZRem, Removed, Members
  <1>8. OthersKeep(p) /\ Removes(p)'
    <2>1. CASE Finish(p)
      <3>1. OthersKeep(p) /\ toRemove'[p] = <<>>
        BY <1>1, <2>1, FinishOrderly DEF OthersKeep
      <3> QED  BY <3>1 DEF Removes, Range
    <2>2. CASE /\ toRemove' = [toRemove EXCEPT ![p] = rest]
               /\ UNCHANGED <<lockq, hand, stamp, stats>>
      <3>1. OthersKeep(p) /\ toRemove'[p] = rest
        BY <1>1, <2>2 DEF OthersKeep, TypeInv, TypeOK, LocalOK
      <3>2. Holds(p)' /\ Range(rest) \subseteq Members'
        BY <1>1, <1>4, <1>7, <2>2 DEF Holds
      <3> QED  BY <3>1, <3>2 DEF Removes
    <2> QED  BY <2>1, <2>2 DEF ZRem
  <1>9. ASSUME NEW q \in Pollers \ {p} PROVE Removes(q)'
    <2>1. toRemove'[q] = <<>>
      BY <1>5, <1>8 DEF OthersKeep, Actors
    <2> QED  BY <2>1 DEF Removes, Range
  <1> QED  BY <1>6, <1>8, <1>9 DEF Removing

LEMMA RePushRemoves ==
  ASSUME TypeInv, Removing, NEW p \in Actors, RePush(p)
  PROVE  Removing'
  <1>1. Holds(p) /\ Members' = Members
    BY DEF RePush, At, Members
  <1>2. CASE Finish(p)
    BY <1>1, <1>2, FinishRemoves
  <1>3. CASE hand' = [hand EXCEPT ![p] = Tail(@)] /\ UNCHANGED <<lockq, pc, toRemove, stamp, stats>>
    <2>1. OthersKeep(p)
      BY <1>3 DEF OthersKeep, TypeInv, TypeOK, LocalOK
    <2> QED  BY <1>1, <1>3, <2>1, StillRemoves
  <1> QED  BY <1>2, <1>3 DEF RePush

LEMMA AskRemoves ==
  ASSUME TypeInv, Removing, NEW a \in Actors, StartPoll(a) \/ StartStats(a) \/ MonitorStep(a)
  PROVE  Removing'
  <1>1. Members' = Members
    BY DEF StartPoll, StartStats, MonitorStep, LLenPending, ZCard, LLenDead, ReadStat, redis, Members
  <1>2. CASE StartPoll(a) \/ StartStats(a)
    <2>1. UNCHANGED toRemove /\ OthersKeep(a)
      BY <1>2 DEF StartPoll, StartStats, OthersKeep
    <2>2. lockq' = [lockq EXCEPT ![Home[a]] = Append(@, a)]
      BY <1>2 DEF StartPoll, StartStats, Request
    <2> QED  BY <1>1, <2>1, <2>2, StillRemoves
  <1>3. CASE MonitorStep(a) /\ Finish(a)
    <2>1. Holds(a)
      BY <1>3 DEF MonitorStep, LLenPending, ZCard, LLenDead, ReadStat, At
    <2> QED  BY <1>1, <1>3, <2>1, FinishRemoves
  <1>4. CASE UNCHANGED <<lockq, hand, toRemove, stamp>>
    <2>1. OthersKeep(a)
      BY <1>4 DEF OthersKeep
    <2> QED  BY <1>1, <1>4, <2>1, StillRemoves
  <1> QED  BY <1>2, <1>3, <1>4 DEF MonitorStep, LLenPending, ZCard, LLenDead, ReadStat

\* A crash empties the queue for the mutex and the pollers' variables at once.
LEMMA CrashRemoves ==
  ASSUME TypeInv, Removing, NEW k \in Procs, Crash(k)
  PROVE  Removing'
  <1>1. Members' = Members
    BY DEF Crash, redis, Members
  <1>2. ASSUME NEW p \in Pollers PROVE Removes(p)'
    <2>0. p \in Actors /\ Home[p] \in Procs /\ lockq \in [Procs -> Seq(Actors)]
      BY HomeType DEF Actors, TypeInv, TypeOK, LocalOK
    <2>1. CASE Home[p] = k
      <3>1. toRemove'[p] = <<>>
        BY <2>0, <2>1 DEF Crash, Cleared
      <3> QED  BY <3>1 DEF Removes, Range
    <2>2. CASE Home[p] # k
      <3>1. toRemove'[p] = toRemove[p] /\ lockq'[Home[p]] = lockq[Home[p]]
        BY <2>0, <2>2 DEF Crash, Cleared
      <3> QED  BY <1>1, <3>1 DEF Removing, Removes, Holds
    <2> QED  BY <2>1, <2>2
  <1> QED  BY <1>2 DEF Removing

LEMMA RemovingNext ==
  ASSUME PollsAlone, TypeInv, Tidy, Removing, [Next]_vars
  PROVE  Removing' /\ doubled' = doubled
  <1>0. /\ Clients \subseteq Actors /\ Workers \subseteq Actors
        /\ Pollers \subseteq Actors /\ Monitors \subseteq Actors
    BY DEF Actors
  <1>1. ASSUME NEW c \in Clients, NEW t \in Tasks,
               Enqueue(c, t) \/ \E d \in Delays : Schedule(c, t, d)
        PROVE  Removing' /\ doubled' = doubled
    BY <1>1, SubmitRemoves DEF Enqueue, Schedule, Submit
  <1>2. ASSUME NEW c \in Clients, ClientStep(c) PROVE Removing' /\ doubled' = doubled
    BY <1>0, <1>2, StoreRemoves DEF ClientStep, LPush, ZAdd, history
  <1>3. ASSUME NEW w \in Workers, WorkerStep(w) PROVE Removing' /\ doubled' = doubled
    <2>1. doubled' = doubled
      BY <1>3 DEF WorkerStep, RequestPop, Pop, PopNothing, RunOk, RunFails, ZAdd, Bury, history
    <2> QED  BY <1>0, <1>3, <2>1, StoreRemoves, WorkRemoves DEF WorkerStep
  <1>4. ASSUME NEW p \in Pollers, PollerStep(p) PROVE Removing' /\ doubled' = doubled
    <2>1. CASE ZRem(p)
      BY <2>1, ZRemRemoves
    <2>2. CASE StartPoll(p) \/ FetchDue(p) \/ RePush(p)
      <3>1. doubled' = doubled
        BY <2>2 DEF StartPoll, FetchDue, RePush, history
      <3> QED  BY <1>0, <2>2, <3>1, AskRemoves, FetchDueRemoves, RePushRemoves
    <2> QED  BY <1>4, <2>1, <2>2 DEF PollerStep
  <1>5. ASSUME NEW m \in Monitors, StartStats(m) \/ MonitorStep(m)
        PROVE  Removing' /\ doubled' = doubled
    <2>1. doubled' = doubled
      BY <1>5 DEF StartStats, MonitorStep, LLenPending, ZCard, LLenDead, ReadStat, history
    <2> QED  BY <1>0, <1>5, <2>1, AskRemoves
  <1>6. ASSUME NEW k \in Procs, Crash(k) PROVE Removing' /\ doubled' = doubled
    BY <1>6, CrashRemoves DEF Crash, history
  <1>7. CASE UNCHANGED vars \/ Tick
    BY <1>7 DEF Tick, vars, local, redis, history, Removing, Removes, Holds, Members
  <1> QED  BY <1>1, <1>2, <1>3, <1>4, <1>5, <1>6, <1>7 DEF Next

AloneInv == PollsAlone => Removing /\ \A t \in Tasks : doubled[t] = 0

LEMMA AloneInit == ASSUME Init PROVE AloneInv
  <1>1. ASSUME NEW p \in Pollers PROVE Removes(p)
    BY DEF Init, Removes, Range, Actors
  <1> QED  BY <1>1 DEF Init, AloneInv, Removing

LEMMA AloneNext == ASSUME CountInv, AloneInv, [Next]_vars PROVE AloneInv'
  <1>1. PollsAlone' <=> PollsAlone
    BY DEF PollsAlone
  <1>2. ASSUME PollsAlone PROVE Removing' /\ doubled' = doubled
    BY <1>2, RemovingNext DEF CountInv, AloneInv
  <1> QED  BY <1>1, <1>2 DEF AloneInv

\* Where the pollers are of one process no member is pushed twice, whatever
\* else fails, crashes or schedules meanwhile.
THEOREM NothingDoubledCorrect == Spec => []NothingDoubled
  <1>1. Init => CountInv /\ AloneInv
    BY CountInit, AloneInit
  <1>2. CountInv /\ AloneInv /\ [Next]_vars => (CountInv /\ AloneInv)'
    BY CountNext, AloneNext
  <1>3. AloneInv => NothingDoubled
    BY DEF AloneInv, NothingDoubled
  <1> QED  BY <1>1, <1>2, <1>3, PTL DEF Spec

-----------------------------------------------------------------------------
(***************************************************************************)
(* The refinement.  Where a task is, by what the phases are read from.     *)
(***************************************************************************)
\* The bound of the refinement: each task is submitted once.
SubmitsOnce == MaxSubmits = 1

Running(t) == \E w \in Workers : pc[w] = "run" /\ hand[w][1].task = t

Alive(t) == \E j \in Known : j.task = t

Buried(t) == OfTask(dead, t) > 0

LEMMA PhaseIs ==
  ASSUME NEW t
  PROVE  Phase(t) = IF Running(t) THEN "running"
                    ELSE IF done[t] > 0 THEN "done"
                    ELSE IF Buried(t) THEN "dead"
                    ELSE IF Alive(t) THEN "waiting"
                    ELSE IF submitted[t] > 0 THEN "lost"
                    ELSE "none"
  BY DEF Phase, Running, Buried, Alive

LEMMA PhaseWas ==
  ASSUME NEW t
  PROVE  Phase(t)' = IF Running(t)' THEN "running"
                     ELSE IF done'[t] > 0 THEN "done"
                     ELSE IF Buried(t)' THEN "dead"
                     ELSE IF Alive(t)' THEN "waiting"
                     ELSE IF submitted'[t] > 0 THEN "lost"
                     ELSE "none"
  BY DEF Phase, Running, Buried, Alive

\* What a step may do to a task nobody acts upon: nothing, or with something
\* going wrong, lose it.
Spared(t) ==
    \/ Phase(t)' = Phase(t)
    \/ Trouble' /\ Phase(t) \in {"waiting", "running"} /\ Phase(t)' = "lost"

LEMMA LedgerMishap ==
  ASSUME \A t \in Tasks : Spared(t), runs' = runs, Trouble => Trouble'
  PROVE  [Ledger!Next]_(Ledger!vars)
  <1> DEFINE S == {t \in Tasks : Phase(t)' # Phase(t)}
  <1>1. CASE ~Trouble'
    <2>1. [t \in Tasks |-> Phase(t)]' = [t \in Tasks |-> Phase(t)]
      BY <1>1 DEF Spared
    <2>2. (faults + crashes > 0)' = (faults + crashes > 0)
      BY <1>1 DEF Trouble
    <2> QED  BY <2>1, <2>2 DEF Ledger!vars
  <1>2. CASE Trouble'
    <2>1. S \in SUBSET {t \in Tasks : [u \in Tasks |-> Phase(u)][t] \in {"waiting", "running"}}
      BY DEF Spared
    <2>2. [t \in Tasks |-> Phase(t)]'
          = [t \in Tasks |-> IF t \in S THEN "lost" ELSE [u \in Tasks |-> Phase(u)][t]]
      BY DEF Spared
    <2>3. (faults + crashes > 0)' = TRUE
      BY <1>2 DEF Trouble
    <2> HIDE DEF S
    <2>4. Ledger!Mishap
      BY <2>1, <2>2, <2>3 DEF Ledger!Mishap
    <2> QED  BY <2>4 DEF Ledger!Next
  <1> QED  BY <1>1, <1>2

\* One task moves and the others stay.
LEMMA LedgerMove ==
  ASSUME NEW t \in Tasks, NEW from, NEW to, Phase(t) = from, Phase(t)' = to,
         \A u \in Tasks \ {t} : Phase(u)' = Phase(u)
  PROVE  Ledger!Move(t, from, to)
  <1>1. [u \in Tasks |-> Phase(u)]' = [[u \in Tasks |-> Phase(u)] EXCEPT ![t] = to]
    OBVIOUS
  <1> QED  BY <1>1 DEF Ledger!Move

LEMMA LedgerAttempt ==
  ASSUME NEW t \in Tasks, runs' = [runs EXCEPT ![t] = @ + 1], UNCHANGED <<faults, crashes>>,
         Phase(t) = "running", Phase(t)' \in {"done", "waiting"},
         \A u \in Tasks \ {t} : Phase(u)' = Phase(u)
  PROVE  Ledger!Next
  <1>1. Ledger!Attempted(t) /\ UNCHANGED (faults + crashes > 0)
    BY DEF Ledger!Attempted
  <1>2. CASE Phase(t)' = "done"
    <2>1. Ledger!Move(t, "running", "done")
      BY <1>2, LedgerMove
    <2>2. Ledger!Complete(t)
      BY <1>1, <2>1 DEF Ledger!Complete
    <2> QED  BY <2>2 DEF Ledger!Next
  <1>3. CASE Phase(t)' = "waiting"
    <2>1. Ledger!Move(t, "running", "waiting")
      BY <1>3, LedgerMove
    <2>2. Ledger!Fail(t)
      BY <1>1, <2>1 DEF Ledger!Fail
    <2> QED  BY <2>2 DEF Ledger!Next
  <1> QED  BY <1>2, <1>3

-----------------------------------------------------------------------------
(***************************************************************************)
(* A task that is submitted once has one copy, or one end.                 *)
(***************************************************************************)
InList(t) == \E i \in DOMAIN pending : pending[i].task = t

InSet(t) == \E e \in delayed : e.job.task = t

Held(t) == \E a \in Actors : \E j \in Loose(a) : j.task = t

\* The task has had no end yet.
Open(t) == done[t] = 0 /\ ~Buried(t)

Lone(t) ==
    /\ InList(t) => Open(t) /\ ~InSet(t) /\ ~Held(t)
    /\ InSet(t) => Open(t) /\ ~Held(t)
    /\ Held(t) => Open(t)
    /\ \A a, b \in Actors : \A j \in Loose(a), k \in Loose(b) :
          j.task = t /\ k.task = t => a = b /\ j = k
    /\ Alive(t) => submitted[t] > 0
    /\ submitted[t] = 0 => Open(t)

LEMMA AliveIs == ASSUME NEW t PROVE Alive(t) <=> InList(t) \/ InSet(t) \/ Held(t)
  BY DEF Alive, Known, InList, InSet, Held, Range

LEMMA NotNone ==
  ASSUME NEW S, IsFiniteSet(S), NEW x \in S
  PROVE  Cardinality(S) \in Nat /\ Cardinality(S) >= 1
  <1>1. Cardinality(S) \in Nat /\ Cardinality(S) # 0
    BY FS_EmptySet, FS_CardinalityType
  <1> QED  BY <1>1

LEMMA AtMostOne ==
  ASSUME NEW S, IsFiniteSet(S), Cardinality(S) <= 1, NEW x \in S, NEW y \in S
  PROVE  x = y
  <1>1. IsFiniteSet(S \ {x}) /\ Cardinality(S \ {x}) = Cardinality(S) - 1 /\ Cardinality(S) \in Nat
    BY FS_RemoveElement, FS_CardinalityType
  <1>2. ASSUME x # y PROVE FALSE
    <2>1. y \in S \ {x}
      BY <1>2
    <2> DEFINE T == S \ {x}
    <2>2. IsFiniteSet(T) /\ y \in T /\ Cardinality(T) = Cardinality(S) - 1
      BY <1>1, <2>1
    <2> HIDE DEF T
    <2>3. Cardinality(T) >= 1
      BY <2>2, NotNone
    <2> QED  BY <1>1, <2>2, <2>3
  <1> QED  BY <1>2

LEMMA LoneHolds ==
  ASSUME TypeInv, NEW t \in Tasks, Books(t), submitted[t] <= 1, doubled[t] = 0
  PROVE  Lone(t)
  <1> DEFINE p == OfTask(pending, t)
             d == OfTask(dead, t)
             z == Cardinality(Scheduled(t))
             h == Cardinality(InHand(t))
  <1>1. Numbers(t) /\ IsFiniteSet(InHand(t)) /\ submitted[t] \in Nat
    BY NumbersType DEF Books, TypeInv, TypeOK, HistoryOK
  <1>2. p + d + z + h + done[t] + merged[t] <= 1
        /\ p + d + z + h + done[t] + merged[t] <= submitted[t]
    <2>1. Issued(t) = submitted[t]
      BY <1>1 DEF Issued
    <2> QED  BY <1>1, <2>1 DEF Books, Accounted, Copies, Numbers
  <1>3. /\ p \in Nat /\ d \in Nat /\ z \in Nat /\ h \in Nat
        /\ done[t] \in Nat /\ merged[t] \in Nat /\ submitted[t] \in Nat
    BY <1>1 DEF Numbers
  <1>4. InList(t) => p >= 1
    <2>1. ASSUME NEW i \in DOMAIN pending, pending[i].task = t PROVE p >= 1
      <3>1. IsFiniteSet({k \in DOMAIN pending : pending[k].task = t})
        BY IndicesFinite DEF TypeInv, TypeOK, RedisOK
      <3> QED  BY <2>1, <3>1, NotNone DEF OfTask
    <2> QED  BY <2>1 DEF InList
  <1>5. InSet(t) => z >= 1
    BY <1>1, NotNone DEF InSet, Scheduled, Numbers
  <1>6. Held(t) => h >= 1
    <2>1. ASSUME NEW a \in Actors, NEW j \in Loose(a), j.task = t PROVE h >= 1
      <3>1. <<a, j>> \in InHand(t)
        BY <2>1, InHandIs
      <3> QED  BY <1>1, <3>1, NotNone
    <2> QED  BY <2>1 DEF Held
  <1>7. Buried(t) <=> d > 0
    BY DEF Buried
  <1>8. ASSUME NEW a \in Actors, NEW b \in Actors, NEW j \in Loose(a), NEW k \in Loose(b),
               j.task = t, k.task = t
        PROVE  a = b /\ j = k
    <2>1. <<a, j>> \in InHand(t) /\ <<b, k>> \in InHand(t)
      BY <1>8, InHandIs
    <2>2. Cardinality(InHand(t)) <= 1
      <3> HIDE DEF p, d, z
      <3> QED  BY <1>2, <1>3
    <2>3. <<a, j>> = <<b, k>>
      BY <1>1, <2>1, <2>2, AtMostOne
    <2> QED  BY <2>3
  <1>9. Alive(t) <=> InList(t) \/ InSet(t) \/ Held(t)
    BY AliveIs
  <1> HIDE DEF p, d, z, h
  <1>10. InList(t) => done[t] = 0 /\ d = 0 /\ z = 0 /\ h = 0
    BY <1>2, <1>3, <1>4
  <1>11. InSet(t) => done[t] = 0 /\ d = 0 /\ h = 0
    BY <1>2, <1>3, <1>5
  <1>12. Held(t) => done[t] = 0 /\ d = 0
    BY <1>2, <1>3, <1>6
  <1>13. InList(t) \/ InSet(t) \/ Held(t) => submitted[t] > 0
    BY <1>2, <1>3, <1>4, <1>5, <1>6
  <1>14. submitted[t] = 0 => done[t] = 0 /\ d = 0
    BY <1>2, <1>3
  <1> QED  BY <1>3, <1>5, <1>6, <1>7, <1>8, <1>9, <1>10, <1>11, <1>12, <1>13, <1>14 DEF Lone, Open

\* Whoever runs a task has it in hand.
LEMMA RunnerHolds ==
  ASSUME TypeInv, Tidy, NEW w \in Workers, hand[w] # <<>>
  PROVE  /\ w \in Actors /\ w \notin Pollers
         /\ Loose(w) = {Head(hand[w])} /\ Head(hand[w]) = hand[w][1]
         /\ Head(hand[w]) \in Jobs
  <1>1. w \in Actors /\ w \notin Pollers
    BY KindsAssumption DEF Actors
  <1>2. Loose(w) = {Head(hand[w])} /\ Head(hand[w]) \in Jobs
    BY <1>1, SingleHand
  <1>3. Head(hand[w]) = hand[w][1]
    OBVIOUS
  <1> QED  BY <1>1, <1>2, <1>3

LEMMA RunningHeld ==
  ASSUME TypeInv, Tidy, NEW t, Running(t)
  PROVE  Held(t)
  <1>1. PICK w \in Workers : pc[w] = "run" /\ hand[w][1].task = t
    BY DEF Running
  <1>2. hand[w] # <<>>
    BY <1>1, KindsAssumption DEF TypeInv, Equipped, Actors
  <1> QED  BY <1>1, <1>2, RunnerHolds DEF Held

-----------------------------------------------------------------------------
(***************************************************************************)
(* The steps that only move jobs about.                                    *)
(***************************************************************************)
LEMMA KnownMoves ==
  ASSUME NEW a \in Actors, OthersKeep(a), NEW j
  PROVE  /\ j \in Known' <=> \/ j \in Range(pending') \/ j \in Members' \/ j \in Loose(a)'
                             \/ \E b \in Actors \ {a} : j \in Loose(b)
         /\ j \in Known <=> \/ j \in Range(pending) \/ j \in Members \/ j \in Loose(a)
                            \/ \E b \in Actors \ {a} : j \in Loose(b)
  <1>1. ASSUME NEW b \in Actors \ {a} PROVE Loose(b)' = Loose(b)
    BY <1>1 DEF OthersKeep, Loose
  <1>2. Range(pending)' = Range(pending')
    BY DEF Range
  <1>3. j \in Known' <=> \/ j \in Range(pending)' \/ j \in Members'
                         \/ \E b \in Actors : j \in Loose(b)'
    BY DEF Known, Members
  <1>4. j \in Known <=> \/ j \in Range(pending) \/ j \in Members
                        \/ \E b \in Actors : j \in Loose(b)
    BY DEF Known, Members
  <1> QED  BY <1>1, <1>2, <1>3, <1>4

\* No job appears, and unless something went wrong none disappears.
Kept == Known' \subseteq Known /\ (Known \subseteq Known' \/ Trouble')

LEMMA RunningMoves ==
  ASSUME NEW a \in Actors, Moves(a), pc[a] # "run", pc'[a] # "run", NEW t
  PROVE  Running(t)' <=> Running(t)
  BY DEF Running, Moves, OthersKeep, Actors

LEMMA KeptSpares ==
  ASSUME TypeInv, Tidy, NEW t, Lone(t), NEW a \in Actors, Moves(a), pc[a] # "run", pc'[a] # "run",
         Kept, UNCHANGED <<dead, done, submitted>>
  PROVE  Spared(t)
  <1>1. Running(t)' <=> Running(t)
    BY RunningMoves
  <1>2. Buried(t)' <=> Buried(t)
    BY DEF Buried, OfTask
  <1>3. (Alive(t)' => Alive(t)) /\ (Alive(t) => Alive(t)' \/ Trouble')
    BY DEF Kept, Alive
  <1>4. Alive(t) => submitted[t] > 0
    BY DEF Lone
  <1>5. done'[t] = done[t] /\ submitted'[t] = submitted[t]
    OBVIOUS
  <1> QED  BY <1>1, <1>2, <1>3, <1>4, <1>5, PhaseIs, PhaseWas DEF Spared

\* Returning with nothing in hand, or after something went wrong.
LEMMA FinishKept ==
  ASSUME TypeInv, NEW a \in Actors, Finish(a), Loose(a) = {} \/ Trouble',
         UNCHANGED <<pending, delayed>>
  PROVE  Kept
  <1>1. Moves(a) /\ OthersKeep(a) /\ Loose(a)' = {}
    BY FinishMoves DEF Moves
  <1>2. Members' = Members
    BY DEF Members
  <1>3. ASSUME NEW j \in Known' PROVE j \in Known
    BY <1>1, <1>2, <1>3, KnownMoves
  <1>4. ASSUME Loose(a) = {}, NEW j \in Known PROVE j \in Known'
    BY <1>1, <1>2, <1>4, KnownMoves
  <1> QED  BY <1>3, <1>4 DEF Kept

LEMMA StillKept ==
  ASSUME NEW a \in Actors, OthersKeep(a), Loose(a)' = Loose(a), UNCHANGED <<pending, delayed>>
  PROVE  Kept
  <1>1. Members' = Members
    BY DEF Members
  <1>2. ASSUME NEW j PROVE j \in Known' <=> j \in Known
    BY <1>1, KnownMoves
  <1> QED  BY <1>2 DEF Kept

\* The job in hand goes to the main list or to the sorted set.
LEMMA StoreKept ==
  ASSUME TypeInv, Tidy, Calm, NEW a \in Actors, a \notin Pollers, LPush(a) \/ ZAdd(a)
  PROVE  Kept
  <1> DEFINE j == Head(hand[a])
  <1>1. Loose(a) = {j} /\ j \in Jobs
    BY SingleHand DEF LPush, ZAdd, At, TypeInv, Equipped
  <1>2. Finish(a) /\ UNCHANGED crashes
    BY DEF LPush, ZAdd, history
  <1>3. OthersKeep(a) /\ Loose(a)' = {}
    BY <1>2, FinishMoves DEF Moves
  <1>4. CASE Refused(a) /\ UNCHANGED <<pending, delayed>>
    BY <1>2, <1>4, Unanswered, FinishKept
  <1>5. CASE pending' = Append(pending, j) /\ UNCHANGED delayed
    <2>1. Range(pending') = Range(pending) \union {j}
      <3>1. pending \in Seq(Jobs)
        BY DEF TypeInv, TypeOK, RedisOK
      <3> HIDE DEF j
      <3> QED  BY <1>1, <1>5, <3>1, RangeOfAppend
    <2>2. Members' = Members
      BY <1>5 DEF Members
    <2> HIDE DEF j
    <2>3. ASSUME NEW k PROVE k \in Known' <=> k \in Known
      BY <1>1, <1>3, <2>1, <2>2, KnownMoves
    <2> QED  BY <2>3 DEF Kept
  <1>6. CASE delayed' = Scored(j, stamp[a]) /\ UNCHANGED pending
    <2>1. Members' = Members \union {j}
      <3>1. ASSUME NEW k \in Members PROVE k \in Members' \union {j}
        BY <1>6, <3>1 DEF Members, Scored
      <3>2. ASSUME NEW k \in Members' PROVE k \in Members \union {j}
        BY <1>6, <3>2 DEF Members, Scored
      <3>3. j \in Members'
        <4>1. [job |-> j, score |-> stamp[a]] \in delayed'
          BY <1>6 DEF Scored
        <4> QED  BY <4>1 DEF Members
      <3> QED  BY <3>1, <3>2, <3>3
    <2> HIDE DEF j
    <2>2. ASSUME NEW k PROVE k \in Known' <=> k \in Known
      BY <1>1, <1>3, <1>6, <2>1, KnownMoves
    <2> QED  BY <2>2 DEF Kept
  <1> QED  BY <1>4, <1>5, <1>6 DEF LPush, ZAdd

LEMMA FetchDueKept ==
  ASSUME TypeInv, Tidy, NEW p \in Pollers, FetchDue(p)
  PROVE  Kept
  <1>1. p \in Actors /\ UNCHANGED <<pending, delayed>>
    BY DEF FetchDue, Actors, redis
  <1>2. Loose(p) = {}
    BY <1>1, EmptyHand DEF FetchDue, At, Tidy, Orderly
  <1>3. CASE Finish(p)
    BY <1>1, <1>2, <1>3, FinishKept
  <1>4. ASSUME NEW s, hand' = [hand EXCEPT ![p] = s], toRemove' = [toRemove EXCEPT ![p] = s]
        PROVE  Kept
    <2>1. OthersKeep(p) /\ hand'[p] = toRemove'[p]
      BY <1>1, <1>4 DEF OthersKeep, TypeInv, TypeOK, LocalOK
    <2>2. Loose(p)' = {}
      BY <2>1 DEF Loose
    <2> QED  BY <1>1, <1>2, <2>1, <2>2, StillKept
  <1> QED  BY <1>3, <1>4 DEF FetchDue

LEMMA ZRemKept ==
  ASSUME TypeInv, Tidy, Calm, Removing, NEW p \in Pollers, ZRem(p)
  PROVE  Kept
  <1> DEFINE j == Head(toRemove[p])
             rest == Tail(toRemove[p])
  <1>1. p \in Actors /\ UNCHANGED <<pending, crashes>>
    BY DEF ZRem, Actors
  <1>2. toRemove[p] \in Seq(Jobs) /\ toRemove[p] # <<>> /\ IsInjective(toRemove[p])
        /\ Range(toRemove[p]) \subseteq Members \intersect Range(hand[p])
    BY <1>1 DEF ZRem, At, Tidy, Orderly, Removing, Removes, TypeInv, TypeOK, LocalOK, Equipped
  <1>3. /\ j \in Range(toRemove[p]) /\ Range(toRemove[p]) \subseteq Range(rest) \union {j}
        /\ Range(rest) \subseteq Range(toRemove[p]) \ {j}
    BY <1>2, InjectiveTail
  <1>4. CASE Refused(p) /\ Finish(p) /\ UNCHANGED delayed
    BY <1>1, <1>4, Unanswered, FinishKept
  <1>5. CASE delayed' = Removed(j)
    <2>1. Members' = Members \ {j} /\ j \in Members
      BY <1>2, <1>3, <1>5 DEF Members, Removed
    <2>2. CASE ReplyLost(p) /\ Finish(p)
      <3>1. OthersKeep(p) /\ Loose(p)' = {} /\ Trouble'
        BY <1>1, <2>2, FinishMoves, Unanswered DEF Moves
      <3>2. ASSUME NEW k \in Known' PROVE k \in Known
        BY <1>1, <2>1, <3>1, <3>2, KnownMoves
      <3> QED  BY <3>1, <3>2 DEF Kept
    <2>3. CASE toRemove' = [toRemove EXCEPT ![p] = rest] /\ UNCHANGED hand
      <3>1. OthersKeep(p) /\ hand'[p] = hand[p] /\ toRemove'[p] = rest
        BY <1>1, <2>3 DEF OthersKeep, TypeInv, TypeOK, LocalOK
      <3>2. Loose(p)' = Loose(p) \union {j}
        BY <1>2, <1>3, <3>1 DEF Loose
      <3> HIDE DEF j
      <3>3. ASSUME NEW k PROVE k \in Known' <=> k \in Known
        BY <1>1, <2>1, <3>1, <3>2, KnownMoves
      <3> QED  BY <3>3 DEF Kept
    <2> QED  BY <1>4, <2>2, <2>3 DEF ZRem
  <1> QED  BY <1>4, <1>5 DEF ZRem

LEMMA RePushKept ==
  ASSUME TypeInv, Tidy, Calm, NEW p \in Pollers, RePush(p)
  PROVE  Kept
  <1> DEFINE j == Head(hand[p])
  <1>1. p \in Actors /\ UNCHANGED <<delayed, crashes>> /\ Members' = Members
    BY DEF RePush, Actors, Members
  <1>2. hand[p] \in Seq(Jobs) /\ hand[p] # <<>> /\ IsInjective(hand[p]) /\ toRemove[p] = <<>>
    BY <1>1 DEF RePush, At, Tidy, Orderly, TypeInv, TypeOK, LocalOK, Equipped
  <1>3. /\ j \in Range(hand[p]) /\ j \in Jobs
        /\ Range(Tail(hand[p])) = Range(hand[p]) \ {j}
    BY <1>2, InjectiveTail, HeadTailProperties
  <1>4. Loose(p) = Range(hand[p])
    BY <1>2 DEF Loose, Range
  <1>5. CASE Refused(p) /\ Finish(p) /\ UNCHANGED pending
    BY <1>1, <1>5, Unanswered, FinishKept
  <1>6. CASE pending' = Append(pending, j)
    <2>1. Range(pending') = Range(pending) \union {j}
      <3>1. pending \in Seq(Jobs)
        BY DEF TypeInv, TypeOK, RedisOK
      <3> HIDE DEF j
      <3> QED  BY <1>3, <1>6, <3>1, RangeOfAppend
    <2>2. OthersKeep(p) /\ Loose(p)' \subseteq Loose(p) /\ (Loose(p)' = Loose(p) \ {j} \/ Trouble')
      <3>1. CASE ReplyLost(p) /\ Finish(p)
        BY <1>1, <3>1, FinishMoves, Unanswered DEF Moves
      <3>2. CASE Len(hand[p]) = 1 /\ Finish(p)
        <4>1. DOMAIN hand[p] = {1} /\ hand[p][1] = j
          BY <1>2, <3>2, LenProperties
        <4>2. Loose(p) = {j}
          BY <1>4, <4>1 DEF Range
        <4> QED  BY <1>1, <3>2, <4>2, FinishMoves DEF Moves
      <3>3. CASE hand' = [hand EXCEPT ![p] = Tail(@)]
                 /\ UNCHANGED <<lockq, pc, toRemove, stamp, stats>>
        <4>1. OthersKeep(p) /\ hand'[p] = Tail(hand[p]) /\ toRemove'[p] = <<>>
          BY <1>1, <1>2, <3>3 DEF OthersKeep, TypeInv, TypeOK, LocalOK
        <4> QED  BY <1>3, <1>4, <4>1, RangeEmpty DEF Loose
      <3>4. CASE Refused(p) /\ Finish(p)
        BY <1>1, <3>4, FinishMoves, Unanswered DEF Moves
      <3> QED  BY <3>1, <3>2, <3>3, <3>4 DEF RePush
    <2>3. j \in Loose(p)
      BY <1>3, <1>4
    <2> HIDE DEF j
    <2>4. ASSUME NEW k \in Known' PROVE k \in Known
      BY <1>1, <2>1, <2>2, <2>3, <2>4, KnownMoves
    <2>5. ASSUME Loose(p)' = Loose(p) \ {j}, NEW k \in Known PROVE k \in Known'
      BY <1>1, <2>1, <2>2, <2>3, <2>5, KnownMoves
    <2> QED  BY <2>2, <2>4, <2>5 DEF Kept
  <1> QED  BY <1>5, <1>6 DEF RePush

LEMMA RequestKept ==
  ASSUME TypeInv, Tidy, NEW a \in Actors, RequestPop(a) \/ StartPoll(a) \/ StartStats(a)
  PROVE  Kept /\ Moves(a) /\ pc[a] = "idle" /\ pc'[a] # "run"
  <1>1. UNCHANGED <<hand, toRemove, pending, delayed>>
    BY DEF RequestPop, StartPoll, StartStats, redis
  <1>2. Moves(a) /\ Loose(a)' = Loose(a) /\ pc[a] = "idle" /\ pc'[a] # "run"
    BY <1>1 DEF Moves, OthersKeep, Loose, RequestPop, StartPoll, StartStats, Request,
                TypeInv, TypeOK, LocalOK
  <1> QED  BY <1>1, <1>2, StillKept DEF Moves

LEMMA MonitorKept ==
  ASSUME TypeInv, Tidy, Calm, NEW m \in Monitors, MonitorStep(m)
  PROVE  Kept /\ Moves(m) /\ pc[m] # "run" /\ pc'[m] # "run"
  <1>1. m \in Actors /\ UNCHANGED <<pending, delayed>>
    BY DEF MonitorStep, LLenPending, ZCard, LLenDead, ReadStat, Actors, redis
  <1>2. pc[m] \in {"llen", "zcard", "ldead"}
    BY DEF MonitorStep, LLenPending, ZCard, LLenDead, ReadStat, At
  <1>3. Loose(m) = {}
    BY <1>1, <1>2, EmptyHand DEF Tidy, Orderly
  <1>4. CASE Finish(m)
    BY <1>1, <1>2, <1>3, <1>4, FinishMoves, FinishKept
  <1>5. CASE /\ \E next \in {"zcard", "ldead"} : pc' = [pc EXCEPT ![m] = next]
             /\ UNCHANGED <<lockq, hand, toRemove, stamp>>
    <2>1. Moves(m) /\ Loose(m)' = Loose(m) /\ pc'[m] # "run"
      BY <1>1, <1>5 DEF Moves, OthersKeep, Loose, TypeInv, TypeOK, LocalOK
    <2> QED  BY <1>1, <1>2, <2>1, StillKept DEF Moves
  <1> QED  BY <1>4, <1>5 DEF MonitorStep, LLenPending, ZCard, LLenDead, ReadStat

-----------------------------------------------------------------------------
(***************************************************************************)
(* Each step of the queue is a step of the ledger, or none.                *)
(***************************************************************************)
OnceInv == AttemptsInv /\ Removing /\ \A t \in Tasks : submitted[t] <= 1 /\ doubled[t] = 0

LEMMA OnceParts ==
  ASSUME OnceInv
  PROVE  /\ TypeInv /\ Tidy /\ Calm /\ Removing /\ Spent
         /\ \A t \in Tasks : /\ Lone(t) /\ Budget(t) /\ IsFiniteSet(InHand(t))
                             /\ Issued(t) \in 0..1
  <1>1. /\ CountInv /\ TypeInv /\ Removing /\ Spent
        /\ \A t \in Tasks : Books(t) /\ submitted[t] <= 1 /\ doubled[t] = 0
    BY DEF OnceInv, AttemptsInv, CountInv
  <1>2. ASSUME NEW t \in Tasks PROVE Issued(t) \in 0..1
    <2>1. submitted[t] \in Nat /\ submitted[t] <= 1 /\ doubled[t] = 0
      BY <1>1 DEF TypeInv, TypeOK, HistoryOK
    <2> QED  BY <2>1 DEF Issued
  <1> QED  BY <1>1, <1>2, LoneHolds DEF OnceInv, AttemptsInv, CountInv, Books

\* Once a task is submitted it stays the only submission.
LEMMA OnceNext ==
  ASSUME PollsAlone, SubmitsOnce, OnceInv, [Next]_vars
  PROVE  OnceInv'
  <1>1. AttemptsInv'
    BY AttemptsNext DEF OnceInv
  <1>2. submitted' = submitted \/ \E u \in Tasks :
           submitted[u] < 1 /\ submitted' = [submitted EXCEPT ![u] = @ + 1]
    <2>1. ASSUME NEW c \in Clients, NEW u \in Tasks,
                 Enqueue(c, u) \/ \E d \in Delays : Schedule(c, u, d)
          PROVE  submitted[u] < 1 /\ submitted' = [submitted EXCEPT ![u] = @ + 1]
      BY <2>1 DEF Enqueue, Schedule, MaySubmit, Submit, SubmitsOnce
    <2>2. ASSUME NEW a, LPush(a) \/ Pop(a) \/ PopNothing(a) \/ Bury(a) \/ RequestPop(a)
          PROVE  submitted' = submitted
      BY <2>2 DEF LPush, Pop, PopNothing, Bury, RequestPop, history
    <2>3. ASSUME NEW a, ZAdd(a) \/ RunOk(a) \/ RunFails(a)
          PROVE  submitted' = submitted
      BY <2>3 DEF ZAdd, RunOk, RunFails
    <2>4. ASSUME NEW a, PollerStep(a)
          PROVE  submitted' = submitted
      BY <2>4 DEF PollerStep, StartPoll, FetchDue, ZRem, RePush, history
    <2>5. ASSUME NEW a, StartStats(a) \/ MonitorStep(a)
          PROVE  submitted' = submitted
      BY <2>5 DEF StartStats, MonitorStep, LLenPending, ZCard, LLenDead, ReadStat, history
    <2>6. CASE (\E p \in Procs : Crash(p)) \/ Tick \/ UNCHANGED vars
      BY <2>6 DEF Crash, Tick, vars, history
    <2> QED  BY <2>1, <2>2, <2>3, <2>4, <2>5, <2>6 DEF Next, ClientStep, WorkerStep
  <1>3. submitted \in [Tasks -> Nat]
    BY OnceParts DEF TypeInv, TypeOK, HistoryOK
  <1>4. Removing' /\ doubled' = doubled
    BY OnceParts, RemovingNext
  <1> QED  BY <1>1, <1>2, <1>3, <1>4 DEF OnceInv

LEMMA SubmitLedger ==
  ASSUME OnceInv, SubmitsOnce, NEW c \in Clients, NEW t \in Tasks,
         Enqueue(c, t) \/ \E d \in Delays : Schedule(c, t, d)
  PROVE  Ledger!Next
  <1>0. TypeInv /\ Tidy /\ c \in Actors /\ c \notin Pollers
    BY OnceParts, KindsAssumption DEF Actors
  <1>1. hand[c] = <<>> /\ Loose(c) = {} /\ pc[c] = "idle"
    BY <1>0, EmptyHand DEF Enqueue, Schedule, MaySubmit, Tidy, Orderly
  <1>2. /\ Moves(c) /\ OthersKeep(c) /\ hand'[c] = <<Fresh(t)>> /\ toRemove' = toRemove
        /\ pc'[c] # "run"
    BY <1>0 DEF Enqueue, Schedule, Submit, Request, Moves, OthersKeep, TypeInv, TypeOK, LocalOK
  <1>3. Loose(c)' = {Fresh(t)}
    BY <1>0, <1>2, SingleHandAfter
  <1>4. UNCHANGED <<pending, delayed, dead, done, runs, faults, crashes>>
    BY DEF Enqueue, Schedule, Submit, redis, net
  <1>5. /\ submitted[t] < 1 /\ submitted' = [submitted EXCEPT ![t] = @ + 1]
        /\ submitted \in [Tasks -> Nat]
    BY <1>0 DEF Enqueue, Schedule, Submit, MaySubmit, SubmitsOnce, TypeInv, TypeOK, HistoryOK
  <1>6. Members' = Members
    BY <1>4 DEF Members
  <1>7. ASSUME NEW j PROVE j \in Known' <=> j \in Known \/ j = Fresh(t)
    BY <1>0, <1>1, <1>2, <1>3, <1>4, <1>6, KnownMoves
  <1>8. ASSUME NEW u \in Tasks
        PROVE  /\ Running(u)' <=> Running(u)
               /\ Buried(u)' <=> Buried(u)
               /\ Alive(u)' <=> Alive(u) \/ u = t
               /\ done'[u] = done[u]
    <2>1. Running(u)' <=> Running(u)
      BY <1>0, <1>1, <1>2, RunningMoves
    <2>2. Buried(u)' <=> Buried(u)
      BY <1>4 DEF Buried, OfTask
    <2>3. Fresh(t).task = t
      BY DEF Fresh
    <2> QED  BY <1>4, <1>7, <2>1, <2>2, <2>3 DEF Alive
  <1>9. ASSUME NEW u \in Tasks \ {t} PROVE Phase(u)' = Phase(u)
    BY <1>5, <1>8, PhaseIs, PhaseWas
  <1>10. Phase(t) = "none" /\ Phase(t)' = "waiting"
    <2>1. Lone(t) /\ submitted[t] = 0
      BY <1>5, OnceParts
    <2>2. ~Alive(t)
      BY <2>1 DEF Lone
    <2>3. ~Running(t)
      BY <1>0, <2>2, RunningHeld, AliveIs
    <2>4. done[t] = 0 /\ ~Buried(t)
      BY <2>1 DEF Lone, Open
    <2> QED  BY <1>8, <2>1, <2>2, <2>3, <2>4, PhaseIs, PhaseWas
  <1>11. Ledger!Move(t, "none", "waiting")
    BY <1>9, <1>10, LedgerMove
  <1>12. UNCHANGED (faults + crashes > 0)
    BY <1>4
  <1>13. Ledger!Submit(t)
    BY <1>4, <1>11, <1>12 DEF Ledger!Submit
  <1> QED  BY <1>13 DEF Ledger!Next

LEMMA PopLedger ==
  ASSUME OnceInv, NEW w \in Workers, Pop(w), Trouble => Trouble',
         NEW j, j = Head(pending), NEW t, t = j.task
  PROVE  [Ledger!Next]_(Ledger!vars)
  <1>0. TypeInv /\ Tidy /\ Calm /\ w \in Actors /\ w \notin Pollers
    BY OnceParts, KindsAssumption DEF Actors
  <1>1. pc[w] = "brpop" /\ hand[w] = <<>> /\ Loose(w) = {}
    BY <1>0, EmptyHand DEF Pop, At, Tidy, Orderly
  <1>2. /\ UNCHANGED <<delayed, dead, done, submitted, runs, crashes>> /\ Members' = Members
        /\ pending' = Tail(pending) /\ pending \in Seq(Jobs) /\ pending # <<>>
    BY <1>0 DEF Pop, history, Members, TypeInv, TypeOK, RedisOK
  <1>3. /\ Range(Tail(pending)) \subseteq Range(pending) /\ j \in Range(pending) /\ j \in Jobs
        /\ Range(pending) \subseteq Range(Tail(pending)) \union {j}
    BY <1>2, RangeOfTail, HeadTailProperties
  <1>4. CASE ReplyLost(w) /\ Finish(w)
    <2>1. Moves(w) /\ OthersKeep(w) /\ Loose(w)' = {} /\ pc'[w] # "run" /\ Trouble'
      BY <1>0, <1>2, <1>4, FinishMoves, Unanswered DEF Moves
    <2>2. ASSUME NEW k \in Known' PROVE k \in Known
      <3> QED  BY <1>0, <1>2, <1>3, <2>1, <2>2, KnownMoves
    <2>3. Kept
      BY <2>1, <2>2 DEF Kept
    <2>4. \A u \in Tasks : Spared(u)
      BY <1>0, <1>1, <1>2, <2>1, <2>3, OnceParts, KeptSpares
    <2> QED  BY <1>2, <2>4, LedgerMishap
  <1>5. CASE /\ Answered(w) /\ pc' = [pc EXCEPT ![w] = "run"]
             /\ hand' = [hand EXCEPT ![w] = <<j>>] /\ UNCHANGED <<toRemove, stamp, stats>>
    <2>1. Moves(w) /\ OthersKeep(w) /\ pc'[w] = "run" /\ hand'[w] = <<j>>
      BY <1>0, <1>5 DEF Moves, OthersKeep, TypeInv, TypeOK, LocalOK
    <2>2. Loose(w)' = {j}
      BY <1>0, <1>5, <2>1, SingleHandAfter
    <2>3. ASSUME NEW k PROVE k \in Known' <=> k \in Known
      <3> QED  BY <1>0, <1>1, <1>2, <1>3, <2>1, <2>2, KnownMoves
    <2>4. ASSUME NEW u \in Tasks
          PROVE  /\ Running(u)' <=> Running(u) \/ u = t
                 /\ Buried(u)' <=> Buried(u)
                 /\ Alive(u)' <=> Alive(u)
                 /\ done'[u] = done[u] /\ submitted'[u] = submitted[u]
      <3>1. hand'[w][1] = j
        BY <2>1
      <3>2. Running(u)' <=> Running(u) \/ u = t
        BY <1>1, <2>1, <3>1 DEF Running, Moves, OthersKeep, Actors
      <3>3. Buried(u)' <=> Buried(u)
        BY <1>2 DEF Buried, OfTask
      <3> QED  BY <1>2, <2>3, <3>2, <3>3 DEF Alive
    <2>5. t \in Tasks /\ InList(t)
      BY <1>2, <1>3 DEF InList, Jobs, Range
    <2>6. ASSUME NEW u \in Tasks \ {t} PROVE Phase(u)' = Phase(u)
      BY <2>4, PhaseIs, PhaseWas
    <2>7. Phase(t) = "waiting" /\ Phase(t)' = "running"
      <3>1. Lone(t)
        BY <2>5, OnceParts
      <3>2. Open(t) /\ ~Held(t) /\ Alive(t)
        BY <2>5, <3>1, AliveIs DEF Lone
      <3>3. ~Running(t)
        BY <1>0, <3>2, RunningHeld
      <3> QED  BY <2>4, <2>5, <3>2, <3>3, PhaseIs, PhaseWas DEF Open
    <2>8. runs[t] <= MaxRetries
      <3>1. TotalOK(t) /\ Budget(t) /\ Issued(t) \in 0..1
        BY <1>0, <2>5, OnceParts, TotalType DEF TotalOK
      <3>2. QueuedLeft(t) >= Weight(j, t) /\ Weight(j, t) >= 1
        <4>1. Cardinality(Left(Queued(Tail(pending), t))) + Weight(j, t)
              <= Cardinality(Left(Queued(pending, t)))
          BY <1>2, QueuedTail
        <4>2. Cardinality(Left(Queued(Tail(pending), t))) \in Nat
          <5>1. Tail(pending) \in Seq(Jobs)
            BY <1>2, HeadTailProperties
          <5> QED  BY <5>1, QueuedFinite
        <4>3. Weight(j, t) \in Nat /\ One(j, t) <= Weight(j, t) /\ One(j, t) = 1
          BY <1>3, WeightType DEF One
        <4> QED  BY <3>1, <4>1, <4>2, <4>3 DEF TotalOK, QueuedLeft
      <3>3. Weight(j, t) \in Nat
        BY <1>3, WeightType
      <3>4. Total(t) <= MaxRetries + 1
        BY <3>1, RetryAssumption DEF Budget, TotalOK
      <3> QED  BY <3>1, <3>2, <3>3, <3>4, RetryAssumption DEF TotalOK, Total
    <2>9. Ledger!Move(t, "waiting", "running")
      BY <2>5, <2>6, <2>7, LedgerMove
    <2>10. UNCHANGED (faults + crashes > 0)
      BY <1>2, <1>5 DEF Answered, net
    <2>11. Ledger!Begin(t)
      BY <1>2, <2>8, <2>9, <2>10 DEF Ledger!Begin
    <2> QED  BY <2>5, <2>11 DEF Ledger!Next
  <1> QED  BY <1>4, <1>5 DEF Pop

\* Only one worker at a time has a task in hand.
LEMMA SoleRunner ==
  ASSUME TypeInv, Tidy, NEW t \in Tasks, Lone(t), NEW w \in Workers, hand[w] # <<>>,
         Head(hand[w]).task = t, NEW v \in Workers, pc[v] = "run", hand[v][1].task = t
  PROVE  v = w
  <1>1. hand[v] # <<>>
    BY KindsAssumption DEF TypeInv, Equipped, Actors
  <1>2. /\ w \in Actors /\ Head(hand[w]) \in Loose(w)
        /\ v \in Actors /\ hand[v][1] \in Loose(v)
    BY <1>1, RunnerHolds
  <1> QED  BY <1>2 DEF Lone

LEMMA RunLedger ==
  ASSUME OnceInv, NEW w \in Workers, RunOk(w) \/ RunFails(w),
         NEW j, j = Head(hand[w]), NEW t, t = j.task
  PROVE  Ledger!Next
  <1>0. TypeInv /\ Tidy /\ Calm /\ w \in Actors /\ w \notin Pollers
    BY OnceParts, KindsAssumption DEF Actors
  <1>1. pc[w] = "run" /\ hand[w] # <<>>
    BY <1>0 DEF RunOk, RunFails, TypeInv, Equipped
  <1>2. Loose(w) = {j} /\ j = hand[w][1] /\ j \in Jobs /\ t \in Tasks
    BY <1>0, <1>1, RunnerHolds DEF Jobs
  <1>3. Lone(t) /\ Held(t) /\ Open(t) /\ Running(t)
    BY <1>0, <1>1, <1>2, OnceParts DEF Lone, Held, Running
  <1>4. /\ UNCHANGED <<pending, delayed, dead, toRemove, submitted, faults, crashes>>
        /\ runs' = [runs EXCEPT ![t] = @ + 1]
    BY DEF RunOk, RunFails, redis, net
  <1>5. Members' = Members
    BY <1>4 DEF Members
  <1>6. Moves(w) /\ OthersKeep(w) /\ pc'[w] # "run"
    BY <1>0 DEF RunOk, RunFails, Request, Moves, OthersKeep, TypeInv, TypeOK, LocalOK
  <1>7. ASSUME NEW u \in Tasks
        PROVE  (Running(u)' <=> Running(u) /\ u # t) /\ (Buried(u)' <=> Buried(u))
    <2>1. Buried(u)' <=> Buried(u)
      BY <1>4 DEF Buried, OfTask
    <2>2. ASSUME NEW v \in Workers, pc'[v] = "run", hand'[v][1].task = u
          PROVE  Running(u) /\ u # t
      <3>1. v # w /\ v \in Actors
        BY <1>6, <2>2 DEF Actors
      <3>2. pc[v] = "run" /\ hand[v][1].task = u
        BY <1>6, <2>2, <3>1 DEF Moves, OthersKeep
      <3>3. u # t
        BY <1>0, <1>1, <1>2, <1>3, <3>1, <3>2, SoleRunner
      <3> QED  BY <3>2, <3>3 DEF Running
    <2>3. ASSUME u # t, NEW v \in Workers, pc[v] = "run", hand[v][1].task = u
          PROVE  Running(u)'
      <3>1. v # w /\ v \in Actors
        BY <1>2, <2>3 DEF Actors
      <3>2. pc'[v] = "run" /\ hand'[v][1].task = u
        BY <1>6, <2>3, <3>1 DEF Moves, OthersKeep
      <3> QED  BY <3>2 DEF Running
    <2> QED  BY <2>1, <2>2, <2>3 DEF Running
  <1>8. ASSUME NEW k, k.task = t, Loose(w)' \subseteq {k}, NEW u \in Tasks, u # t
        PROVE  Alive(u)' <=> Alive(u)
    <2>1. ASSUME NEW x, x.task = u PROVE x \in Known' <=> x \in Known
      BY <1>0, <1>2, <1>4, <1>5, <1>6, <1>8, <2>1, KnownMoves
    <2> QED  BY <2>1 DEF Alive
  <1>9. CASE RunOk(w)
    <2>1. hand'[w] = <<>> /\ done' = [done EXCEPT ![t] = @ + 1] /\ done \in [Tasks -> Nat]
      BY <1>0, <1>9 DEF RunOk, TypeInv, TypeOK, LocalOK, HistoryOK
    <2>2. Loose(w)' \subseteq {j}
      BY <1>0, <2>1, EmptyHandAfter
    <2>3. ASSUME NEW u \in Tasks \ {t} PROVE Phase(u)' = Phase(u)
      <3>1. done'[u] = done[u] /\ submitted'[u] = submitted[u] /\ (Alive(u)' <=> Alive(u))
        BY <1>4, <1>8, <2>1, <2>2
      <3> QED  BY <1>7, <3>1, PhaseIs, PhaseWas
    <2>4. Phase(t) = "running" /\ Phase(t)' = "done"
      <3>1. ~Running(t)'
        BY <1>2, <1>7
      <3>2. done'[t] > 0
        BY <1>2, <2>1
      <3> QED  BY <1>3, <3>1, <3>2, PhaseIs, PhaseWas
    <2> QED  BY <1>2, <1>4, <2>3, <2>4, LedgerAttempt
  <1>10. ASSUME RunFails(w), NEW k, k.task = t, Loose(w)' = {k} PROVE Ledger!Next
    <2>1. done' = done
      BY <1>10 DEF RunFails
    <2>2. ASSUME NEW u \in Tasks \ {t} PROVE Phase(u)' = Phase(u)
      <3>1. done'[u] = done[u] /\ submitted'[u] = submitted[u] /\ (Alive(u)' <=> Alive(u))
        BY <1>4, <1>8, <1>10, <2>1
      <3> QED  BY <1>7, <3>1, PhaseIs, PhaseWas
    <2>3. Phase(t) = "running" /\ Phase(t)' = "waiting"
      <3>1. ~Running(t)' /\ ~Buried(t)'
        BY <1>2, <1>3, <1>7 DEF Open
      <3>2. ~(done'[t] > 0)
        BY <1>3, <2>1 DEF Open
      <3>3. k \in Known'
        BY <1>0, <1>6, <1>10, KnownMoves
      <3>4. Alive(t)'
        BY <1>10, <3>3 DEF Alive
      <3> QED  BY <1>3, <3>1, <3>2, <3>4, PhaseIs, PhaseWas
    <2> QED  BY <1>2, <1>4, <2>2, <2>3, LedgerAttempt
  <1>11. CASE RunFails(w)
    <2>1. hand'[w] = hand[w] \/ hand'[w] = <<Retried(j)>>
      BY <1>0, <1>11 DEF RunFails, TypeInv, TypeOK, LocalOK
    <2>2. CASE hand'[w] = hand[w]
      <3>1. Loose(w)' = {j}
        BY <1>2, <1>4, <2>2 DEF Loose
      <3> QED  BY <1>10, <1>11, <3>1
    <2>3. CASE hand'[w] = <<Retried(j)>>
      <3>1. Loose(w)' = {Retried(j)} /\ Retried(j).task = t
        BY <1>0, <1>2, <1>4, <2>3, SingleHandAfter DEF Retried, Jobs
      <3>2. PICK k : k = Retried(j)
        OBVIOUS
      <3> QED  BY <1>10, <1>11, <3>1, <3>2
    <2> QED  BY <2>1, <2>2, <2>3
  <1> QED  BY <1>9, <1>11

LEMMA BuryLedger ==
  ASSUME OnceInv, NEW w \in Workers, Bury(w), Applied(w), dead' = DeadLetter(Head(hand[w])),
         NEW j, j = Head(hand[w]), NEW t, t = j.task
  PROVE  Ledger!Next
  <1>0. TypeInv /\ Tidy /\ Calm /\ Spent /\ w \in Actors /\ w \notin Pollers
    BY OnceParts, KindsAssumption DEF Actors
  <1>1. pc[w] = "bury" /\ hand[w] # <<>>
    BY <1>0 DEF Bury, At, TypeInv, Equipped
  <1>2. Loose(w) = {j} /\ j \in Jobs /\ t \in Tasks
    BY <1>0, <1>1, RunnerHolds DEF Jobs
  <1>3. Lone(t) /\ Held(t) /\ Open(t) /\ Alive(t)
    BY <1>0, <1>2, OnceParts, AliveIs DEF Lone, Held
  <1>4. UNCHANGED <<pending, delayed, runs, done, submitted, crashes>> /\ Finish(w)
        /\ Members' = Members
    BY DEF Bury, history, Members
  <1>5. Moves(w) /\ OthersKeep(w) /\ pc'[w] # "run" /\ Loose(w)' = {}
    BY <1>0, <1>4, FinishMoves DEF Moves
  <1>6. ASSUME NEW u \in Tasks PROVE Running(u)' <=> Running(u)
    BY <1>0, <1>1, <1>5, RunningMoves
  <1>7. ASSUME NEW u \in Tasks PROVE Buried(u)' <=> Buried(u) \/ u = t
    <2>1. OfTask(dead', u) = OfTask(dead, u) + One(j, u) /\ OfTask(dead, u) \in Nat
      BY <1>0, <1>2, CountAppend, IndicesFinite DEF DeadLetter, TypeInv, TypeOK, RedisOK
    <2>2. OfTask(dead, u)' = OfTask(dead', u)
      BY DEF OfTask
    <2> QED  BY <2>1, <2>2 DEF Buried, One
  <1>8. ASSUME NEW u \in Tasks \ {t} PROVE Phase(u)' = Phase(u)
    <2>1. ASSUME NEW x, x.task = u PROVE x \in Known' <=> x \in Known
      BY <1>0, <1>2, <1>4, <1>5, <2>1, KnownMoves
    <2>2. Alive(u)' <=> Alive(u)
      BY <2>1 DEF Alive
    <2>3. done'[u] = done[u] /\ submitted'[u] = submitted[u]
      BY <1>4
    <2> QED  BY <1>6, <1>7, <2>2, <2>3, PhaseIs, PhaseWas
  <1>9. ~Running(t)
    <2>1. ASSUME NEW v \in Workers, pc[v] = "run", hand[v][1].task = t PROVE FALSE
      BY <1>0, <1>1, <1>2, <1>3, <2>1, SoleRunner
    <2> QED  BY <2>1 DEF Running
  <1>10. Phase(t) = "waiting" /\ Phase(t)' = "dead"
    <2>1. ~Running(t)' /\ Buried(t)' /\ ~(done'[t] > 0)
      BY <1>2, <1>3, <1>4, <1>6, <1>7, <1>9 DEF Open
    <2> QED  BY <1>3, <1>9, <2>1, PhaseIs, PhaseWas DEF Open
  <1>11. runs[t] = MaxRetries + 1
    <2>1. TotalOK(t) /\ Budget(t) /\ Issued(t) \in 0..1 /\ MaxRetries \in Nat
      BY <1>0, <1>2, OnceParts, TotalType, RetryAssumption DEF TotalOK
    <2>2. runs[t] > MaxRetries
      BY <1>0, <1>1 DEF Spent, Exhausted
    <2>3. Total(t) <= MaxRetries + 1
      BY <2>1 DEF Budget, TotalOK
    <2>4. runs[t] <= Total(t) /\ runs[t] \in Nat /\ Total(t) \in Nat
      BY <2>1 DEF TotalOK, Total
    <2>5. MaxRetries \in Nat
      BY RetryAssumption
    <2> QED  BY <2>2, <2>3, <2>4, <2>5
  <1>12. Ledger!Move(t, "waiting", "dead")
    BY <1>2, <1>8, <1>10, LedgerMove
  <1>13. (faults + crashes > 0)' \in {faults + crashes > 0, TRUE}
    <2>1. CASE Answered(w)
      BY <1>4, <2>1 DEF Answered, net
    <2>2. CASE ReplyLost(w)
      BY <1>0, <1>4, <2>2, Unanswered DEF Trouble
    <2> QED  BY <2>1, <2>2 DEF Applied
  <1>14. Ledger!Bury(t)
    BY <1>4, <1>11, <1>12, <1>13 DEF Ledger!Bury
  <1> QED  BY <1>2, <1>14 DEF Ledger!Next

\* A crash loses what the actors of the process had in hand.
LEMMA CrashLedger ==
  ASSUME OnceInv, NEW p \in Procs, Crash(p), Trouble => Trouble'
  PROVE  [Ledger!Next]_(Ledger!vars)
  <1>0. TypeInv /\ Tidy
    BY OnceParts
  <1>1. UNCHANGED <<pending, delayed, dead, runs, done, submitted>>
    BY DEF Crash, redis, history
  <1>2. Trouble'
    BY <1>0, FaultAssumption, CrashAssumption DEF Crash, Trouble, TypeInv, TypeOK, NetOK
  <1>3. ASSUME NEW a \in Actors
        PROVE  IF Home[a] = p THEN pc'[a] = "idle" /\ Loose(a)' = {}
               ELSE pc'[a] = pc[a] /\ hand'[a] = hand[a] /\ Loose(a)' = Loose(a)
    <2>1. CASE Home[a] = p
      <3>1. hand'[a] = <<>> /\ pc'[a] = "idle"
        BY <2>1 DEF Crash, Cleared
      <3> QED  BY <2>1, <3>1, EmptyHandAfter
    <2>2. CASE Home[a] # p
      <3>1. hand'[a] = hand[a] /\ toRemove'[a] = toRemove[a] /\ pc'[a] = pc[a]
        BY <2>2 DEF Crash, Cleared
      <3> QED  BY <2>2, <3>1 DEF Loose
    <2> QED  BY <2>1, <2>2
  <1>4. Workers \subseteq Actors
    BY DEF Actors
  <1>5. ASSUME NEW t \in Tasks PROVE Spared(t)
    <2>1. Lone(t) /\ (Buried(t)' <=> Buried(t))
          /\ done'[t] = done[t] /\ submitted'[t] = submitted[t]
      BY <1>1, OnceParts DEF Buried, OfTask
    <2>2. Running(t)' => Running(t)
      BY <1>3, <1>4 DEF Running
    <2>3. Alive(t)' => Alive(t)
      <3>1. InList(t)' = InList(t) /\ InSet(t)' = InSet(t)
        BY <1>1 DEF InList, InSet
      <3>2. Held(t)' => Held(t)
        BY <1>3 DEF Held
      <3>3. Alive(t)' <=> InList(t)' \/ InSet(t)' \/ Held(t)'
        BY DEF Alive, Known, InList, InSet, Held, Range
      <3> QED  BY <3>1, <3>2, <3>3, AliveIs
    <2>4. CASE Running(t) /\ ~Running(t)'
      <3>1. PICK w \in Workers : pc[w] = "run" /\ hand[w][1].task = t
        BY <2>4 DEF Running
      <3>2. Home[w] = p /\ w \in Actors
        <4>1. ASSUME Home[w] # p PROVE FALSE
          BY <1>3, <1>4, <2>4, <3>1, <4>1 DEF Running
        <4> QED  BY <1>4, <4>1
      <3>3. hand[w] # <<>>
        BY <1>0, <3>1, <3>2 DEF TypeInv, Equipped
      <3>4. hand[w][1] \in Loose(w)
        BY <1>0, <3>3, RunnerHolds
      <3>5. Held(t) /\ Open(t) /\ ~InList(t) /\ ~InSet(t) /\ Alive(t) /\ submitted[t] > 0
        BY <2>1, <3>1, <3>2, <3>4, AliveIs DEF Held, Lone
      <3>6. ASSUME Alive(t)' PROVE FALSE
        <4>1. InList(t)' = InList(t) /\ InSet(t)' = InSet(t)
          BY <1>1 DEF InList, InSet
        <4>2. Held(t)'
          BY <3>5, <3>6, <4>1 DEF Alive, Known, InList, InSet, Held, Range
        <4>3. PICK a \in Actors : \E k \in Loose(a)' : k.task = t
          BY <4>2 DEF Held
        <4>4. Home[a] # p /\ Loose(a)' = Loose(a)
          BY <1>3, <4>3
        <4>5. a = w
          BY <2>1, <3>1, <3>2, <3>4, <4>3, <4>4 DEF Lone
        <4> QED  BY <3>2, <4>4, <4>5
      <3>7. Phase(t) = "running" /\ Phase(t)' = "lost"
        BY <2>1, <2>4, <3>5, <3>6, PhaseIs, PhaseWas DEF Open
      <3> QED  BY <1>2, <3>7 DEF Spared
    <2>5. CASE Running(t)' <=> Running(t)
      <3>1. Alive(t) => submitted[t] > 0
        BY <2>1 DEF Lone
      <3> QED  BY <1>2, <2>1, <2>3, <2>5, <3>1, PhaseIs, PhaseWas DEF Spared
    <2> QED  BY <2>2, <2>4, <2>5
  <1> QED  BY <1>1, <1>5, LedgerMishap

\* The steps nothing is run or buried in.
LEMMA QuietLedger ==
  ASSUME OnceInv, NEW a \in Actors, Moves(a), pc[a] # "run", pc'[a] # "run", Kept,
         UNCHANGED <<dead, done, submitted, runs>>, Trouble => Trouble'
  PROVE  [Ledger!Next]_(Ledger!vars)
  BY OnceParts, KeptSpares, LedgerMishap

LEMMA ClientLedger ==
  ASSUME OnceInv, NEW a \in Actors, a \notin Pollers, LPush(a) \/ ZAdd(a), Trouble => Trouble'
  PROVE  [Ledger!Next]_(Ledger!vars)
  <1>1. TypeInv /\ Tidy /\ Calm
    BY OnceParts
  <1>2. UNCHANGED <<dead, done, submitted, runs>> /\ Finish(a) /\ pc[a] # "run"
    BY DEF LPush, ZAdd, At, history
  <1>3. Moves(a) /\ pc'[a] # "run" /\ Kept
    BY <1>1, <1>2, FinishMoves, StoreKept
  <1> QED  BY <1>2, <1>3, QuietLedger

LEMMA WorkerLedger ==
  ASSUME OnceInv, NEW w \in Workers, WorkerStep(w), Trouble => Trouble'
  PROVE  [Ledger!Next]_(Ledger!vars)
  <1>0. TypeInv /\ Tidy /\ Calm /\ w \in Actors /\ w \notin Pollers
    BY OnceParts, KindsAssumption DEF Actors
  <1>1. CASE RequestPop(w)
    BY <1>0, <1>1, RequestKept, QuietLedger DEF RequestPop, redis, history
  <1>2. CASE Pop(w)
    <2>1. PICK j : j = Head(pending)
      OBVIOUS
    <2>2. PICK t : t = j.task
      OBVIOUS
    <2> QED  BY <1>2, <2>1, <2>2, PopLedger
  <1>3. CASE PopNothing(w)
    <2>1. UNCHANGED <<pending, delayed, dead, done, submitted, runs>> /\ Finish(w) /\ pc[w] = "brpop"
      BY <1>3 DEF PopNothing, At, redis, history
    <2>2. Loose(w) = {}
      BY <1>0, <2>1, EmptyHand DEF Tidy, Orderly
    <2> QED  BY <1>0, <2>1, <2>2, FinishMoves, FinishKept, QuietLedger
  <1>4. CASE RunOk(w) \/ RunFails(w)
    <2>1. PICK j : j = Head(hand[w])
      OBVIOUS
    <2>2. PICK t : t = j.task
      OBVIOUS
    <2> QED  BY <1>4, <2>1, <2>2, RunLedger
  <1>5. CASE ZAdd(w)
    BY <1>0, <1>5, ClientLedger
  <1>6. CASE Bury(w)
    <2>1. CASE Applied(w) /\ dead' = DeadLetter(Head(hand[w]))
      <3>1. PICK j : j = Head(hand[w])
        OBVIOUS
      <3>2. PICK t : t = j.task
        OBVIOUS
      <3> QED  BY <1>6, <2>1, <3>1, <3>2, BuryLedger
    <2>2. CASE Refused(w) /\ UNCHANGED dead
      <3>1. UNCHANGED <<pending, delayed, done, submitted, runs, crashes>> /\ Finish(w) /\ pc[w] = "bury"
        BY <1>6 DEF Bury, At, history
      <3>2. Trouble'
        BY <1>0, <2>2, <3>1, Unanswered
      <3> QED  BY <1>0, <2>2, <3>1, <3>2, FinishMoves, FinishKept, QuietLedger
    <2> QED  BY <1>6, <2>1, <2>2 DEF Bury
  <1> QED  BY <1>1, <1>2, <1>3, <1>4, <1>5, <1>6 DEF WorkerStep

LEMMA PollerLedger ==
  ASSUME OnceInv, NEW p \in Pollers, PollerStep(p), Trouble => Trouble'
  PROVE  [Ledger!Next]_(Ledger!vars)
  <1>0. TypeInv /\ Tidy /\ Calm /\ Removing /\ p \in Actors
    BY OnceParts DEF Actors
  <1>1. CASE StartPoll(p)
    BY <1>0, <1>1, RequestKept, QuietLedger DEF StartPoll, redis, history
  <1>2. CASE FetchDue(p) \/ ZRem(p) \/ RePush(p)
    <2>1. UNCHANGED <<dead, done, submitted, runs>> /\ pc[p] # "run"
      BY <1>2 DEF FetchDue, ZRem, RePush, At, redis, history
    <2>2. Moves(p) /\ pc'[p] # "run"
      <3>1. CASE Finish(p)
        BY <1>0, <3>1, FinishMoves
      <3>2. CASE ~Finish(p)
        BY <1>0, <1>2, <3>2 DEF FetchDue, ZRem, RePush, At, AfterZRem, Moves, OthersKeep,
                                TypeInv, TypeOK, LocalOK
      <3> QED  BY <3>1, <3>2
    <2>3. Kept
      BY <1>0, <1>2, FetchDueKept, ZRemKept, RePushKept
    <2> QED  BY <1>0, <2>1, <2>2, <2>3, QuietLedger
  <1> QED  BY <1>1, <1>2 DEF PollerStep

LEMMA MonitorLedger ==
  ASSUME OnceInv, NEW m \in Monitors, StartStats(m) \/ MonitorStep(m), Trouble => Trouble'
  PROVE  [Ledger!Next]_(Ledger!vars)
  <1>1. TypeInv /\ Tidy /\ Calm /\ m \in Actors
    BY OnceParts DEF Actors
  <1>2. UNCHANGED <<dead, done, submitted, runs>>
    BY DEF StartStats, MonitorStep, LLenPending, ZCard, LLenDead, ReadStat, redis, history
  <1>3. Kept /\ Moves(m) /\ pc[m] # "run" /\ pc'[m] # "run"
    BY <1>1, RequestKept, MonitorKept
  <1> QED  BY <1>1, <1>2, <1>3, QuietLedger

LEMMA NextLedger ==
  ASSUME OnceInv, SubmitsOnce, [Next]_vars
  PROVE  [Ledger!Next]_(Ledger!vars)
  <1>0. /\ Clients \subseteq Actors /\ Clients \intersect Pollers = {}
        /\ Trouble => Trouble'
    BY OnceParts, CalmNext, KindsAssumption DEF Actors
  <1>1. ASSUME NEW c \in Clients, ClientStep(c) PROVE [Ledger!Next]_(Ledger!vars)
    BY <1>0, <1>1, ClientLedger DEF ClientStep
  <1>2. CASE UNCHANGED vars \/ Tick
    <2>1. UNCHANGED <<pending, delayed, dead, hand, pc, toRemove, done, submitted, runs,
                      faults, crashes>>
      BY <1>2 DEF Tick, vars, local, net, redis, history
    <2>2. ASSUME NEW t \in Tasks PROVE Phase(t)' = Phase(t)
      BY <2>1 DEF Phase, OfTask, Known, Loose, Range
    <2>3. \A t \in Tasks : Spared(t)
      BY <2>2 DEF Spared
    <2> QED  BY <1>0, <2>1, <2>3, LedgerMishap
  <1>3. ASSUME NEW p \in Procs, Crash(p) PROVE [Ledger!Next]_(Ledger!vars)
    BY <1>0, <1>3, CrashLedger
  <1>4. ASSUME NEW c \in Clients, NEW t \in Tasks,
               Enqueue(c, t) \/ \E d \in Delays : Schedule(c, t, d)
        PROVE  [Ledger!Next]_(Ledger!vars)
    BY <1>4, SubmitLedger
  <1> QED  BY <1>0, <1>1, <1>2, <1>3, <1>4, WorkerLedger, PollerLedger, MonitorLedger DEF Next

LEMMA InitLedger == ASSUME Init PROVE Ledger!Init /\ OnceInv
  <1>1. OnceInv
    <2>1. ASSUME NEW p \in Pollers PROVE Removes(p)
      BY DEF Init, Removes, Range, Actors
    <2> QED  BY <2>1, AttemptsInit DEF Init, OnceInv, Removing
  <1>2. ASSUME NEW t \in Tasks PROVE Phase(t) = "none"
    <2>1. ~Running(t)
      BY KindsAssumption DEF Init, Running, Actors
    <2>2. done[t] = 0 /\ submitted[t] = 0 /\ Lone(t)
      BY <1>1, OnceParts DEF Init
    <2>3. ~Alive(t) /\ Open(t)
      BY <2>2 DEF Lone
    <2> QED  BY <2>1, <2>2, <2>3, PhaseIs DEF Open
  <1>3. (faults + crashes > 0) = FALSE
    BY DEF Init
  <1>4. runs = [t \in Tasks |-> 0]
    BY DEF Init
  <1> QED  BY <1>1, <1>2, <1>3, <1>4 DEF Ledger!Init

\* The queue implements the ledger of TaskLedger if every task is submitted
\* once and one process polls: whatever fails, no task is started that has no
\* attempt left, succeeds twice, is buried before its last attempt, or is lost
\* before a command fails or a process crashes.
THEOREM LedgerImplemented ==
  ASSUME PollsAlone, SubmitsOnce
  PROVE  Spec => ImplementsLedger
  <1>1. Init => Ledger!Init /\ OnceInv
    BY InitLedger
  <1>2. OnceInv /\ [Next]_vars => OnceInv'
    BY OnceNext
  <1>3. OnceInv /\ [Next]_vars => [Ledger!Next]_(Ledger!vars)
    BY NextLedger
  <1> QED  BY <1>1, <1>2, <1>3, PTL DEF Spec, ImplementsLedger, Ledger!Spec

=============================================================================
