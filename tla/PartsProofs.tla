---------------------------- MODULE PartsProofs ----------------------------
(***************************************************************************)
(* Proofs about the two parts that the handlers are composed of.  The      *)
(* bounded worker, for any number of requests, permits and pool threads:   *)
(* no permit is lost or forged and at most MaxInFlight calls are queued or *)
(* in the kernel.  The life of a watch, for any number of watches, threads *)
(* and tolerated errors.                                                   *)
(***************************************************************************)
EXTENDS Blocking, Watch, FiniteSetTheorems, TLAPS


(***************************************************************************)
(* PermitAccounting is not inductive by itself.  A permit is counted for a *)
(* call by the state of its closure, so a pool thread that picks up a task *)
(* must find a queued closure (not one that has ended), no task may be     *)
(* handed out twice, and a request that has not been made has no closure.  *)
(***************************************************************************)
IdleHasNoJob == \A j \in Jobs : caller[j] = "idle" => job[j] = "none"

PoolTasksQueued ==
  \A i \in 1..Len(pool) :
    pool[i].kind = "job" => job[pool[i].of] = "queued"

PoolTasksDistinct ==
  \A i, k \in 1..Len(pool) :
    i # k /\ pool[i].kind = "job" /\ pool[k].kind = "job" => pool[i].of # pool[k].of

BlockingInv ==
  /\ BlockingTypeOK
  /\ IdleHasNoJob
  /\ PoolTasksQueued
  /\ PoolTasksDistinct
  /\ PermitAccounting
-----------------------------------------------------------------------------
\* The calls that hold a permit form a finite set.
LEMMA InFlightFinite == IsFiniteSet(InFlight)
<1>1. InFlight \subseteq Jobs
  BY DEF InFlight
<1> QED BY <1>1, BlockingAssumption, FS_Subset DEF BlockingAssumption

\* A closure that becomes queued takes one more permit.
LEMMA OneMoreInFlight ==
  ASSUME BlockingTypeOK, NEW j \in Jobs, job[j] \notin {"queued", "running"},
         job' = [job EXCEPT ![j] = "queued"]
  PROVE  Cardinality(InFlight') = Cardinality(InFlight) + 1
<1>1. InFlight' = InFlight \cup {j} /\ j \notin InFlight
  BY DEF InFlight, BlockingTypeOK
<1> QED BY <1>1, InFlightFinite, FS_AddElement

\* A closure that ends has one permit less to hold.
LEMMA OneLessInFlight ==
  ASSUME BlockingTypeOK, NEW j \in Jobs, NEW result \in Results, job[j] = "running",
         job' = [job EXCEPT ![j] = result]
  PROVE  Cardinality(InFlight') = Cardinality(InFlight) - 1
<1>1. InFlight' = InFlight \ {j} /\ j \in InFlight
  BY DEF InFlight, BlockingTypeOK, Results
<1> QED BY <1>1, InFlightFinite, FS_RemoveElement
-----------------------------------------------------------------------------
\* The semaphore starts full and nothing is spawned.
LEMMA BlockingInitOK == BlockingInit => BlockingInv
<1> SUFFICES ASSUME BlockingInit PROVE BlockingInv
  OBVIOUS
<1>1. BlockingTypeOK
  BY BlockingAssumption
  DEF BlockingInit, BlockingTypeOK, BlockingAssumption, JobStates, JoinStates, CallerStates
<1>2. InFlight = {}
  BY DEF BlockingInit, InFlight
<1>3. PermitAccounting
  BY <1>2, FS_EmptySet, BlockingAssumption
  DEF BlockingInit, PermitAccounting, BlockingAssumption
<1> QED
  BY <1>1, <1>3
  DEF BlockingInv, BlockingInit, IdleHasNoJob, PoolTasksQueued, PoolTasksDistinct

\* No step of blocking::run or of the pool breaks the invariant.
LEMMA BlockingStepOK == BlockingInv /\ [BlockingNext]_blockingVars => BlockingInv'
<1> SUFFICES ASSUME BlockingInv, [BlockingNext]_blockingVars PROVE BlockingInv'
  OBVIOUS
<1> USE DEF BlockingInv
<1>1. ASSUME NEW j \in Jobs, RunAccepted(j) PROVE BlockingInv'
  <2> DEFINE task == [kind |-> "job", of |-> j]
  <2>1. job[j] = "none" /\ task \in PoolTasks /\ Len(pool') = Len(pool) + 1
    BY <1>1 DEF RunAccepted, IdleHasNoJob, PoolTasks, BlockingTypeOK
  <2>2. \A i \in 1..Len(pool) :
          pool'[i] = pool[i] /\ (pool[i].kind = "job" => pool[i].of # j)
    BY <1>1, <2>1 DEF RunAccepted, PoolTasksQueued, BlockingTypeOK
  <2>3. pool'[Len(pool) + 1] = task
    BY <1>1, <2>1 DEF RunAccepted, BlockingTypeOK
  <2>4. BlockingTypeOK'
    BY <1>1, <2>1
    DEF RunAccepted, BlockingTypeOK, JobStates, CallerStates
  <2>5. IdleHasNoJob'
    BY <1>1 DEF RunAccepted, BlockingTypeOK, IdleHasNoJob
  <2>6. PoolTasksQueued'
    BY <1>1, <2>1, <2>2, <2>3
    DEF RunAccepted, BlockingTypeOK, PoolTasksQueued, PoolTasks
  <2>7. PoolTasksDistinct'
    BY <2>1, <2>2, <2>3 DEF PoolTasksDistinct, BlockingTypeOK
  <2>8. PermitAccounting'
    <3>1. Cardinality(InFlight') = Cardinality(InFlight) + 1
      BY <1>1, <2>1, OneMoreInFlight DEF RunAccepted
    <3>2. Cardinality(InFlight) \in Nat
      BY InFlightFinite, FS_CardinalityType
    <3> QED BY <1>1, <3>1, <3>2 DEF RunAccepted, PermitAccounting, BlockingTypeOK
  <2> QED BY <2>4, <2>5, <2>6, <2>7, <2>8
<1>2. ASSUME NEW j \in Jobs, RunExhausted(j) \/ Await(j) \/ Timeout(j) \/ Abandon(j)
      PROVE  BlockingInv'
  <2>1. UNCHANGED <<permits, job, join, pool>> /\ InFlight' = InFlight
    BY <1>2 DEF RunExhausted, Await, Timeout, Abandon, InFlight
  <2>2. BlockingTypeOK'
    BY <1>2, <2>1
    DEF RunExhausted, Await, Timeout, Abandon, BlockingTypeOK, CallerStates, Answers,
        Results
  <2>3. IdleHasNoJob'
    BY <1>2, <2>1
    DEF RunExhausted, Await, Timeout, Abandon, BlockingTypeOK, IdleHasNoJob, Results
  <2> QED
    BY <2>1, <2>2, <2>3 DEF PoolTasksQueued, PoolTasksDistinct, PermitAccounting
<1>3. ASSUME NEW j \in Jobs, NEW result \in Results, Return(j, result)
      PROVE  BlockingInv'
  <2>1. BlockingTypeOK' /\ IdleHasNoJob'
    BY <1>3 DEF Return, BlockingTypeOK, JobStates, IdleHasNoJob
  <2>2. PoolTasksQueued' /\ PoolTasksDistinct'
    BY <1>3 DEF Return, BlockingTypeOK, PoolTasksQueued, PoolTasksDistinct, PoolTasks
  <2>3. PermitAccounting'
    <3>1. Cardinality(InFlight') = Cardinality(InFlight) - 1
      BY <1>3, OneLessInFlight DEF Return
    <3>2. Cardinality(InFlight) \in Nat
      BY InFlightFinite, FS_CardinalityType
    <3> QED BY <1>3, <3>1, <3>2 DEF Return, PermitAccounting, BlockingTypeOK
  <2> QED BY <2>1, <2>2, <2>3
<1>4. CASE RunTask
  <2> DEFINE task == Head(pool)
  <2>1. /\ task = pool[1] /\ 1 \in 1..Len(pool) /\ task \in PoolTasks
        /\ pool' \in Seq(PoolTasks) /\ Len(pool') = Len(pool) - 1
        /\ \A i \in 1..Len(pool') : i + 1 \in 1..Len(pool) /\ pool'[i] = pool[i + 1]
    BY <1>4 DEF RunTask, BlockingTypeOK
  <2>2. PoolTasksDistinct'
    <3> SUFFICES ASSUME NEW i \in 1..Len(pool'), NEW k \in 1..Len(pool'), i # k,
                        pool'[i].kind = "job", pool'[k].kind = "job"
                 PROVE  pool'[i].of # pool'[k].of
      BY DEF PoolTasksDistinct
    <3>1. /\ i + 1 \in 1..Len(pool) /\ pool'[i] = pool[i + 1]
          /\ k + 1 \in 1..Len(pool) /\ pool'[k] = pool[k + 1]
      BY <2>1
    <3>2. i + 1 # k + 1
      OBVIOUS
    <3> QED BY <3>1, <3>2 DEF PoolTasksDistinct
  <2>3. CASE task.kind = "job"
    <3>1. /\ task.of \in Jobs /\ job[task.of] = "queued"
          /\ job' = [job EXCEPT ![task.of] = "running"]
          /\ UNCHANGED <<permits, join, caller>>
      BY <1>4, <2>1, <2>3 DEF RunTask, PoolTasks, PoolTasksQueued
    <3>2. BlockingTypeOK' /\ IdleHasNoJob'
      BY <2>1, <3>1 DEF BlockingTypeOK, JobStates, IdleHasNoJob
    <3>3. \A i \in 1..Len(pool') : pool'[i].kind = "job" => pool'[i].of # task.of
      <4> SUFFICES ASSUME NEW i \in 1..Len(pool'), pool'[i].kind = "job"
                   PROVE  pool'[i].of # task.of
        OBVIOUS
      <4>1. i + 1 \in 1..Len(pool) /\ pool'[i] = pool[i + 1] /\ i + 1 # 1
        BY <2>1
      <4>2. 1 \in 1..Len(pool) /\ task = pool[1]
        BY <2>1
      <4> QED BY <2>3, <4>1, <4>2 DEF PoolTasksDistinct
    <3>4. PoolTasksQueued'
      <4> SUFFICES ASSUME NEW i \in 1..Len(pool'), pool'[i].kind = "job"
                   PROVE  job'[pool'[i].of] = "queued"
        BY DEF PoolTasksQueued
      <4>1. i + 1 \in 1..Len(pool) /\ pool'[i] = pool[i + 1]
        BY <2>1
      <4>2. pool'[i] \in PoolTasks
        BY <2>1
      <4>3. job[pool'[i].of] = "queued"
        BY <4>1 DEF PoolTasksQueued
      <4>4. pool'[i].of # task.of
        BY <3>3
      <4> QED BY <3>1, <4>2, <4>3, <4>4 DEF BlockingTypeOK, PoolTasks
    <3>5. InFlight' = InFlight
      BY <3>1 DEF InFlight, BlockingTypeOK
    <3> QED BY <2>2, <3>1, <3>2, <3>4, <3>5 DEF PermitAccounting
  <2>4. CASE task.kind = "join"
    <3>1. /\ task.of \in JoinTasks
          /\ join' = [join EXCEPT ![task.of] = "running"]
          /\ UNCHANGED <<permits, job, caller>>
      BY <1>4, <2>1, <2>4 DEF RunTask, PoolTasks
    <3>2. BlockingTypeOK' /\ IdleHasNoJob' /\ InFlight' = InFlight
      BY <2>1, <3>1 DEF BlockingTypeOK, JoinStates, IdleHasNoJob, InFlight
    <3>3. PoolTasksQueued'
      BY <2>1, <3>1 DEF PoolTasksQueued
    <3> QED BY <2>2, <3>1, <3>2, <3>3 DEF PermitAccounting
  <2> QED BY <2>1, <2>3, <2>4 DEF PoolTasks
<1>5. ASSUME NEW t \in JoinTasks, SpawnJoin(t) PROVE BlockingInv'
  <2> DEFINE task == [kind |-> "join", of |-> t]
  <2>1. /\ task \in PoolTasks /\ task.kind # "job"
        /\ pool' = Append(pool, task)
        /\ Len(pool') = Len(pool) + 1 /\ pool'[Len(pool) + 1] = task
        /\ \A i \in 1..Len(pool) : pool'[i] = pool[i]
    BY <1>5 DEF SpawnJoin, PoolTasks, BlockingTypeOK
  <2>2. BlockingTypeOK' /\ IdleHasNoJob' /\ InFlight' = InFlight
    BY <1>5, <2>1 DEF SpawnJoin, BlockingTypeOK, JoinStates, IdleHasNoJob, InFlight
  <2>3. PoolTasksQueued' /\ PoolTasksDistinct'
    BY <1>5, <2>1
    DEF SpawnJoin, PoolTasksQueued, PoolTasksDistinct, BlockingTypeOK
  <2> QED BY <1>5, <2>2, <2>3 DEF SpawnJoin, PermitAccounting
<1>6. ASSUME NEW t \in JoinTasks, JoinReturn(t) PROVE BlockingInv'
  <2>1. BlockingTypeOK' /\ IdleHasNoJob' /\ InFlight' = InFlight
    BY <1>6 DEF JoinReturn, BlockingTypeOK, JoinStates, IdleHasNoJob, InFlight
  <2> QED
    BY <1>6, <2>1
    DEF JoinReturn, PoolTasksQueued, PoolTasksDistinct, PermitAccounting
<1>7. CASE UNCHANGED blockingVars
  <2>1. InFlight' = InFlight
    BY <1>7 DEF blockingVars, InFlight
  <2> QED
    BY <1>7, <2>1
    DEF blockingVars, BlockingTypeOK, IdleHasNoJob, PoolTasksQueued, PoolTasksDistinct,
        PermitAccounting
<1> QED
  BY <1>1, <1>2, <1>3, <1>4, <1>5, <1>6, <1>7 DEF BlockingNext

\* Every state of the worker has the types of its variables.
THEOREM BlockingTypeCorrect == BlockingSpec => []BlockingTypeOK
<1>1. BlockingInv => BlockingTypeOK
  BY DEF BlockingInv
<1> QED BY <1>1, BlockingInitOK, BlockingStepOK, PTL DEF BlockingSpec

\* Permits are conserved by blocking::run: whatever times out, panics or is
\* abandoned, each permit is in the semaphore or with a closure that has not
\* ended.
THEOREM PermitsConserved == BlockingSpec => []PermitAccounting
<1>1. BlockingInv => PermitAccounting
  BY DEF BlockingInv
<1> QED BY <1>1, BlockingInitOK, BlockingStepOK, PTL DEF BlockingSpec

\* blocking::run never has more than MAX_IN_FLIGHT calls queued or in the
\* kernel, however many of their handlers have given up waiting.
THEOREM BoundedInFlight == BlockingSpec => []InFlightBounded
<1>1. BlockingInv => InFlightBounded
  <2>1. Cardinality(InFlight) \in Nat
    BY InFlightFinite, FS_CardinalityType
  <2> QED
    BY <2>1, BlockingAssumption
    DEF BlockingInv, BlockingTypeOK, PermitAccounting, InFlightBounded, BlockingAssumption
<1> QED BY <1>1, BlockingInitOK, BlockingStepOK, PTL DEF BlockingSpec
-----------------------------------------------------------------------------
(***************************************************************************)
(* What a handler may conclude from the answer of blocking::run.  A result *)
(* is that of a closure that has ended, and it stays so: a pool thread     *)
(* only touches a closure that was queued.                                 *)
(***************************************************************************)
AnswerIsResult ==
  \A j \in Jobs :
    /\ caller[j] \in {"ok", "err"} => job[j] = caller[j]
    /\ caller[j] = "failed" => job[j] = "panic"
    /\ caller[j] = "exhausted" => job[j] = "none"

\* A pool thread that picks up the closure of a call finds it queued.
LEMMA PickedUpWasQueued ==
  ASSUME BlockingInv, RunTask, NEW j \in Jobs, job'[j] # job[j]
  PROVE  job[j] = "queued" /\ job'[j] = "running"
<1>1. /\ Head(pool) = pool[1] /\ 1 \in 1..Len(pool) /\ Head(pool) \in PoolTasks
  BY DEF RunTask, BlockingInv, BlockingTypeOK
<1>2. CASE Head(pool).kind = "job"
  <2>1. /\ Head(pool).of \in Jobs /\ job[Head(pool).of] = "queued"
        /\ job' = [job EXCEPT ![Head(pool).of] = "running"]
    BY <1>1, <1>2 DEF RunTask, BlockingInv, PoolTasks, PoolTasksQueued
  <2> QED BY <2>1 DEF BlockingInv, BlockingTypeOK
<1>3. CASE Head(pool).kind = "join"
  BY <1>3 DEF RunTask
<1> QED BY <1>1, <1>2, <1>3 DEF PoolTasks

\* No step of the worker changes what an answer stands for.
LEMMA AnswerIsResultStep ==
  BlockingInv /\ AnswerIsResult /\ [BlockingNext]_blockingVars => AnswerIsResult'
<1> SUFFICES ASSUME BlockingInv, AnswerIsResult, [BlockingNext]_blockingVars
             PROVE  AnswerIsResult'
  OBVIOUS
<1> USE DEF BlockingInv, BlockingTypeOK
<1>1. ASSUME NEW j \in Jobs, RunAccepted(j) PROVE AnswerIsResult'
  BY <1>1 DEF RunAccepted, AnswerIsResult
<1>2. ASSUME NEW j \in Jobs, RunExhausted(j) PROVE AnswerIsResult'
  BY <1>2 DEF RunExhausted, AnswerIsResult, IdleHasNoJob
<1>3. ASSUME NEW j \in Jobs, Await(j) PROVE AnswerIsResult'
  <2>1. caller'[j] = IF job[j] = "panic" THEN "failed" ELSE job[j]
    BY <1>3 DEF Await
  <2>2. job[j] \in {"ok", "err", "panic"} /\ job' = job
    BY <1>3 DEF Await, Results
  <2>3. \A i \in Jobs : i # j => caller'[i] = caller[i]
    BY <1>3 DEF Await
  <2> QED BY <2>1, <2>2, <2>3 DEF AnswerIsResult
<1>4. ASSUME NEW j \in Jobs, Timeout(j) \/ Abandon(j) PROVE AnswerIsResult'
  BY <1>4 DEF Timeout, Abandon, AnswerIsResult
<1>5. ASSUME NEW j \in Jobs, NEW result \in Results, Return(j, result)
      PROVE  AnswerIsResult'
  BY <1>5 DEF Return, AnswerIsResult
<1>6. CASE RunTask
  <2>1. \A j \in Jobs : job'[j] # job[j] => job[j] = "queued"
    BY <1>6, PickedUpWasQueued
  <2>2. caller' = caller
    BY <1>6 DEF RunTask
  <2> QED BY <2>1, <2>2 DEF AnswerIsResult
<1>7. CASE (\E t \in JoinTasks : SpawnJoin(t) \/ JoinReturn(t)) \/ UNCHANGED blockingVars
  BY <1>7 DEF SpawnJoin, JoinReturn, blockingVars, AnswerIsResult
<1> QED
  BY <1>1, <1>2, <1>3, <1>4, <1>5, <1>6, <1>7 DEF BlockingNext

\* The answers of blocking::run are truthful: one that reports a result or a
\* panic is given for a closure that has ended so, and "capacity exhausted"
\* for one that was never started and never will be.
THEOREM AnswersTruthful == BlockingSpec => []AnswerIsResult
<1>1. BlockingInit => AnswerIsResult
  BY DEF BlockingInit, AnswerIsResult
<1> QED
  BY <1>1, AnswerIsResultStep, BlockingInitOK, BlockingStepOK, PTL DEF BlockingSpec
-----------------------------------------------------------------------------
(***************************************************************************)
(* The inductive invariant, watch by watch.  KernelStateOwned needs to     *)
(* know what the clean-up loop has still to do, that what it has done and  *)
(* is still armed was refused, and that a start that failed has created    *)
(* nothing.  AtMostOneLateRound needs to know which breakpoints the        *)
(* current round has already polled.                                       *)
(***************************************************************************)
PollerOfLive(w) ==
  /\ start[w] = "live" <=> poller[w] # "none"
  /\ cancel[w] => start[w] = "live"

NothingCreatedYet(w) ==
  start[w] \in {"idle", "opening", "listing", "failed"} => Breakpoints(w) = {}

ArmedAwaitsRemoval(w) ==
  /\ poller[w] = "cleanup" => Armed(w) \subseteq todo[w] \cup Refused(w)
  /\ poller[w] = "exited" => Armed(w) \subseteq Refused(w)

DescriptorOwned(w) ==
  w \in fds => start[w] \in {"listing", "creating"} \/ PollerAlive(w)

LatePolls(w) ==
  /\ ~cancel[w] => late[w] = 0
  /\ late[w] <= Cardinality(Breakpoints(w))
  /\ poller[w] \in {"polling", "cleanup"} => todo[w] \subseteq Breakpoints(w)
  /\ poller[w] = "polling" => late[w] <= Cardinality(Breakpoints(w) \ todo[w])

WatchOK(w) ==
  /\ PollerOfLive(w)
  /\ NothingCreatedYet(w)
  /\ ArmedAwaitsRemoval(w)
  /\ DescriptorOwned(w)
  /\ LatePolls(w)

WatchInv == WatchTypeOK /\ \A w \in Watches : WatchOK(w)
-----------------------------------------------------------------------------
\* The breakpoints of a watch, and any part of them, are finitely many.
LEMMA BreakpointsFinite ==
  ASSUME NEW w, NEW S \in SUBSET Breakpoints(w)
  PROVE  IsFiniteSet(S) /\ Cardinality(S) \in Nat
<1>1. S \subseteq Tids
  BY DEF Breakpoints
<1> QED BY <1>1, WatchAssumption, FS_Subset, FS_CardinalityType DEF WatchAssumption

\* Whether a watch satisfies the invariant depends on its own state only.
LEMMA OwnStateOnly ==
  ASSUME NEW v \in Watches, WatchOK(v),
         start'[v] = start[v], bp'[v] = bp[v], v \in fds' <=> v \in fds,
         todo'[v] = todo[v], cancel'[v] = cancel[v], poller'[v] = poller[v],
         late'[v] = late[v]
  PROVE  WatchOK(v)'
<1>1. UNCHANGED <<Breakpoints(v), Armed(v), Refused(v)>>
  BY DEF Breakpoints, Armed, Refused
<1> QED
  BY <1>1
  DEF WatchOK, PollerOfLive, NothingCreatedYet, ArmedAwaitsRemoval, DescriptorOwned,
      LatePolls, PollerAlive

\* No step of one watch touches the state of another.
LEMMA OthersUntouched ==
  ASSUME WatchTypeOK, NEW w \in Watches, StartStep(w) \/ Stop(w) \/ PollerStep(w),
         NEW v \in Watches, v # w
  PROVE  /\ start'[v] = start[v] /\ bp'[v] = bp[v] /\ (v \in fds' <=> v \in fds)
         /\ todo'[v] = todo[v] /\ cancel'[v] = cancel[v] /\ poller'[v] = poller[v]
         /\ late'[v] = late[v]
<1> USE DEF WatchTypeOK
<1>1. CASE StartStep(w)
  BY <1>1
  DEF StartStep, StartWatch, OpenDriver, ListThreads, CreateBreakpoint, NoneCreated,
      SpawnPoller, SpawnPanics
<1>2. CASE Stop(w)
  BY <1>2 DEF Stop
<1>3. CASE PollerStep(w)
  BY <1>3
  DEF PollerStep, CheckCancel, PollHits, EndRound, RemoveBreakpoint, ExitPoller
<1> QED BY <1>1, <1>2, <1>3
-----------------------------------------------------------------------------
\* Before any call of start_watch nothing exists.
LEMMA WatchInitOK == WatchInit => WatchInv
<1> SUFFICES ASSUME WatchInit PROVE WatchInv
  OBVIOUS
<1>1. WatchTypeOK
  BY DEF WatchInit, WatchTypeOK, StartStates, BpStates, PollerStates
<1>2. ASSUME NEW w \in Watches PROVE WatchOK(w)
  <2>1. Breakpoints(w) = {} /\ Armed(w) = {}
    BY DEF WatchInit, Breakpoints, Armed, Refused
  <2> QED
    BY <2>1, FS_EmptySet
    DEF WatchInit, WatchOK, PollerOfLive, NothingCreatedYet, ArmedAwaitsRemoval,
        DescriptorOwned, LatePolls
<1> QED BY <1>1, <1>2 DEF WatchInv

\* Steps keep the variables in their types.
LEMMA WatchTypeStep ==
  ASSUME WatchTypeOK, NEW w \in Watches, StartStep(w) \/ Stop(w) \/ PollerStep(w)
  PROVE  WatchTypeOK'
<1>1. CASE StartStep(w)
  <2>1. CASE StartWatch(w)
    BY <2>1 DEF WatchTypeOK, StartStates, StartWatch
  <2>2. CASE OpenDriver(w)
    BY <2>2 DEF WatchTypeOK, StartStates, OpenDriver
  <2>3. CASE ListThreads(w)
    <3>1. PICK found \in SUBSET Tids :
            \/ start' = [start EXCEPT ![w] = "failed"] /\ fds' = fds \ {w}
               /\ UNCHANGED <<tids, todo>>
            \/ start' = [start EXCEPT ![w] = "creating"] /\ UNCHANGED fds
               /\ tids' = [tids EXCEPT ![w] = found] /\ todo' = [todo EXCEPT ![w] = found]
      BY <2>3 DEF ListThreads
    <3> QED BY <2>3, <3>1 DEF WatchTypeOK, StartStates, ListThreads
  <2>4. ASSUME NEW t \in Tids, CreateBreakpoint(w, t) PROVE WatchTypeOK'
    BY <2>4 DEF WatchTypeOK, BpStates, CreateBreakpoint
  <2>5. CASE NoneCreated(w) \/ SpawnPoller(w) \/ SpawnPanics(w)
    BY <2>5 DEF WatchTypeOK, StartStates, PollerStates, NoneCreated, SpawnPoller, SpawnPanics
  <2> QED BY <1>1, <2>1, <2>2, <2>3, <2>4, <2>5 DEF StartStep
<1>2. CASE Stop(w)
  BY <1>2 DEF WatchTypeOK, Stop
<1>3. CASE PollerStep(w)
  <2>1. Breakpoints(w) \in SUBSET Tids
    BY DEF Breakpoints
  <2>2. CASE CheckCancel(w)
    <3>1. todo' \in [Watches -> SUBSET Tids]
      BY <2>1, <2>2 DEF WatchTypeOK, CheckCancel
    <3>2. \/ /\ poller' = [poller EXCEPT ![w] = "cleanup"]
             /\ pollFailed' = pollFailed
          \/ /\ poller' = [poller EXCEPT ![w] = "polling"]
             /\ pollFailed' = [pollFailed EXCEPT ![w] = 0]
      BY <2>2, Zenon DEF CheckCancel
    <3>3. pollFailed' \in [Watches -> Nat]
      BY <3>2 DEF WatchTypeOK
    <3>4. poller' \in [Watches -> PollerStates]
      BY <3>2 DEF WatchTypeOK, PollerStates
    <3> QED BY <2>2, <3>1, <3>3, <3>4 DEF WatchTypeOK, CheckCancel
  <2>3. ASSUME NEW t \in Tids, PollHits(w, t) PROVE WatchTypeOK'
    BY <2>3 DEF WatchTypeOK, PollHits
  <2>4. CASE EndRound(w)
    <3>1. RoundErrors(w) \in Nat
      BY DEF WatchTypeOK, RoundErrors
    <3>2. errs' \in [Watches -> Nat]
      BY <2>4, <3>1 DEF WatchTypeOK, EndRound
    <3>3. todo' \in [Watches -> SUBSET Tids]
      BY <2>1, <2>4 DEF WatchTypeOK, EndRound
    <3>4. \/ poller' = [poller EXCEPT ![w] = "cleanup"]
          \/ poller' = [poller EXCEPT ![w] = "head"]
      BY <2>4, Zenon DEF EndRound
    <3>5. poller' \in [Watches -> PollerStates]
      BY <3>4 DEF WatchTypeOK, PollerStates
    <3> QED BY <2>4, <3>2, <3>3, <3>5 DEF WatchTypeOK, EndRound
  <2>5. ASSUME NEW t \in Tids, RemoveBreakpoint(w, t) PROVE WatchTypeOK'
    BY <2>5 DEF WatchTypeOK, BpStates, RemoveBreakpoint
  <2>6. CASE ExitPoller(w)
    BY <2>6 DEF WatchTypeOK, PollerStates, ExitPoller
  <2> QED BY <1>3, <2>2, <2>3, <2>4, <2>5, <2>6 DEF PollerStep
<1> QED BY <1>1, <1>2, <1>3
-----------------------------------------------------------------------------
\* A step of start_driver_watch.
LEMMA StartStepOK ==
  ASSUME WatchTypeOK, NEW w \in Watches, WatchOK(w), StartStep(w)
  PROVE  WatchOK(w)'
<1> USE DEF WatchTypeOK, WatchOK, PollerOfLive
<1>1. CASE StartWatch(w) \/ OpenDriver(w) \/ ListThreads(w) \/ NoneCreated(w)
  <2>1. /\ start[w] \notin {"live", "panicked"} /\ start'[w] \notin {"live", "panicked"}
        /\ UNCHANGED <<bp, cancel, poller, late>>
    BY <1>1 DEF StartWatch, OpenDriver, ListThreads, NoneCreated
  <2>2. UNCHANGED <<Breakpoints(w), Armed(w), Refused(w)>>
    BY <2>1 DEF Breakpoints, Armed, Refused
  <2>3. NothingCreatedYet(w)'
    BY <1>1, <2>2
    DEF NothingCreatedYet, StartWatch, OpenDriver, ListThreads, NoneCreated
  <2>4. DescriptorOwned(w)'
    BY <1>1
    DEF DescriptorOwned, PollerAlive, StartWatch, OpenDriver, ListThreads, NoneCreated
  <2> QED
    BY <2>1, <2>2, <2>3, <2>4 DEF ArmedAwaitsRemoval, LatePolls
<1>2. ASSUME NEW t \in Tids, CreateBreakpoint(w, t) PROVE WatchOK(w)'
  <2>1. /\ start[w] = "creating" /\ poller[w] = "none" /\ ~cancel[w]
        /\ UNCHANGED <<start, fds, cancel, poller, late>>
    BY <1>2 DEF CreateBreakpoint
  <2>2. Cardinality(Breakpoints(w)') \in Nat
    <3>1. Breakpoints(w)' \subseteq Tids
      BY DEF Breakpoints
    <3> QED BY <3>1, WatchAssumption, FS_Subset, FS_CardinalityType DEF WatchAssumption
  <2> QED
    BY <2>1, <2>2
    DEF NothingCreatedYet, ArmedAwaitsRemoval, DescriptorOwned, PollerAlive, LatePolls
<1>3. CASE SpawnPoller(w) \/ SpawnPanics(w)
  <2>1. /\ start[w] = "creating" /\ poller[w] = "none" /\ ~cancel[w]
        /\ UNCHANGED <<bp, cancel, late>>
        /\ \/ start'[w] = "live" /\ poller'[w] = "head"
           \/ start'[w] = "panicked" /\ poller'[w] = "none" /\ fds' = fds \ {w}
    BY <1>3 DEF SpawnPoller, SpawnPanics
  <2>2. UNCHANGED <<Breakpoints(w), Armed(w), Refused(w)>>
    BY <2>1 DEF Breakpoints, Armed, Refused
  <2> QED
    BY <2>1, <2>2
    DEF NothingCreatedYet, ArmedAwaitsRemoval, DescriptorOwned, PollerAlive, LatePolls
<1> QED BY <1>1, <1>2, <1>3 DEF StartStep

\* RunningWatch::stop.
LEMMA StopOK ==
  ASSUME WatchTypeOK, NEW w \in Watches, WatchOK(w), Stop(w)
  PROVE  WatchOK(w)'
<1>1. /\ start[w] = "live" /\ late[w] = 0 /\ cancel'[w]
      /\ UNCHANGED <<start, bp, fds, todo, poller, late>>
  BY DEF Stop, WatchOK, LatePolls, WatchTypeOK
<1>2. UNCHANGED <<Breakpoints(w), Armed(w), Refused(w)>>
  BY <1>1 DEF Breakpoints, Armed, Refused
<1> QED
  BY <1>1, <1>2
  DEF WatchOK, PollerOfLive, NothingCreatedYet, ArmedAwaitsRemoval, DescriptorOwned,
      PollerAlive, LatePolls

\* A step of the poller thread.
LEMMA PollerStepOK ==
  ASSUME WatchTypeOK, NEW w \in Watches, WatchOK(w), PollerStep(w)
  PROVE  WatchOK(w)'
<1> USE DEF WatchOK, WatchTypeOK
<1>1. Breakpoints(w) \in SUBSET Tids /\ Armed(w) \subseteq Breakpoints(w)
  BY DEF Breakpoints, Armed, Refused
<1>2. CASE CheckCancel(w)
  <2>1. /\ UNCHANGED <<start, bp, fds, cancel, late>>
        /\ poller[w] = "head" /\ todo'[w] = Breakpoints(w)
        /\ poller'[w] = IF cancel[w] THEN "cleanup" ELSE "polling"
    BY <1>2 DEF CheckCancel
  <2>2. UNCHANGED <<Breakpoints(w), Armed(w), Refused(w)>>
    BY <2>1 DEF Breakpoints, Armed, Refused
  <2>3. ~cancel[w] => late[w] <= Cardinality(Breakpoints(w) \ todo'[w])
    <3>1. Cardinality(Breakpoints(w) \ todo'[w]) \in Nat
      BY BreakpointsFinite
    <3> QED BY <3>1 DEF LatePolls
  <2> QED
    BY <1>1, <2>1, <2>2, <2>3
    DEF PollerOfLive, NothingCreatedYet, ArmedAwaitsRemoval, DescriptorOwned, PollerAlive,
        LatePolls
<1>3. ASSUME NEW t \in Tids, PollHits(w, t) PROVE WatchOK(w)'
  <2>1. /\ UNCHANGED <<start, bp, fds, cancel, poller>>
        /\ poller[w] = "polling" /\ t \in todo[w] /\ todo'[w] = todo[w] \ {t}
        /\ late'[w] = IF cancel[w] THEN late[w] + 1 ELSE late[w]
    BY <1>3 DEF PollHits
  <2>2. UNCHANGED <<Breakpoints(w), Armed(w), Refused(w)>>
    BY <2>1 DEF Breakpoints, Armed, Refused
  <2> DEFINE polled == Breakpoints(w) \ todo[w]
  <2>3. t \notin polled /\ Breakpoints(w) \ todo'[w] = polled \cup {t}
    BY <2>1 DEF LatePolls
  <2>4. Cardinality(polled \cup {t}) = Cardinality(polled) + 1
    BY <2>3, BreakpointsFinite, FS_AddElement
  <2>5. Cardinality(polled \cup {t}) <= Cardinality(Breakpoints(w))
    <3>1. polled \cup {t} \subseteq Breakpoints(w)
      BY <2>1 DEF LatePolls
    <3> QED BY <3>1, BreakpointsFinite, FS_Subset
  <2>6. Cardinality(polled) \in Nat /\ Cardinality(Breakpoints(w)) \in Nat
    BY BreakpointsFinite
  <2>7. late[w] <= Cardinality(polled) /\ late[w] \in Nat
    BY <2>1 DEF LatePolls
  <2>8. ASSUME cancel[w] PROVE LatePolls(w)'
    <3>1. late'[w] <= Cardinality(polled \cup {t}) /\ late'[w] <= Cardinality(Breakpoints(w))
      BY <2>1, <2>4, <2>5, <2>6, <2>7, <2>8
    <3> QED BY <2>1, <2>2, <2>3, <2>8, <3>1 DEF LatePolls
  <2>9. ASSUME ~cancel[w] PROVE LatePolls(w)'
    <3>1. late'[w] = 0
      BY <2>1, <2>9 DEF LatePolls
    <3>2. 0 <= Cardinality(polled \cup {t}) /\ 0 <= Cardinality(Breakpoints(w))
      BY <2>4, <2>6
    <3> QED BY <2>1, <2>2, <2>3, <3>1, <3>2 DEF LatePolls
  <2> QED
    BY <2>1, <2>2, <2>8, <2>9
    DEF PollerOfLive, NothingCreatedYet, ArmedAwaitsRemoval, DescriptorOwned, PollerAlive
<1>4. CASE EndRound(w)
  <2>1. /\ UNCHANGED <<start, bp, fds, cancel, late>> /\ poller[w] = "polling"
        /\ \/ poller'[w] = "head"
           \/ poller'[w] = "cleanup" /\ todo'[w] = Breakpoints(w)
    BY <1>4 DEF EndRound
  <2>2. UNCHANGED <<Breakpoints(w), Armed(w), Refused(w)>>
    BY <2>1 DEF Breakpoints, Armed, Refused
  <2> QED
    BY <1>1, <2>1, <2>2
    DEF PollerOfLive, NothingCreatedYet, ArmedAwaitsRemoval, DescriptorOwned, PollerAlive,
        LatePolls
<1>5. ASSUME NEW t \in Tids, RemoveBreakpoint(w, t) PROVE WatchOK(w)'
  <2>1. /\ UNCHANGED <<start, fds, cancel, poller, late>>
        /\ poller[w] = "cleanup" /\ t \in todo[w] /\ todo'[w] = todo[w] \ {t}
    BY <1>5 DEF RemoveBreakpoint
  <2>2. PICK r \in {"removed", "refused"} : bp' = [bp EXCEPT ![w][t] = r]
    BY <1>5 DEF RemoveBreakpoint
  <2>3. /\ Armed(w)' \ {t} = Armed(w) \ {t} /\ Refused(w)' \ {t} = Refused(w) \ {t}
        /\ t \in Armed(w)' <=> t \in Refused(w)'
    BY <2>2 DEF Armed, Refused
  <2>4. Breakpoints(w)' = Breakpoints(w) \cup {t}
    BY <2>2 DEF Breakpoints
  <2> QED
    BY <2>1, <2>3, <2>4
    DEF PollerOfLive, NothingCreatedYet, ArmedAwaitsRemoval, DescriptorOwned, PollerAlive,
        LatePolls
<1>6. CASE ExitPoller(w)
  <2>1. /\ UNCHANGED <<start, bp, cancel, late>> /\ fds' = fds \ {w}
        /\ poller[w] = "cleanup" /\ todo[w] = {} /\ poller'[w] = "exited"
    BY <1>6 DEF ExitPoller
  <2>2. UNCHANGED <<Breakpoints(w), Armed(w), Refused(w)>>
    BY <2>1 DEF Breakpoints, Armed, Refused
  <2> QED
    BY <2>1, <2>2
    DEF PollerOfLive, NothingCreatedYet, ArmedAwaitsRemoval, DescriptorOwned, PollerAlive,
        LatePolls
<1> QED BY <1>2, <1>3, <1>4, <1>5, <1>6 DEF PollerStep

\* No step of any watch breaks the invariant.
LEMMA WatchStepOK == WatchInv /\ [WatchNext]_watchVars => WatchInv'
<1> SUFFICES ASSUME WatchInv, [WatchNext]_watchVars PROVE WatchInv'
  OBVIOUS
<1> USE DEF WatchInv
<1>1. ASSUME NEW w \in Watches, StartStep(w) \/ Stop(w) \/ PollerStep(w)
      PROVE  WatchInv'
  <2>1. WatchTypeOK'
    BY <1>1, WatchTypeStep
  <2>2. WatchOK(w)'
    BY <1>1, StartStepOK, StopOK, PollerStepOK
  <2>3. ASSUME NEW v \in Watches, v # w PROVE WatchOK(v)'
    BY <1>1, <2>3, OthersUntouched, OwnStateOnly
  <2> QED BY <2>1, <2>2, <2>3
<1>2. CASE UNCHANGED watchVars
  <2>1. WatchTypeOK'
    BY <1>2 DEF watchVars, WatchTypeOK
  <2>2. ASSUME NEW v \in Watches PROVE WatchOK(v)'
    BY <1>2, OwnStateOnly DEF watchVars
  <2> QED BY <2>1, <2>2
<1> QED BY <1>1, <1>2 DEF WatchNext

\* Every state of the watches has the types of its variables.
THEOREM WatchTypeCorrect == WatchSpec => []WatchTypeOK
<1>1. WatchInv => WatchTypeOK
  BY DEF WatchInv
<1> QED BY <1>1, WatchInitOK, WatchStepOK, PTL DEF WatchSpec

\* In start_driver_watch and in the poller thread alike, whatever ioctl
\* fails, armed breakpoints and open descriptors have an owner that will
\* give them back, unless the driver refused to remove the breakpoint when
\* it was its turn or thread::spawn has panicked.
THEOREM KernelStateAlwaysOwned == WatchSpec => []KernelStateOwned
<1>1. WatchInv => KernelStateOwned
  <2> SUFFICES ASSUME WatchInv, NEW w \in Watches
               PROVE  /\ \/ Armed(w) \subseteq Refused(w)
                         \/ start[w] \in {"creating", "panicked"}
                         \/ PollerAlive(w)
                      /\ w \in fds => start[w] \in {"listing", "creating"} \/ PollerAlive(w)
    BY DEF KernelStateOwned
  <2>1. WatchOK(w) /\ start[w] \in StartStates /\ poller[w] \in PollerStates
    BY DEF WatchInv, WatchTypeOK
  <2>2. Armed(w) \subseteq Breakpoints(w)
    BY DEF Armed, Refused, Breakpoints
  <2> QED
    BY <2>1, <2>2
    DEF WatchOK, PollerOfLive, NothingCreatedYet, ArmedAwaitsRemoval, DescriptorOwned,
        PollerAlive, StartStates, PollerStates
<1> QED BY <1>1, WatchInitOK, WatchStepOK, PTL DEF WatchSpec

\* After RunningWatch::stop the poller thread polls each breakpoint at most
\* once more, so what a client can still receive is bounded.
THEOREM StopIsPrompt == WatchSpec => []AtMostOneLateRound
<1>1. WatchInv => AtMostOneLateRound
  BY DEF WatchInv, WatchOK, LatePolls, AtMostOneLateRound
<1> QED BY <1>1, WatchInitOK, WatchStepOK, PTL DEF WatchSpec
-----------------------------------------------------------------------------
(***************************************************************************)
(* Why a poller thread ends, which the invariant above does not tell: the  *)
(* count of failed rounds is only ever judged at the end of a round.       *)
(***************************************************************************)
EndsForAReason(w) ==
  /\ poller[w] = "none" => errs[w] = 0
  /\ poller[w] \in {"head", "polling"} => errs[w] < MaxErrors
  /\ poller[w] \in {"cleanup", "exited"} => cancel[w] \/ errs[w] >= MaxErrors

PollersEndForAReason == \A w \in Watches : EndsForAReason(w)

\* No step of a watch makes its poller end early, or go on for too long.
LEMMA EndsForAReasonStep ==
  WatchInv /\ PollersEndForAReason /\ [WatchNext]_watchVars => PollersEndForAReason'
<1> SUFFICES ASSUME WatchInv, PollersEndForAReason, [WatchNext]_watchVars
             PROVE  PollersEndForAReason'
  OBVIOUS
<1> USE DEF WatchInv, WatchTypeOK, PollersEndForAReason, EndsForAReason
<1>1. ASSUME NEW w \in Watches, StartStep(w) PROVE PollersEndForAReason'
  <2>1. UNCHANGED <<errs, cancel>>
    BY <1>1
    DEF StartStep, StartWatch, OpenDriver, ListThreads, CreateBreakpoint, NoneCreated,
        SpawnPoller, SpawnPanics
  <2>2. poller' = poller \/ (SpawnPoller(w) /\ poller' = [poller EXCEPT ![w] = "head"])
    BY <1>1
    DEF StartStep, StartWatch, OpenDriver, ListThreads, CreateBreakpoint, NoneCreated,
        SpawnPoller, SpawnPanics
  <2>3. CASE poller' = poller
    BY <2>1, <2>3
  <2>4. CASE SpawnPoller(w) /\ poller' = [poller EXCEPT ![w] = "head"]
    <3>1. poller[w] = "none"
      BY <2>4 DEF SpawnPoller, WatchOK, PollerOfLive
    <3>2. errs[w] < MaxErrors
      BY <3>1, WatchAssumption DEF WatchAssumption
    <3> QED BY <2>1, <2>4, <3>2
  <2> QED BY <2>2, <2>3, <2>4
<1>2. ASSUME NEW w \in Watches, Stop(w) PROVE PollersEndForAReason'
  BY <1>2 DEF Stop
<1>3. ASSUME NEW w \in Watches, PollerStep(w) PROVE PollersEndForAReason'
  <2>1. ASSUME NEW v \in Watches, v # w PROVE EndsForAReason(v)'
    <3>1. /\ poller'[v] = poller[v] /\ errs'[v] = errs[v] /\ cancel'[v] = cancel[v]
      BY <1>3, <2>1
      DEF PollerStep, CheckCancel, PollHits, EndRound, RemoveBreakpoint, ExitPoller
    <3> QED BY <3>1
  <2>2. EndsForAReason(w)'
    <3>1. CASE CheckCancel(w)
      <4>1. /\ UNCHANGED <<errs, cancel>> /\ poller[w] = "head"
            /\ poller'[w] = IF cancel[w] THEN "cleanup" ELSE "polling"
        BY <3>1 DEF CheckCancel
      <4> QED BY <4>1
    <3>2. CASE EndRound(w)
      <4>1. RoundErrors(w) \in Nat
        BY DEF RoundErrors
      <4>2. /\ errs'[w] = RoundErrors(w) /\ UNCHANGED cancel
            /\ \/ RoundErrors(w) >= MaxErrors /\ poller'[w] = "cleanup"
               \/ RoundErrors(w) < MaxErrors /\ poller'[w] = "head"
        BY <3>2 DEF EndRound
      <4> QED BY <4>1, <4>2
    <3>3. CASE (\E t \in Tids : PollHits(w, t) \/ RemoveBreakpoint(w, t)) \/ ExitPoller(w)
      <4>1. /\ UNCHANGED <<errs, cancel>>
            /\ \/ poller'[w] = poller[w]
               \/ poller[w] = "cleanup" /\ poller'[w] = "exited"
        BY <3>3 DEF PollHits, RemoveBreakpoint, ExitPoller
      <4> QED BY <4>1
    <3> QED BY <1>3, <3>1, <3>2, <3>3 DEF PollerStep
  <2> QED BY <2>1, <2>2
<1>4. CASE UNCHANGED watchVars
  BY <1>4 DEF watchVars
<1> QED BY <1>1, <1>2, <1>3, <1>4 DEF WatchNext

\* The poller thread leaves its loop because it was cancelled or after
\* MaxErrors failed rounds in a row, for no other reason, and after so many it
\* does not begin another round.
THEOREM PollerEndsForAReason == WatchSpec => []PollersEndForAReason
<1>1. WatchInit => PollersEndForAReason
  BY WatchAssumption DEF WatchInit, PollersEndForAReason, EndsForAReason, WatchAssumption
<1> QED BY <1>1, EndsForAReasonStep, WatchInitOK, WatchStepOK, PTL DEF WatchSpec
=============================================================================
