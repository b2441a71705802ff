------------------------------ MODULE Blocking ------------------------------
(***************************************************************************)
(* The bounded worker of src/blocking.rs: every handler that has to make a *)
(* blocking kernel or procfs call wraps it in blocking::run, which takes   *)
(* one of MAX_IN_FLIGHT permits, hands the call to tokio's blocking thread *)
(* pool and waits for it for at most MAX_DURATION.  The permit travels     *)
(* with the call, not with the handler that waits for it.                  *)
(*                                                                         *)
(* The thread pool is tokio's and is shared: every running watch parks one *)
(* more task in it, the one that joins the watch's poller thread           *)
(* (src/watch.rs), and that task holds no permit.  Time is abstracted:     *)
(* the deadline of a waiting handler may pass at any moment.               *)
(***************************************************************************)
EXTENDS Integers, FiniteSets, Sequences

CONSTANTS
  Jobs,         \* the calls of blocking::run, one per HTTP request
  JoinTasks,    \* the tasks that join a poller thread, one per watch
  MaxInFlight,  \* MAX_IN_FLIGHT (8)
  PoolThreads   \* the threads tokio's blocking pool may start (512)

ASSUME BlockingAssumption ==
  /\ IsFiniteSet(Jobs)
  /\ IsFiniteSet(JoinTasks)
  /\ MaxInFlight \in Nat \ {0}
  /\ PoolThreads \in Nat \ {0}

VARIABLES
  permits,  \* permits left in the semaphore SLOTS
  job,      \* the closure given to spawn_blocking by each call
  join,     \* the same for the join tasks
  pool,     \* tasks no pool thread has picked up yet, oldest first
  caller    \* the handler that awaits the call

blockingVars == <<permits, job, join, pool, caller>>

Results == {"ok", "err", "panic"}
JobStates == {"none", "queued", "running"} \cup Results
JoinStates == {"none", "queued", "running", "done"}
Answers == {"ok", "err", "failed", "timeout", "exhausted"}
CallerStates == {"idle", "waiting", "gone"} \cup Answers
PoolTasks == [kind : {"job"}, of : Jobs] \cup [kind : {"join"}, of : JoinTasks]

\* The calls that hold a permit: spawned, and the closure has not ended.
InFlight == {j \in Jobs : job[j] \in {"queued", "running"}}

BusyThreads ==
  Cardinality({j \in Jobs : job[j] = "running"})
    + Cardinality({t \in JoinTasks : join[t] = "running"})

BlockingInit ==
  /\ permits = MaxInFlight
  /\ job = [j \in Jobs |-> "none"]
  /\ join = [t \in JoinTasks |-> "none"]
  /\ pool = <<>>
  /\ caller = [j \in Jobs |-> "idle"]
-----------------------------------------------------------------------------
(* blocking::run, called by a handler. *)

\* try_acquire_owned gives a permit, which moves into the spawned closure.
RunAccepted(j) ==
  /\ caller[j] = "idle"
  /\ permits > 0
  /\ permits' = permits - 1
  /\ job' = [job EXCEPT ![j] = "queued"]
  /\ pool' = Append(pool, [kind |-> "job", of |-> j])
  /\ caller' = [caller EXCEPT ![j] = "waiting"]
  /\ UNCHANGED join

\* try_acquire_owned fails: nothing is spawned.
RunExhausted(j) ==
  /\ caller[j] = "idle"
  /\ permits = 0
  /\ caller' = [caller EXCEPT ![j] = "exhausted"]
  /\ UNCHANGED <<permits, job, join, pool>>

\* timeout() polls the task before the timer: a finished task is always seen.
Await(j) ==
  /\ caller[j] = "waiting"
  /\ job[j] \in Results
  /\ caller' = [caller EXCEPT ![j] = IF job[j] = "panic" THEN "failed" ELSE job[j]]
  /\ UNCHANGED <<permits, job, join, pool>>

\* Faulty variant: the permit is owned by the waiting handler.
TimeoutReleasingPermit(j) ==
  /\ caller[j] = "waiting"
  /\ job[j] \notin Results
  /\ caller' = [caller EXCEPT ![j] = "timeout"]
  /\ permits' = permits + 1
  /\ UNCHANGED <<job, join, pool>>

\* Faulty variant: the deadline only counts from the moment the call starts.
TimeoutOnceRunning(j) ==
  /\ caller[j] = "waiting"
  /\ job[j] = "running"
  /\ caller' = [caller EXCEPT ![j] = "timeout"]
  /\ UNCHANGED <<permits, job, join, pool>>

\* MAX_DURATION passes: the handler answers and the task is detached.
Timeout(j) ==
  /\ caller[j] = "waiting"
  /\ job[j] \notin Results
  /\ caller' = [caller EXCEPT ![j] = "timeout"]
  /\ UNCHANGED <<permits, job, join, pool>>

\* The client disconnects: the handler's future is dropped, the task is not.
Abandon(j) ==
  /\ caller[j] = "waiting"
  /\ caller' = [caller EXCEPT ![j] = "gone"]
  /\ UNCHANGED <<permits, job, join, pool>>
-----------------------------------------------------------------------------
(* The pool's threads. *)

\* A pool thread takes the oldest task.
RunTask ==
  /\ pool # <<>>
  /\ BusyThreads < PoolThreads
  /\ pool' = Tail(pool)
  /\ \/ /\ Head(pool).kind = "job"
        /\ job' = [job EXCEPT ![Head(pool).of] = "running"]
        /\ UNCHANGED join
     \/ /\ Head(pool).kind = "join"
        /\ join' = [join EXCEPT ![Head(pool).of] = "running"]
        /\ UNCHANGED job
  /\ UNCHANGED <<permits, caller>>

\* Faulty variant: the permit is given back by hand, after job() returns.
ReturnLeakingOnPanic(j, result) ==
  /\ job[j] = "running"
  /\ job' = [job EXCEPT ![j] = result]
  /\ permits' = IF result = "panic" THEN permits ELSE permits + 1
  /\ UNCHANGED <<join, pool, caller>>

\* The closure ends, by return or by unwinding, and drops its permit.
Return(j, result) ==
  /\ job[j] = "running"
  /\ job' = [job EXCEPT ![j] = result]
  /\ permits' = permits + 1
  /\ UNCHANGED <<join, pool, caller>>

\* start_driver_watch spawns the task that joins its poller thread ...
SpawnJoin(t) ==
  /\ join[t] = "none"
  /\ join' = [join EXCEPT ![t] = "queued"]
  /\ pool' = Append(pool, [kind |-> "join", of |-> t])
  /\ UNCHANGED <<permits, job, caller>>

\* ... which ends once that thread has ended.
JoinReturn(t) ==
  /\ join[t] = "running"
  /\ join' = [join EXCEPT ![t] = "done"]
  /\ UNCHANGED <<permits, job, pool, caller>>
-----------------------------------------------------------------------------
BlockingNext ==
  \/ \E j \in Jobs : \/ RunAccepted(j)
                     \/ RunExhausted(j)
                     \/ Await(j)
                     \/ Timeout(j)
                     \/ Abandon(j)
                     \/ \E result \in Results : Return(j, result)
  \/ RunTask
  \/ \E t \in JoinTasks : SpawnJoin(t) \/ JoinReturn(t)

BlockingSpec == BlockingInit /\ [][BlockingNext]_blockingVars

(***************************************************************************)
(* Fairness.  The runtime polls a handler whose task or timer is ready,    *)
(* and the pool's threads run.  NativeFairness is an assumption on the     *)
(* kernel, which the code does not control: a call that starts returns.    *)
(* Nothing makes a client connect, and nothing ends a join task.           *)
(***************************************************************************)
HandlerFairness == \A j \in Jobs : WF_blockingVars(Await(j) \/ Timeout(j))
PoolFairness == WF_blockingVars(RunTask)
NativeFairness == \A j \in Jobs : WF_blockingVars(\E r \in Results : Return(j, r))

BlockingFairSpec == BlockingSpec /\ HandlerFairness
-----------------------------------------------------------------------------
BlockingTypeOK ==
  /\ permits \in Nat
  /\ job \in [Jobs -> JobStates]
  /\ join \in [JoinTasks -> JoinStates]
  /\ pool \in Seq(PoolTasks)
  /\ caller \in [Jobs -> CallerStates]

\* Every permit is either in the semaphore or with a call whose closure has
\* not ended; timeouts, disconnects and panics neither lose nor forge one.
PermitAccounting == permits + Cardinality(InFlight) = MaxInFlight

\* blocking.rs: a timed-out task keeps its permit "until the native operation
\* returns, preventing a burst of stuck ioctls".  However many handlers have
\* given up waiting, at most MAX_IN_FLIGHT calls are queued or in the kernel.
InFlightBounded == Cardinality(InFlight) <= MaxInFlight

\* A handler never waits for ever, whatever becomes of its call: not when the
\* kernel never returns, nor when no pool thread ever picks the call up.
HandlersAnswered ==
  \A j \in Jobs : (caller[j] = "waiting") ~> (caller[j] # "waiting")

\* "capacity exhausted" is temporary: if the pool's threads run and the native
\* operations that start also return, then a permit comes back after all of
\* them were taken.  It takes a pool thread that no join task occupies.
PermitsComeBack ==
  PoolFairness /\ NativeFairness => ((permits = 0) ~> (permits > 0))
=============================================================================
