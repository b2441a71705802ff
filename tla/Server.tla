------------------------------- MODULE Server -------------------------------
(***************************************************************************)
(* The breakpoint half of the HTTP server (src/server.rs): POST, GET and   *)
(* DELETE on /breakpoints, composed with the bounded worker (Blocking) and *)
(* the watches (Watch) they use.                                           *)
(*                                                                         *)
(* create_breakpoint runs create_breakpoint_inner as a blocking job; every *)
(* create request starts at most one watch, so a watch is named after the  *)
(* job that creates it.  The remaining jobs stand for the other handlers   *)
(* that use blocking::run (processes, maps, resolve, memory).  The map of  *)
(* breakpoints is guarded by a mutex: the create job waits for it, the     *)
(* asynchronous handlers of GET and DELETE only try it.                    *)
(***************************************************************************)
EXTENDS Blocking, Watch

CONSTANT Clients  \* the handlers of GET and DELETE /breakpoints

ASSUME ServerAssumption ==
  /\ Watches \subseteq Jobs
  /\ JoinTasks = Watches
  /\ Clients \cap Watches = {}

VARIABLES
  nextId,    \* next_breakpoint_id
  bpId,      \* the id each create request was given, 0 before that
  lock,      \* who holds the mutex of the map: nobody, a create job or a handler
  registry,  \* the map: entries [id, watch]
  client,    \* what each handler is doing
  taken,     \* the entry a DELETE handler has taken out of the map
  acks       \* history: the 204 answers given for each watch

registryVars == <<nextId, bpId, lock, registry, client, taken, acks>>
vars == <<blockingVars, watchVars, registryVars>>

ClientStates == {"idle", "listing", "removing", "stopping"}

Init ==
  /\ BlockingInit
  /\ WatchInit
  /\ nextId = 1
  /\ bpId = [w \in Watches |-> 0]
  /\ lock = {}
  /\ registry = {}
  /\ client = [c \in Clients |-> "idle"]
  /\ taken = [c \in Clients |-> {}]
  /\ acks = [w \in Watches |-> 0]
-----------------------------------------------------------------------------
(* Requests that go through blocking::run, seen from their handlers. *)

Handle(j) ==
  /\ \/ RunAccepted(j)
     \/ RunExhausted(j)
     \/ Await(j)
     \/ Timeout(j)
     \/ Abandon(j)
  /\ UNCHANGED <<watchVars, registryVars>>

PickUp == RunTask /\ UNCHANGED <<watchVars, registryVars>>

OtherReturn(j) ==
  /\ j \notin Watches
  /\ \E result \in Results : Return(j, result)
  /\ UNCHANGED <<watchVars, registryVars>>
-----------------------------------------------------------------------------
(* create_breakpoint_inner, on a pool thread. *)

\* The type, the address or the filter does not parse or resolve.
PrepareFails(w) ==
  /\ start[w] = "idle"
  /\ Return(w, "err")
  /\ UNCHANGED <<watchVars, registryVars>>

\* Faulty variant: ids are taken from the size of the map.
PrepareBySize(w) ==
  /\ job[w] = "running"
  /\ StartWatch(w)
  /\ bpId' = [bpId EXCEPT ![w] = Cardinality(registry) + 1]
  /\ nextId' = nextId + 1
  /\ UNCHANGED <<blockingVars, lock, registry, client, taken, acks>>

\* Everything parses: the id is drawn before the watch starts.
Prepare(w) ==
  /\ job[w] = "running"
  /\ StartWatch(w)
  /\ bpId' = [bpId EXCEPT ![w] = nextId]
  /\ nextId' = nextId + 1
  /\ UNCHANGED <<blockingVars, lock, registry, client, taken, acks>>

StartProgress(w) ==
  /\ job[w] = "running"
  /\ \/ OpenDriver(w)
     \/ ListThreads(w)
     \/ \E t \in Tids : CreateBreakpoint(w, t)
     \/ NoneCreated(w)
     \/ SpawnPanics(w)
  /\ UNCHANGED <<blockingVars, registryVars>>

\* The poller thread starts, and a pool task that will join it is queued.
SpawnWatch(w) ==
  /\ job[w] = "running"
  /\ SpawnPoller(w)
  /\ SpawnJoin(w)
  /\ UNCHANGED registryVars

\* start_watch failed: the error, or the panic, ends the job.
StartFails(w) ==
  /\ \/ start[w] = "failed" /\ Return(w, "err")
     \/ start[w] = "panicked" /\ Return(w, "panic")
  /\ UNCHANGED <<watchVars, registryVars>>

\* Faulty variant: the watch is dropped when nobody waits for it any more.
InsertIfAwaited(w) ==
  /\ job[w] = "running"
  /\ start[w] = "live"
  /\ lock = {}
  /\ lock' = {w}
  /\ registry' = IF caller[w] = "waiting"
                 THEN {e \in registry : e.id # bpId[w]} \cup {[id |-> bpId[w], watch |-> w]}
                 ELSE registry
  /\ UNCHANGED <<blockingVars, watchVars, nextId, bpId, client, taken, acks>>

\* lock() waits; insert replaces an entry with the same id.
Insert(w) ==
  /\ job[w] = "running"
  /\ start[w] = "live"
  /\ lock = {}
  /\ lock' = {w}
  /\ registry' = {e \in registry : e.id # bpId[w]} \cup {[id |-> bpId[w], watch |-> w]}
  /\ UNCHANGED <<blockingVars, watchVars, nextId, bpId, client, taken, acks>>

\* The guard and then the permit are dropped, and the view is the result.
FinishCreate(w) ==
  /\ lock = {w}
  /\ lock' = {}
  /\ Return(w, "ok")
  /\ UNCHANGED <<watchVars, nextId, bpId, registry, client, taken, acks>>
-----------------------------------------------------------------------------
(* The threads a watch leaves behind. *)

Poll(w) == PollerStep(w) /\ UNCHANGED <<blockingVars, registryVars>>

\* thread.join() returns once the poller has ended.
JoinEnds(w) ==
  /\ poller[w] = "exited"
  /\ JoinReturn(w)
  /\ UNCHANGED <<watchVars, registryVars>>
-----------------------------------------------------------------------------
(* GET /breakpoints and DELETE /breakpoints/:id *)

ListLock(c) ==
  /\ client[c] = "idle"
  /\ lock = {}
  /\ lock' = {c}
  /\ client' = [client EXCEPT ![c] = "listing"]
  /\ UNCHANGED <<blockingVars, watchVars, nextId, bpId, registry, taken, acks>>

\* The views are copied under the lock, sorted, and sent.
ListReply(c) ==
  /\ client[c] = "listing"
  /\ lock' = {}
  /\ client' = [client EXCEPT ![c] = "idle"]
  /\ UNCHANGED <<blockingVars, watchVars, nextId, bpId, registry, taken, acks>>

\* try_lock finds the mutex taken: both handlers answer 503 and do nothing.
Busy(c) ==
  /\ client[c] = "idle"
  /\ lock # {}
  /\ UNCHANGED vars

\* Faulty variant: the entry is looked up and left in the map.
DeleteGet(c, i) ==
  /\ client[c] = "idle"
  /\ lock = {}
  /\ lock' = {c}
  /\ client' = [client EXCEPT ![c] = "removing"]
  /\ taken' = [taken EXCEPT ![c] = {e.watch : e \in {x \in registry : x.id = i}}]
  /\ UNCHANGED <<blockingVars, watchVars, nextId, bpId, registry, acks>>

DeleteRemove(c, i) ==
  /\ client[c] = "idle"
  /\ lock = {}
  /\ lock' = {c}
  /\ client' = [client EXCEPT ![c] = "removing"]
  /\ taken' = [taken EXCEPT ![c] = {e.watch : e \in {x \in registry : x.id = i}}]
  /\ registry' = {e \in registry : e.id # i}
  /\ UNCHANGED <<blockingVars, watchVars, nextId, bpId, acks>>

\* The guard lives as long as the match arm; without an entry the answer is
\* 404.
DeleteUnlock(c) ==
  /\ client[c] = "removing"
  /\ lock' = {}
  /\ client' = [client EXCEPT ![c] = IF taken[c] = {} THEN "idle" ELSE "stopping"]
  /\ UNCHANGED <<blockingVars, watchVars, nextId, bpId, registry, taken, acks>>

\* Faulty variant: the watch is dropped, which detaches its thread.
DeleteDropping(c) ==
  /\ client[c] = "stopping"
  /\ acks' = [w \in Watches |-> acks[w] + (IF w \in taken[c] THEN 1 ELSE 0)]
  /\ taken' = [taken EXCEPT ![c] = {}]
  /\ client' = [client EXCEPT ![c] = "idle"]
  /\ UNCHANGED <<watchVars, blockingVars, nextId, bpId, lock, registry>>

\* RunningWatch::stop has no suspension point: the handler cannot be dropped
\* between the removal and the cancellation.  The answer is 204.
DeleteStop(c) ==
  /\ client[c] = "stopping"
  /\ \E w \in taken[c] : Stop(w) /\ acks' = [acks EXCEPT ![w] = @ + 1]
  /\ taken' = [taken EXCEPT ![c] = {}]
  /\ client' = [client EXCEPT ![c] = "idle"]
  /\ UNCHANGED <<blockingVars, nextId, bpId, lock, registry>>
-----------------------------------------------------------------------------
CreateStep(w) ==
  \/ PrepareFails(w)
  \/ Prepare(w)
  \/ StartProgress(w)
  \/ SpawnWatch(w)
  \/ StartFails(w)
  \/ Insert(w)
  \/ FinishCreate(w)

ClientStep(c) ==
  \/ ListLock(c)
  \/ ListReply(c)
  \/ Busy(c)
  \/ \E i \in 1..nextId : DeleteRemove(c, i)
  \/ DeleteUnlock(c)
  \/ DeleteStop(c)

Next ==
  \/ \E j \in Jobs : Handle(j) \/ OtherReturn(j)
  \/ PickUp
  \/ \E w \in Watches : CreateStep(w) \/ Poll(w) \/ JoinEnds(w)
  \/ \E c \in Clients : ClientStep(c)

Spec == Init /\ [][Next]_vars

(***************************************************************************)
(* Fairness.  Handlers, pool threads and pollers are scheduled.  The       *)
(* native calls return (an assumption on the kernel).  A create job that   *)
(* waits for the mutex gets it in the end although handlers keep trying    *)
(* it (an assumption on the futex): hence the strong fairness of Insert.   *)
(***************************************************************************)
CreateFairness ==
  \A w \in Watches :
    /\ WF_vars(PrepareFails(w) \/ Prepare(w))
    /\ WF_vars(StartProgress(w) \/ SpawnWatch(w))
    /\ WF_vars(StartFails(w))
    /\ SF_vars(Insert(w))
    /\ WF_vars(FinishCreate(w))

ThreadFairness == \A w \in Watches : WF_vars(Poll(w)) /\ WF_vars(JoinEnds(w))

ClientFairness ==
  \A c \in Clients : WF_vars(ListReply(c) \/ DeleteUnlock(c) \/ DeleteStop(c))

FairSpec ==
  /\ Spec
  /\ WF_vars(PickUp)
  /\ \A j \in Jobs : WF_vars(OtherReturn(j))
  /\ CreateFairness
  /\ ThreadFairness
  /\ ClientFairness
-----------------------------------------------------------------------------
TypeOK ==
  /\ BlockingTypeOK
  /\ WatchTypeOK
  /\ nextId \in Nat
  /\ bpId \in [Watches -> Nat]
  /\ lock \subseteq Watches \cup Clients
  /\ registry \subseteq [id : Nat, watch : Watches]
  /\ client \in [Clients -> ClientStates]
  /\ taken \in [Clients -> SUBSET Watches]
  /\ acks \in [Watches -> Nat]

\* A running watch can always be stopped: unless it is already cancelled, the
\* job that started it is still going to list it, or the map holds it under
\* its own id, or a DELETE handler is about to cancel it.  This must survive
\* clients that time out or disconnect while their breakpoint is being made.
NoLostWatch ==
  \A w \in Watches :
    start[w] = "live" /\ ~cancel[w] =>
      \/ job[w] = "running"
      \/ [id |-> bpId[w], watch |-> w] \in registry
      \/ \E c \in Clients : w \in taken[c]

\* Two racing DELETEs of one breakpoint never both succeed, and a breakpoint
\* whose deletion was acknowledged is cancelled and no longer listed.
DeleteIsFinal ==
  \A w \in Watches :
    /\ acks[w] <= 1
    /\ acks[w] > 0 => cancel[w] /\ \A e \in registry : e.watch # w

\* The view says "running" for as long as it is listed.  It is right unless
\* the poller gave up: no other event ends the poller of a listed breakpoint.
ListedUnlessGivenUp ==
  \A e \in registry : PollerAlive(e.watch) \/ errs[e.watch] >= MaxErrors

\* A create request answered with its own error, and not with a timeout,
\* leaves nothing armed in the kernel and no descriptor open.
FailedCreateLeavesNothing ==
  \A w \in Watches : caller[w] = "err" => Armed(w) = {} /\ w \notin fds

\* An acknowledged DELETE ends with the breakpoints out of the kernel, but for
\* those that the driver refuses to remove, and with the poller's descriptor
\* closed and its pool thread given back.
DeleteReleasesAll ==
  \A w \in Watches :
    (acks[w] > 0) ~> (Armed(w) \subseteq Refused(w) /\ w \notin fds /\ join[w] = "done")

\* A watch that has started polling is listed or cancelled in the end, even
\* if the request that made it was answered with a timeout.
LiveGetsListed ==
  \A w \in Watches :
    (start[w] = "live") ~> (cancel[w] \/ \E e \in registry : e.watch = w)

\* The threads of the pool that wait for a watch nobody has deleted.
HeldByWatches == {w \in Watches : join[w] = "running" /\ acks[w] = 0}

\* A watch keeps a thread of the pool of blocking::run for as long as it lives,
\* and enough of them keep all: then a call that took a permit stays in the
\* queue, and the permit with it.  Nothing else can hold a call up for ever,
\* and DELETE is a remedy: unless watches that nobody has deleted hold every
\* thread from some time on, each queued call is started.
QueuedCallsStart ==
  []<>(Cardinality(HeldByWatches) < PoolThreads)
    => \A j \in Jobs : (job[j] = "queued") ~> (job[j] # "queued")
=============================================================================
