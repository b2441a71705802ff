---------------------------- MODULE ServerProofs ----------------------------
(***************************************************************************)
(* Proofs about the breakpoint half of the server.  Spec implements the    *)
(* specifications of its two parts, so the invariants proved of Blocking   *)
(* and of Watch hold here too; the invariant of the map of breakpoints is  *)
(* proved on top of them.                                                  *)
(***************************************************************************)
EXTENDS Server, PartsProofs

\* The types of the registry's own variables.
RegistryTypeOK ==
  /\ nextId \in Nat
  /\ bpId \in [Watches -> Nat]
  /\ lock \subseteq Watches \cup Clients
  /\ registry \subseteq [id : Nat, watch : Watches]
  /\ client \in [Clients -> ClientStates]
  /\ taken \in [Clients -> SUBSET Watches]
  /\ acks \in [Watches -> Nat]

\* The registry starts empty and well typed.
LEMMA RegistryTypeInit == Init => RegistryTypeOK
BY DEF Init, RegistryTypeOK, ClientStates

\* Steps keep the registry's variables in their types.
LEMMA RegistryTypeStep == RegistryTypeOK /\ [Next]_vars => RegistryTypeOK'
<1> SUFFICES ASSUME RegistryTypeOK, [Next]_vars PROVE RegistryTypeOK'
  OBVIOUS
<1> USE DEF RegistryTypeOK
<1>1. ASSUME NEW w \in Watches, Prepare(w) PROVE RegistryTypeOK'
  BY <1>1 DEF Prepare
<1>2. ASSUME NEW w \in Watches, Insert(w) PROVE RegistryTypeOK'
  <2>1. [id |-> bpId[w], watch |-> w] \in [id : Nat, watch : Watches]
    OBVIOUS
  <2> QED BY <1>2, <2>1 DEF Insert
<1>3. ASSUME NEW w \in Watches, FinishCreate(w) PROVE RegistryTypeOK'
  BY <1>3 DEF FinishCreate
<1>4. ASSUME NEW c \in Clients, ListLock(c) \/ ListReply(c) \/ DeleteUnlock(c)
      PROVE  RegistryTypeOK'
  BY <1>4 DEF ListLock, ListReply, DeleteUnlock, ClientStates
<1>5. ASSUME NEW c \in Clients, NEW i \in 1..nextId, DeleteRemove(c, i)
      PROVE  RegistryTypeOK'
  <2>1. {e.watch : e \in {x \in registry : x.id = i}} \in SUBSET Watches
    OBVIOUS
  <2>2. taken' \in [Clients -> SUBSET Watches]
    BY <1>5, <2>1 DEF DeleteRemove
  <2> QED BY <1>5, <2>2 DEF DeleteRemove, ClientStates
<1>6. ASSUME NEW c \in Clients, DeleteStop(c) PROVE RegistryTypeOK'
  <2>1. PICK w \in taken[c] : acks' = [acks EXCEPT ![w] = @ + 1]
    BY <1>6 DEF DeleteStop
  <2> QED BY <1>6, <2>1 DEF DeleteStop, ClientStates
<1>7. CASE UNCHANGED registryVars
  BY <1>7 DEF registryVars
<1>8. ASSUME NEW w \in Watches, CreateStep(w) \/ Poll(w) \/ JoinEnds(w)
      PROVE  RegistryTypeOK'
  <2>1. \/ Prepare(w) \/ Insert(w) \/ FinishCreate(w) \/ UNCHANGED registryVars
    BY <1>8
    DEF CreateStep, PrepareFails, StartProgress, SpawnWatch, StartFails, Poll, JoinEnds
  <2> QED BY <1>1, <1>2, <1>3, <1>7, <2>1
<1>9. ASSUME NEW j \in Jobs, Handle(j) \/ OtherReturn(j) PROVE UNCHANGED registryVars
  BY <1>9 DEF Handle, OtherReturn
<1>10. ASSUME NEW c \in Clients, ClientStep(c) PROVE RegistryTypeOK'
  BY <1>4, <1>5, <1>6, <1>7, <1>10 DEF ClientStep, Busy, vars
<1> QED
  BY <1>7, <1>8, <1>9, <1>10 DEF Next, PickUp, vars
-----------------------------------------------------------------------------
\* Every step of the server is a step of one watch, or leaves all watches
\* alone.
LEMMA StepOfWatch == RegistryTypeOK /\ [Next]_vars => [WatchNext]_watchVars
<1> SUFFICES ASSUME RegistryTypeOK, [Next]_vars PROVE [WatchNext]_watchVars
  OBVIOUS
<1>1. ASSUME NEW j \in Jobs, Handle(j) \/ OtherReturn(j) PROVE UNCHANGED watchVars
  BY <1>1 DEF Handle, OtherReturn
<1>2. CASE PickUp
  BY <1>2 DEF PickUp
<1>3. ASSUME NEW w \in Watches, CreateStep(w) PROVE StartStep(w) \/ UNCHANGED watchVars
  <2>1. CASE PrepareFails(w) \/ StartFails(w) \/ Insert(w) \/ FinishCreate(w)
    BY <2>1 DEF PrepareFails, StartFails, Insert, FinishCreate
  <2>2. CASE Prepare(w) \/ StartProgress(w) \/ SpawnWatch(w)
    BY <2>2 DEF Prepare, StartProgress, SpawnWatch, StartStep
  <2> QED BY <1>3, <2>1, <2>2 DEF CreateStep
<1>4. ASSUME NEW w \in Watches, Poll(w) \/ JoinEnds(w)
      PROVE  PollerStep(w) \/ UNCHANGED watchVars
  BY <1>4 DEF Poll, JoinEnds
<1>5. ASSUME NEW c \in Clients, ClientStep(c), ~DeleteStop(c) PROVE UNCHANGED watchVars
  BY <1>5 DEF ClientStep, ListLock, ListReply, Busy, DeleteRemove, DeleteUnlock, vars
<1>6. ASSUME NEW c \in Clients, DeleteStop(c) PROVE \E w \in Watches : Stop(w)
  BY <1>6 DEF DeleteStop, RegistryTypeOK
<1>7. CASE UNCHANGED vars
  BY <1>7 DEF vars
<1> QED BY <1>1, <1>2, <1>3, <1>4, <1>5, <1>6, <1>7 DEF Next, WatchNext

\* Every step of the server is a step of the bounded worker, or leaves it
\* alone.
LEMMA StepOfBlocking == [Next]_vars => [BlockingNext]_blockingVars
<1> SUFFICES ASSUME [Next]_vars PROVE [BlockingNext]_blockingVars
  OBVIOUS
<1>1. Watches \subseteq Jobs /\ JoinTasks = Watches
  BY ServerAssumption DEF ServerAssumption
<1>2. ASSUME NEW j \in Jobs, Handle(j) \/ OtherReturn(j) PROVE BlockingNext
  BY <1>2 DEF Handle, OtherReturn, BlockingNext
<1>3. CASE PickUp
  BY <1>3 DEF PickUp, BlockingNext
<1>4. ASSUME NEW w \in Watches, CreateStep(w) PROVE [BlockingNext]_blockingVars
  <2>1. CASE PrepareFails(w) \/ StartFails(w) \/ FinishCreate(w)
    BY <1>1, <2>1 DEF PrepareFails, StartFails, FinishCreate, BlockingNext, Results
  <2>2. CASE SpawnWatch(w)
    BY <1>1, <2>2 DEF SpawnWatch, BlockingNext
  <2>3. CASE Prepare(w) \/ StartProgress(w) \/ Insert(w)
    BY <2>3 DEF Prepare, StartProgress, Insert
  <2> QED BY <1>4, <2>1, <2>2, <2>3 DEF CreateStep
<1>5. ASSUME NEW w \in Watches, Poll(w) \/ JoinEnds(w) PROVE [BlockingNext]_blockingVars
  BY <1>1, <1>5 DEF Poll, JoinEnds, BlockingNext
<1>6. ASSUME NEW c \in Clients, ClientStep(c) PROVE UNCHANGED blockingVars
  BY <1>6
  DEF ClientStep, ListLock, ListReply, Busy, DeleteRemove, DeleteUnlock, DeleteStop, vars
<1>7. CASE UNCHANGED vars
  BY <1>7 DEF vars
<1> QED BY <1>2, <1>3, <1>4, <1>5, <1>6, <1>7 DEF Next

\* What holds of every watch, whoever uses it, holds of the server's: its
\* steps are built from those of Watch.
LEMMA ServerRunsWatches == Spec => WatchSpec
<1>1. Init => WatchInit
  BY DEF Init
<1> QED
  BY <1>1, RegistryTypeInit, RegistryTypeStep, StepOfWatch, PTL
  DEF Spec, WatchSpec

\* The same for blocking::run: what holds of the worker holds in the server.
LEMMA ServerRunsBlocking == Spec => BlockingSpec
<1>1. Init => BlockingInit
  BY DEF Init
<1> QED
  BY <1>1, StepOfBlocking, PTL DEF Spec, BlockingSpec
-----------------------------------------------------------------------------
(***************************************************************************)
(* The invariant of the map of breakpoints.  A watch goes through four     *)
(* stages: its create job still runs and has not inserted it; it is listed *)
(* under its own id; a DELETE handler holds it; it is cancelled.  The      *)
(* parts below say that the stages exclude each other and that only the    *)
(* first can be left without the next being entered, which is what the     *)
(* mutex, the unique ids and the order of the two removals guarantee.      *)
(***************************************************************************)
Listed(w) == \E e \in registry : e.watch = w
Held(w) == \E c \in Clients : w \in taken[c]

IdsUnique ==
  /\ \A w \in Watches : start[w] # "idle" => bpId[w] < nextId
  /\ \A v, w \in Watches :
       start[v] # "idle" /\ start[w] # "idle" /\ bpId[v] = bpId[w] => v = w

EntriesSound ==
  \A e \in registry :
    /\ e.id = bpId[e.watch]
    /\ start[e.watch] = "live" /\ ~cancel[e.watch] /\ ~Held(e.watch)

TakenSound ==
  /\ \A c \in Clients : client[c] \in {"idle", "listing"} => taken[c] = {}
  /\ \A c \in Clients : \A w \in taken[c] : start[w] = "live" /\ ~cancel[w]
  /\ \A c, d \in Clients : \A w \in taken[c], v \in taken[d] : c = d <=> w = v

LockSound ==
  /\ \A c \in Clients : client[c] \in {"listing", "removing"} => lock = {c}
  /\ \A w \in Watches : lock = {w} => job[w] = "running" /\ start[w] = "live" /\ Listed(w)

NotYetInserted ==
  \A w \in Watches :
    /\ job[w] \in {"none", "queued"} => start[w] = "idle"
    /\ job[w] = "running" /\ lock # {w} => ~Listed(w) /\ ~Held(w) /\ ~cancel[w]

StillReachable ==
  \A w \in Watches :
    start[w] = "live" /\ ~cancel[w] => job[w] = "running" \/ Listed(w) \/ Held(w)

AcksMatchCancel ==
  \A w \in Watches : acks[w] = IF cancel[w] THEN 1 ELSE 0

MapInv ==
  /\ IdsUnique
  /\ EntriesSound
  /\ TakenSound
  /\ LockSound
  /\ NotYetInserted
  /\ StillReachable
  /\ AcksMatchCancel

ServerInv == RegistryTypeOK /\ BlockingInv /\ WatchInv /\ MapInv

\* Nothing is listed, held or acknowledged at the start.
LEMMA MapInit == Init => MapInv
<1> SUFFICES ASSUME Init PROVE MapInv
  OBVIOUS
<1>1. \A w : lock # {w} /\ ~Listed(w) /\ ~Held(w)
  BY DEF Init, Listed, Held
<1> QED
  BY <1>1
  DEF Init, BlockingInit, WatchInit, MapInv, IdsUnique, EntriesSound, TakenSound,
      LockSound, NotYetInserted, StillReachable, AcksMatchCancel

\* Steps of handlers, pool threads, pollers and of start_watch before the
\* watch is live: the map is left alone and no watch goes live, is cancelled
\* or loses its create job while it is live.
LEMMA MapUntouched ==
  ASSUME ServerInv, UNCHANGED <<registryVars, cancel>>,
         \A w \in Watches :
           /\ start'[w] = start[w] \/ (start[w] \notin {"idle", "live"}
                                       /\ start'[w] \notin {"idle", "live"})
           /\ job'[w] \in {"none", "queued"} => job[w] \in {"none", "queued"}
           /\ job'[w] = "running" => job[w] = "running" \/ start[w] = "idle"
           /\ job[w] = "running" => job'[w] = "running" \/ start[w] # "live"
  PROVE  MapInv'
<1> USE DEF ServerInv, MapInv, registryVars
<1>1. \A w : Listed(w)' = Listed(w) /\ Held(w)' = Held(w)
  BY DEF Listed, Held
<1>2. \A w \in Watches : cancel[w] => start[w] = "live"
  BY DEF WatchInv, WatchOK, PollerOfLive
<1>3. \A w \in Watches : Listed(w) \/ Held(w) => start[w] = "live"
  BY DEF Listed, Held, EntriesSound, TakenSound
<1>4. IdsUnique' /\ AcksMatchCancel'
  BY DEF IdsUnique, AcksMatchCancel
<1>5. EntriesSound'
  BY <1>1 DEF EntriesSound, RegistryTypeOK
<1>6. TakenSound'
  BY DEF TakenSound, RegistryTypeOK
<1>7. LockSound'
  BY <1>1 DEF LockSound
<1>8. NotYetInserted'
  BY <1>1, <1>2, <1>3 DEF NotYetInserted
<1>9. StillReachable'
  BY <1>1 DEF StillReachable
<1> QED BY <1>4, <1>5, <1>6, <1>7, <1>8, <1>9

\* Steps of handlers and pool threads, seen from a create job.
LEMMA MapWorkerStep ==
  ASSUME ServerInv,
         (\E j \in Jobs : Handle(j) \/ OtherReturn(j)) \/ PickUp
  PROVE  MapInv'
<1> USE DEF ServerInv
<1>1. UNCHANGED <<watchVars, registryVars>>
  BY DEF Handle, OtherReturn, PickUp
<1>2. Watches \subseteq Jobs
  BY ServerAssumption DEF ServerAssumption
<1>3. ASSUME NEW w \in Watches
      PROVE  /\ job'[w] \in {"none", "queued"} => job[w] \in {"none", "queued"}
             /\ job'[w] = "running" => job[w] = "running" \/ start[w] = "idle"
             /\ job[w] = "running" => job'[w] = "running"
  <2>1. ASSUME NEW j \in Jobs, Handle(j)
        PROVE  job' = job \/ (job[j] = "none" /\ job' = [job EXCEPT ![j] = "queued"])
    BY <2>1
    DEF Handle, RunAccepted, RunExhausted, Await, Timeout, Abandon, BlockingInv,
        IdleHasNoJob
  <2>2. ASSUME NEW j \in Jobs, OtherReturn(j) PROVE job'[w] = job[w]
    BY <1>2, <2>2 DEF OtherReturn, Return, BlockingInv, BlockingTypeOK
  <2>3. CASE PickUp
    <3>1. job' = job \/ (job[Head(pool).of] = "queued"
                         /\ job' = [job EXCEPT ![Head(pool).of] = "running"])
      BY <2>3 DEF PickUp, RunTask, BlockingInv, BlockingTypeOK, PoolTasksQueued
    <3> QED
      BY <1>2, <3>1 DEF BlockingInv, BlockingTypeOK, MapInv, NotYetInserted
  <2> QED BY <1>2, <2>1, <2>2, <2>3 DEF BlockingInv, BlockingTypeOK
<1>4. UNCHANGED <<registryVars, cancel, start>>
  BY <1>1 DEF watchVars
<1> QED BY <1>3, <1>4, MapUntouched

\* Steps of create_breakpoint_inner that do not reach the map.
LEMMA MapEarlyCreateStep ==
  ASSUME ServerInv, NEW w \in Watches,
         \/ PrepareFails(w) \/ StartProgress(w) \/ StartFails(w) \/ Poll(w) \/ JoinEnds(w)
  PROVE  MapInv'
<1> USE DEF ServerInv
<1>1. w \in Jobs /\ job \in [Jobs -> JobStates] /\ start \in [Watches -> StartStates]
      /\ Watches \subseteq Jobs
  BY ServerAssumption
  DEF ServerAssumption, BlockingInv, BlockingTypeOK, WatchInv, WatchTypeOK
<1>2. CASE PrepareFails(w) \/ StartFails(w)
  <2>1. PICK result \in Results : job' = [job EXCEPT ![w] = result]
    BY <1>2 DEF PrepareFails, StartFails, Return, Results
  <2>2. UNCHANGED <<registryVars, cancel, start>> /\ start[w] # "live"
    BY <1>2 DEF PrepareFails, StartFails, watchVars
  <2> QED BY <1>1, <2>1, <2>2, MapUntouched DEF Results
<1>3. CASE StartProgress(w)
  <2>1. UNCHANGED <<registryVars, cancel, job>>
    BY <1>3
    DEF StartProgress, blockingVars, OpenDriver, ListThreads, CreateBreakpoint,
        NoneCreated, SpawnPanics
  <2>2. /\ start[w] \notin {"idle", "live"} /\ start'[w] \notin {"idle", "live"}
        /\ \A v \in Watches : v # w => start'[v] = start[v]
    BY <1>1, <1>3
    DEF StartProgress, OpenDriver, ListThreads, CreateBreakpoint, NoneCreated, SpawnPanics
  <2> QED BY <2>1, <2>2, MapUntouched
<1>4. CASE Poll(w)
  <2>1. UNCHANGED <<registryVars, cancel, start, job>>
    BY <1>4
    DEF Poll, blockingVars, PollerStep, CheckCancel, PollHits, EndRound, RemoveBreakpoint,
        ExitPoller
  <2> QED BY <2>1, MapUntouched
<1>5. CASE JoinEnds(w)
  <2>1. UNCHANGED <<registryVars, cancel, start, job>>
    BY <1>5 DEF JoinEnds, JoinReturn, watchVars
  <2> QED BY <2>1, MapUntouched
<1> QED BY <1>2, <1>3, <1>4, <1>5

\* The id is drawn, and later the poller started.
LEMMA MapLateCreateStep ==
  ASSUME ServerInv, NEW w \in Watches, Prepare(w) \/ SpawnWatch(w)
  PROVE  MapInv'
<1> USE DEF ServerInv, MapInv
<1>1. /\ job[w] = "running" /\ UNCHANGED <<job, cancel, lock, registry, client, taken, acks>>
      /\ \A v \in Watches : v # w => start'[v] = start[v]
  BY DEF Prepare, SpawnWatch, StartWatch, SpawnPoller, SpawnJoin, blockingVars,
         registryVars, WatchInv, WatchTypeOK
<1>2. \A v : Listed(v)' = Listed(v) /\ Held(v)' = Held(v)
  BY <1>1 DEF Listed, Held
<1>3. start[w] # "live" /\ ~Listed(w) /\ ~Held(w) /\ ~cancel[w] /\ lock # {w}
  BY <1>1
  DEF Prepare, SpawnWatch, StartWatch, SpawnPoller, LockSound, NotYetInserted
<1>4. IdsUnique'
  <2>1. CASE Prepare(w)
    BY <2>1
    DEF Prepare, StartWatch, IdsUnique, WatchInv, WatchTypeOK, RegistryTypeOK
  <2>2. CASE SpawnWatch(w)
    <3>1. start[w] # "idle" /\ UNCHANGED <<nextId, bpId>>
      BY <2>2 DEF SpawnWatch, SpawnPoller, registryVars
    <3> QED BY <1>1, <3>1 DEF IdsUnique
  <2> QED BY <2>1, <2>2
<1>5. \A v \in Watches : v # w => bpId'[v] = bpId[v]
  BY DEF Prepare, SpawnWatch, registryVars, RegistryTypeOK
<1>6. EntriesSound'
  BY <1>1, <1>2, <1>3, <1>5 DEF EntriesSound, Listed, RegistryTypeOK
<1>7. TakenSound'
  BY <1>1, <1>3 DEF TakenSound, Held, RegistryTypeOK
<1>8. LockSound' /\ NotYetInserted'
  BY <1>1, <1>2, <1>3 DEF LockSound, NotYetInserted
<1>9. StillReachable' /\ AcksMatchCancel'
  BY <1>1, <1>2 DEF StillReachable, AcksMatchCancel
<1> QED BY <1>4, <1>6, <1>7, <1>8, <1>9

\* The watch is inserted under its id, and then the job ends.
LEMMA MapInsertStep ==
  ASSUME ServerInv, NEW w \in Watches, Insert(w) \/ FinishCreate(w)
  PROVE  MapInv'
<1> USE DEF ServerInv, MapInv
<1>1. UNCHANGED <<start, cancel, nextId, bpId, client, taken, acks>>
  BY DEF Insert, FinishCreate, watchVars
<1>2. \A v : Held(v)' = Held(v)
  BY <1>1 DEF Held
<1>3. IdsUnique' /\ TakenSound' /\ AcksMatchCancel'
  BY <1>1 DEF IdsUnique, TakenSound, AcksMatchCancel
<1>4. w \notin Clients /\ w \in Jobs /\ Watches \subseteq Jobs
      /\ \A c \in Clients : c \notin Watches
  BY ServerAssumption DEF ServerAssumption
<1>5. CASE Insert(w)
  <2>1. /\ job[w] = "running" /\ start[w] = "live" /\ lock = {} /\ lock' = {w}
        /\ UNCHANGED job
    BY <1>5 DEF Insert, blockingVars
  <2>2. ~Listed(w) /\ ~Held(w) /\ ~cancel[w]
    BY <2>1 DEF NotYetInserted
  <2>3. \A e \in registry : e.id # bpId[w]
    BY <2>1, <2>2 DEF EntriesSound, IdsUnique, Listed, RegistryTypeOK
  <2>4. registry' = registry \cup {[id |-> bpId[w], watch |-> w]}
    BY <1>5, <2>3 DEF Insert
  <2>5. \A v \in Watches : Listed(v)' <=> Listed(v) \/ v = w
    <3> DEFINE entry == [id |-> bpId[w], watch |-> w]
    <3>1. entry.watch = w
      OBVIOUS
    <3> HIDE DEF entry
    <3>2. registry' = registry \cup {entry}
      BY <2>4 DEF entry
    <3> QED BY <3>1, <3>2 DEF Listed
  <2>6. EntriesSound'
    BY <1>1, <1>2, <2>1, <2>2, <2>4 DEF EntriesSound
  <2>7. LockSound'
    <3>1. \A c \in Clients : client'[c] \notin {"listing", "removing"}
      BY <1>1, <2>1 DEF LockSound
    <3>2. \A v \in Watches : lock' = {v} => v = w
      BY <2>1
    <3> QED BY <1>1, <2>1, <2>5, <3>1, <3>2 DEF LockSound
  <2>8. NotYetInserted' /\ StillReachable'
    BY <1>1, <1>2, <2>1, <2>5 DEF NotYetInserted, StillReachable
  <2> QED BY <1>3, <2>6, <2>7, <2>8
<1>6. CASE FinishCreate(w)
  <2>1. /\ lock = {w} /\ lock' = {} /\ UNCHANGED registry
        /\ job' = [job EXCEPT ![w] = "ok"]
    BY <1>6 DEF FinishCreate, Return
  <2>2. \A v : Listed(v)' = Listed(v)
    BY <2>1 DEF Listed
  <2>3. \A v \in Watches : job'[v] = IF v = w THEN "ok" ELSE job[v]
    BY <1>4, <2>1 DEF BlockingInv, BlockingTypeOK
  <2>4. EntriesSound'
    BY <1>1, <1>2, <2>1 DEF EntriesSound
  <2>5. LockSound'
    BY <1>1, <1>4, <2>1 DEF LockSound
  <2>6. NotYetInserted'
    BY <1>1, <1>2, <2>1, <2>2, <2>3 DEF NotYetInserted
  <2>7. StillReachable'
    BY <1>1, <1>2, <2>1, <2>2, <2>3 DEF StillReachable, LockSound
  <2> QED BY <1>3, <2>4, <2>5, <2>6, <2>7
<1> QED BY <1>5, <1>6

\* The handlers of GET and DELETE up to the removal of an entry.
LEMMA MapClientStep ==
  ASSUME ServerInv, NEW c \in Clients,
         \/ ListLock(c) \/ ListReply(c) \/ DeleteUnlock(c)
         \/ \E i \in 1..nextId : DeleteRemove(c, i)
  PROVE  MapInv'
<1> USE DEF ServerInv, MapInv
<1>1. UNCHANGED <<start, cancel, job, nextId, bpId, acks>>
  BY DEF ListLock, ListReply, DeleteUnlock, DeleteRemove, watchVars, blockingVars
<1>2. IdsUnique' /\ AcksMatchCancel'
  BY <1>1 DEF IdsUnique, AcksMatchCancel
<1>3. c \notin Watches
  BY ServerAssumption DEF ServerAssumption
<1>4. \A w \in Watches : lock # {w} /\ lock' # {w}
  BY <1>3 DEF LockSound, ListLock, ListReply, DeleteUnlock, DeleteRemove
<1>5. \A d \in Clients : client'[d] \in {"listing", "removing"} => lock' = {d}
  <2>1. CASE lock = {} /\ lock' = {c} /\ \A d \in Clients : d # c => client'[d] = client[d]
    <3>1. \A d \in Clients : client[d] \notin {"listing", "removing"}
      BY <2>1 DEF LockSound
    <3> QED BY <2>1, <3>1
  <2>2. CASE /\ lock = {c} /\ client'[c] \in {"idle", "stopping"}
             /\ \A d \in Clients : d # c => client'[d] = client[d]
    BY <2>2 DEF LockSound
  <2> QED
    BY <2>1, <2>2
    DEF LockSound, ListLock, ListReply, DeleteUnlock, DeleteRemove, RegistryTypeOK
<1>6. LockSound'
  BY <1>4, <1>5 DEF LockSound
<1>7. CASE ListLock(c) \/ ListReply(c) \/ DeleteUnlock(c)
  <2>1. UNCHANGED <<registry, taken>>
    BY <1>7 DEF ListLock, ListReply, DeleteUnlock
  <2>2. \A w : Listed(w)' = Listed(w) /\ Held(w)' = Held(w)
    BY <2>1 DEF Listed, Held
  <2>3. TakenSound'
    <3>1. \A d \in Clients : client'[d] \in {"idle", "listing"} => taken[d] = {}
      BY <1>7 DEF TakenSound, ListLock, ListReply, DeleteUnlock, RegistryTypeOK
    <3> QED BY <1>1, <2>1, <3>1 DEF TakenSound
  <2>4. EntriesSound'
    BY <1>1, <2>1, <2>2 DEF EntriesSound
  <2>5. NotYetInserted' /\ StillReachable'
    BY <1>1, <1>4, <2>2 DEF NotYetInserted, StillReachable
  <2> QED BY <1>2, <1>6, <2>3, <2>4, <2>5
<1>8. ASSUME NEW i \in 1..nextId, DeleteRemove(c, i) PROVE MapInv'
  <2>1. /\ registry' = {e \in registry : e.id # i}
        /\ taken[c] = {} /\ client' = [client EXCEPT ![c] = "removing"]
        /\ taken' = [taken EXCEPT ![c] = {e.watch : e \in {x \in registry : x.id = i}}]
    BY <1>8 DEF DeleteRemove, TakenSound
  <2>2. \A w : w \in taken'[c] <=> \E e \in registry : e.id = i /\ e.watch = w
    BY <2>1 DEF RegistryTypeOK
  <2>3. \A d \in Clients : d # c => taken'[d] = taken[d]
    BY <2>1 DEF RegistryTypeOK
  <2>4. \A w \in taken'[c] : w \in Watches /\ Listed(w) /\ bpId[w] = i
    BY <2>2 DEF EntriesSound, Listed, RegistryTypeOK
  <2>5. \A w \in Watches : Held(w)' <=> Held(w) \/ w \in taken'[c]
    BY <2>1, <2>3 DEF Held
  <2>6. \A w \in Watches : Listed(w)' <=> Listed(w) /\ w \notin taken'[c]
    BY <2>1, <2>2 DEF Listed, EntriesSound
  <2>7. \A w \in Watches : Listed(w) => start[w] = "live" /\ ~cancel[w] /\ ~Held(w)
    BY DEF Listed, EntriesSound
  <2>8. TakenSound'
    <3>1. \A w, v \in taken'[c] : w = v
      BY <2>4, <2>7 DEF IdsUnique
    <3>2. \A d \in Clients : \A w \in taken'[d] : d # c => w \notin taken'[c]
      BY <2>3, <2>4, <2>7 DEF Held
    <3>3. \A d \in Clients : client'[d] \in {"idle", "listing"} => taken'[d] = {}
      BY <2>1, <2>3 DEF TakenSound, RegistryTypeOK
    <3>4. \A d \in Clients : \A w \in taken'[d] : start[w] = "live" /\ ~cancel[w]
      BY <2>3, <2>4, <2>7 DEF TakenSound
    <3>5. \A d, f \in Clients : \A w \in taken'[d], v \in taken'[f] : d = f <=> w = v
      BY <2>3, <3>1, <3>2 DEF TakenSound
    <3> QED BY <1>1, <3>3, <3>4, <3>5 DEF TakenSound
  <2>9. EntriesSound'
    <3> SUFFICES ASSUME NEW e \in registry'
                 PROVE  /\ e.id = bpId[e.watch] /\ start[e.watch] = "live"
                        /\ ~cancel[e.watch] /\ ~Held(e.watch)'
      BY <1>1 DEF EntriesSound
    <3>1. e \in registry /\ e.id # i /\ e.watch \in Watches
      BY <2>1 DEF RegistryTypeOK
    <3>2. e.watch \notin taken'[c]
      BY <2>4, <3>1 DEF EntriesSound
    <3> QED BY <2>5, <3>1, <3>2 DEF EntriesSound
  <2>10. NotYetInserted' /\ StillReachable'
    BY <1>1, <1>4, <2>4, <2>5, <2>6 DEF NotYetInserted, StillReachable
  <2> QED BY <1>2, <1>6, <2>8, <2>9, <2>10
<1> QED BY <1>7, <1>8

\* delete_breakpoint cancels the watch it has taken and acknowledges.
LEMMA MapDeleteStop ==
  ASSUME ServerInv, NEW c \in Clients, DeleteStop(c)
  PROVE  MapInv'
<1> USE DEF ServerInv, MapInv
<1>1. PICK w \in taken[c] : Stop(w) /\ acks' = [acks EXCEPT ![w] = @ + 1]
  BY DEF DeleteStop
<1>2. /\ w \in Watches /\ start[w] = "live" /\ ~cancel[w]
      /\ cancel' = [cancel EXCEPT ![w] = TRUE] /\ UNCHANGED start
  BY <1>1 DEF Stop, RegistryTypeOK
<1>3. /\ UNCHANGED <<job, nextId, bpId, lock, registry>>
      /\ taken' = [taken EXCEPT ![c] = {}] /\ client[c] = "stopping"
      /\ client' = [client EXCEPT ![c] = "idle"]
  BY DEF DeleteStop, blockingVars
<1>4. \A v \in taken[c] : v = w
  BY <1>1 DEF TakenSound
<1>5. \A v \in Watches : Listed(v)' = Listed(v) /\ (Held(v)' <=> Held(v) /\ v # w)
  <2>1. \A v : Listed(v)' = Listed(v)
    BY <1>3 DEF Listed
  <2>2. ~Held(w)'
    BY <1>1, <1>3 DEF Held, TakenSound, RegistryTypeOK
  <2>3. \A v \in Watches : v # w => (Held(v)' <=> Held(v))
    BY <1>3, <1>4 DEF Held, RegistryTypeOK
  <2> QED BY <2>1, <2>2, <2>3 DEF Held
<1>6. Held(w) /\ ~Listed(w)
  BY <1>1 DEF Held, Listed, EntriesSound
<1>7. \A v \in Watches : v # w => cancel'[v] = cancel[v]
  BY <1>2 DEF WatchInv, WatchTypeOK
<1>8. IdsUnique' /\ LockSound'
  <2>1. \A d \in Clients : client'[d] \in {"listing", "removing"} =>
          client[d] \in {"listing", "removing"}
    BY <1>3 DEF RegistryTypeOK
  <2> QED BY <1>2, <1>3, <1>5, <2>1 DEF IdsUnique, LockSound
<1>9. EntriesSound'
  BY <1>2, <1>3, <1>5, <1>6, <1>7 DEF EntriesSound, Listed, RegistryTypeOK
<1>10. TakenSound'
  <2>1. \A d \in Clients : taken'[d] = IF d = c THEN {} ELSE taken[d]
    BY <1>3 DEF RegistryTypeOK
  <2>2. \A d \in Clients : d # c => w \notin taken[d]
    BY <1>1 DEF TakenSound
  <2>3. \A d \in Clients : client'[d] \in {"idle", "listing"} => taken'[d] = {}
    BY <1>3, <2>1 DEF TakenSound, RegistryTypeOK
  <2>4. \A d \in Clients : \A v \in taken'[d] : start'[v] = "live" /\ ~cancel'[v]
    BY <1>2, <1>7, <2>1, <2>2 DEF TakenSound, RegistryTypeOK
  <2>5. \A d, f \in Clients : \A v \in taken'[d], u \in taken'[f] : d = f <=> v = u
    BY <2>1 DEF TakenSound
  <2> QED BY <2>3, <2>4, <2>5 DEF TakenSound
<1>11. NotYetInserted'
  BY <1>2, <1>3, <1>5, <1>6, <1>7 DEF NotYetInserted, LockSound
<1>12. StillReachable'
  BY <1>2, <1>3, <1>5, <1>7 DEF StillReachable, WatchInv, WatchTypeOK
<1>13. AcksMatchCancel'
  <2>1. acks[w] = 0
    BY <1>2 DEF AcksMatchCancel
  <2>2. \A v \in Watches : acks'[v] = IF v = w THEN 1 ELSE acks[v]
    BY <1>1, <2>1 DEF RegistryTypeOK
  <2>3. cancel'[w]
    BY <1>2 DEF WatchInv, WatchTypeOK
  <2> QED BY <1>7, <2>2, <2>3 DEF AcksMatchCancel
<1> QED BY <1>8, <1>9, <1>10, <1>11, <1>12, <1>13
-----------------------------------------------------------------------------
\* No step of the server breaks the invariant of the map.
LEMMA MapStep == ServerInv /\ [Next]_vars => MapInv'
<1> SUFFICES ASSUME ServerInv, [Next]_vars PROVE MapInv'
  OBVIOUS
<1>1. CASE (\E j \in Jobs : Handle(j) \/ OtherReturn(j)) \/ PickUp
  BY <1>1, MapWorkerStep
<1>2. ASSUME NEW w \in Watches, CreateStep(w) \/ Poll(w) \/ JoinEnds(w) PROVE MapInv'
  BY <1>2, MapEarlyCreateStep, MapLateCreateStep, MapInsertStep DEF CreateStep
<1>3. CASE UNCHANGED vars
  <2>1. UNCHANGED <<registryVars, cancel, start, job>>
    BY <1>3 DEF vars, watchVars, blockingVars
  <2> QED BY <2>1, MapUntouched
<1>4. ASSUME NEW c \in Clients, ClientStep(c) PROVE MapInv'
  BY <1>3, <1>4, MapClientStep, MapDeleteStop DEF ClientStep, Busy
<1> QED BY <1>1, <1>2, <1>3, <1>4 DEF Next

\* The invariants of the parts, and that of the map, hold together.
LEMMA ServerInvariant == Spec => []ServerInv
<1>1. Init => ServerInv
  BY RegistryTypeInit, BlockingInitOK, WatchInitOK, MapInit DEF Init, ServerInv
<1>2. ServerInv /\ [Next]_vars => ServerInv'
  BY RegistryTypeStep, StepOfBlocking, BlockingStepOK, StepOfWatch, WatchStepOK, MapStep
  DEF ServerInv
<1> QED BY <1>1, <1>2, PTL DEF Spec

\* Every state of the server has the types of its variables.
THEOREM ServerTypeCorrect == Spec => []TypeOK
<1>1. ServerInv => TypeOK
  BY DEF ServerInv, RegistryTypeOK, BlockingInv, WatchInv, TypeOK
<1> QED BY <1>1, ServerInvariant, PTL

\* create_breakpoint: a watch that runs can always be found and stopped, even
\* if the client that asked for it has timed out or disconnected.
THEOREM WatchNeverLost == Spec => []NoLostWatch
<1>1. ServerInv => NoLostWatch
  <2> SUFFICES ASSUME ServerInv, NEW w \in Watches, start[w] = "live", ~cancel[w]
               PROVE  \/ job[w] = "running"
                      \/ [id |-> bpId[w], watch |-> w] \in registry
                      \/ \E c \in Clients : w \in taken[c]
    BY DEF NoLostWatch
  <2>1. job[w] = "running" \/ Listed(w) \/ Held(w)
    BY DEF ServerInv, MapInv, StillReachable
  <2>2. ASSUME NEW e \in registry, e.watch = w
        PROVE  e = [id |-> bpId[w], watch |-> w]
    BY <2>2 DEF ServerInv, MapInv, EntriesSound, RegistryTypeOK
  <2> QED BY <2>1, <2>2 DEF Listed, Held
<1> QED BY <1>1, ServerInvariant, PTL

\* delete_breakpoint: of any number of racing DELETEs of one breakpoint at
\* most one is acknowledged, and then the watch is cancelled and unlisted.
THEOREM DeleteFinal == Spec => []DeleteIsFinal
<1>1. ServerInv => DeleteIsFinal
  <2> SUFFICES ASSUME ServerInv, NEW w \in Watches
               PROVE  /\ acks[w] <= 1
                      /\ acks[w] > 0 => cancel[w] /\ \A e \in registry : e.watch # w
    BY DEF DeleteIsFinal
  <2>1. acks[w] = IF cancel[w] THEN 1 ELSE 0
    BY DEF ServerInv, MapInv, AcksMatchCancel
  <2>2. cancel[w] => \A e \in registry : e.watch # w
    BY DEF ServerInv, MapInv, EntriesSound
  <2> QED BY <2>1, <2>2
<1> QED BY <1>1, ServerInvariant, PTL

\* GET /breakpoints: a listed breakpoint is still polled unless its poller
\* gave up.  Nobody has cancelled it, and a poller ends for no other reason.
THEOREM ListedIsPolled == Spec => []ListedUnlessGivenUp
<1>1. ServerInv /\ PollersEndForAReason => ListedUnlessGivenUp
  <2> SUFFICES ASSUME ServerInv, PollersEndForAReason, NEW e \in registry
               PROVE  PollerAlive(e.watch) \/ errs[e.watch] >= MaxErrors
    BY DEF ListedUnlessGivenUp
  <2>1. /\ e.watch \in Watches /\ start[e.watch] = "live" /\ ~cancel[e.watch]
    BY DEF ServerInv, RegistryTypeOK, MapInv, EntriesSound
  <2>2. poller[e.watch] \in PollerStates /\ poller[e.watch] # "none"
    BY <2>1 DEF ServerInv, WatchInv, WatchTypeOK, WatchOK, PollerOfLive
  <2>3. poller[e.watch] = "exited" => errs[e.watch] >= MaxErrors
    BY <2>1 DEF PollersEndForAReason, EndsForAReason
  <2> QED BY <2>2, <2>3 DEF PollerAlive, PollerStates
<1> QED
  BY <1>1, ServerInvariant, ServerRunsWatches, PollerEndsForAReason, PTL
-----------------------------------------------------------------------------
\* A create job ends with an error before the watch starts or because
\* start_watch failed, and the watch makes no progress after that.
ErrorEndsStart == \A w \in Watches : job[w] = "err" => start[w] \in {"idle", "failed"}

\* No step lets a create job that ended with an error own more than that.
LEMMA ErrorEndsStartStep == ServerInv /\ ErrorEndsStart /\ [Next]_vars => ErrorEndsStart'
<1> SUFFICES ASSUME ServerInv, ErrorEndsStart, [Next]_vars, NEW w \in Watches,
                    job'[w] = "err"
             PROVE  start'[w] \in {"idle", "failed"}
  BY DEF ErrorEndsStart
<1>1. /\ w \in Jobs /\ Watches \subseteq Jobs
      /\ job \in [Jobs -> JobStates] /\ start \in [Watches -> StartStates]
  BY ServerAssumption
  DEF ServerAssumption, ServerInv, BlockingInv, BlockingTypeOK, WatchInv, WatchTypeOK
<1>2. CASE start'[w] = start[w] /\ job'[w] = job[w]
  BY <1>2 DEF ErrorEndsStart
<1>3. ASSUME NEW j \in Jobs, Handle(j) \/ OtherReturn(j)
      PROVE  start'[w] = start[w] /\ job'[w] = job[w]
  <2>1. start' = start
    BY <1>3 DEF Handle, OtherReturn, watchVars
  <2>2. CASE Handle(j)
    BY <1>1, <2>1, <2>2 DEF Handle, RunAccepted, RunExhausted, Await, Timeout, Abandon
  <2>3. CASE OtherReturn(j)
    BY <1>1, <2>1, <2>3 DEF OtherReturn, Return
  <2> QED BY <1>3, <2>1, <2>2, <2>3
<1>4. CASE PickUp
  <2>1. RunTask /\ start' = start
    BY <1>4 DEF PickUp, watchVars
  <2>2. job'[w] = job[w]
    BY <1>1, <2>1, PickedUpWasQueued DEF ServerInv
  <2> QED BY <1>2, <2>1, <2>2
<1>5. ASSUME NEW v \in Watches, CreateStep(v) PROVE start'[w] \in {"idle", "failed"}
  <2>1. CASE PrepareFails(v) \/ StartFails(v) \/ FinishCreate(v)
    <3>1. start' = start
      BY <2>1 DEF PrepareFails, StartFails, FinishCreate, watchVars
    <3>2. CASE v = w
      BY <1>1, <2>1, <3>1, <3>2 DEF PrepareFails, StartFails, FinishCreate, Return
    <3>3. CASE v # w
      BY <1>1, <1>2, <2>1, <3>1, <3>3 DEF PrepareFails, StartFails, FinishCreate, Return
    <3> QED BY <3>2, <3>3
  <2>2. CASE Prepare(v) \/ StartProgress(v) \/ SpawnWatch(v) \/ Insert(v)
    <3>1. job' = job /\ job[v] = "running"
      BY <2>2 DEF Prepare, StartProgress, SpawnWatch, SpawnJoin, Insert, blockingVars
    <3>2. v # w
      BY <3>1
    <3>3. start'[w] = start[w]
      BY <1>1, <2>2, <3>2
      DEF Prepare, StartProgress, SpawnWatch, Insert, watchVars, StartWatch, OpenDriver,
          ListThreads, CreateBreakpoint, NoneCreated, SpawnPoller, SpawnPanics
    <3> QED BY <1>2, <3>1, <3>3
  <2> QED BY <1>5, <2>1, <2>2 DEF CreateStep
<1>6. ASSUME NEW v \in Watches, Poll(v) \/ JoinEnds(v) PROVE UNCHANGED <<start, job>>
  BY <1>6
  DEF Poll, JoinEnds, JoinReturn, blockingVars, watchVars, PollerStep, CheckCancel,
      PollHits, EndRound, RemoveBreakpoint, ExitPoller
<1>7. ASSUME NEW c \in Clients, ClientStep(c) PROVE UNCHANGED <<start, job>>
  BY <1>7
  DEF ClientStep, ListLock, ListReply, Busy, DeleteRemove, DeleteUnlock, DeleteStop, Stop,
      vars, watchVars, blockingVars
<1>8. CASE UNCHANGED vars
  BY <1>2, <1>8 DEF vars, watchVars, blockingVars
<1> QED BY <1>2, <1>3, <1>4, <1>5, <1>6, <1>7, <1>8 DEF Next

\* create_breakpoint: a client that is told its request failed owns nothing
\* in the kernel.  The answer is the job's own result, and a job that ended
\* so got no further than an open driver, which it has dropped.
THEOREM FailedCreateIsClean == Spec => []FailedCreateLeavesNothing
<1>1. Init => ErrorEndsStart
  BY ServerAssumption DEF Init, BlockingInit, ServerAssumption, ErrorEndsStart
<1>2. ServerInv /\ ErrorEndsStart /\ AnswerIsResult => FailedCreateLeavesNothing
  <2> SUFFICES ASSUME ServerInv, ErrorEndsStart, AnswerIsResult,
                      NEW w \in Watches, caller[w] = "err"
               PROVE  Armed(w) = {} /\ w \notin fds
    BY DEF FailedCreateLeavesNothing
  <2>1. start[w] \in {"idle", "failed"}
    BY ServerAssumption DEF ServerAssumption, AnswerIsResult, ErrorEndsStart
  <2>2. WatchOK(w)
    BY DEF ServerInv, WatchInv
  <2>3. Armed(w) \subseteq Breakpoints(w)
    BY DEF Armed, Refused, Breakpoints
  <2>4. Breakpoints(w) = {} /\ poller[w] = "none"
    BY <2>1, <2>2 DEF WatchOK, NothingCreatedYet, PollerOfLive
  <2> QED BY <2>1, <2>2, <2>3, <2>4 DEF WatchOK, DescriptorOwned, PollerAlive
<1> QED
  BY <1>1, <1>2, ErrorEndsStartStep, ServerInvariant, ServerRunsBlocking,
     AnswersTruthful, PTL
  DEF Spec
=============================================================================
