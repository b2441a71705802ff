-------------------------------- MODULE Watch --------------------------------
(***************************************************************************)
(* The life of a watch (src/watch.rs) on top of the LK1337 driver          *)
(* (src/lk1337.rs).  start_driver_watch opens the driver, lists the        *)
(* target's threads, asks the driver for one breakpoint per thread and     *)
(* starts a poller thread, which owns the driver descriptor and the        *)
(* breakpoints from then on.  The poller collects hits in rounds until it  *)
(* is cancelled or has seen MaxErrors rounds in a row in which every poll  *)
(* failed; then it asks the driver to remove the breakpoints and ends.     *)
(*                                                                         *)
(* The driver is a kernel module outside the repository.  It is modelled   *)
(* by what the code can see of it: each ioctl may succeed or fail.  The    *)
(* hits a poll returns go to the callback modelled in HitPipeline.         *)
(***************************************************************************)
EXTENDS Integers, FiniteSets

CONSTANTS
  Watches,   \* the calls of start_watch
  Tids,      \* the threads of the target process
  MaxErrors  \* consecutive failed rounds before the poller gives up (10)

ASSUME WatchAssumption ==
  /\ IsFiniteSet(Tids)
  /\ MaxErrors \in Nat \ {0}

VARIABLES
  start,       \* progress of start_driver_watch
  tids,        \* the threads it found, reported to the client
  bp,          \* bp[w][t]: the kernel breakpoint of watch w on thread t
  fds,         \* the watches whose driver descriptor is open
  todo,        \* what is left of the loop being run, over threads or breakpoints
  cancel,      \* the flag shared by RunningWatch and the poller
  poller,      \* where the poller thread is
  pollFailed,  \* poll_failed: failed polls in this round
  errs,        \* consecutive_errors
  late         \* history: polls completed since the watch was cancelled

watchVars ==
  <<start, tids, bp, fds, todo, cancel, poller, pollFailed, errs, late>>

StartStates ==
  {"idle", "opening", "listing", "creating", "live", "failed", "panicked"}
PollerStates == {"none", "head", "polling", "cleanup", "exited"}
BpStates == {"none", "armed", "removed", "refused"}

\* The vector of breakpoints: one per successful create.
Breakpoints(w) == {t \in Tids : bp[w][t] # "none"}

\* Those that the driver has refused to remove.
Refused(w) == {t \in Tids : bp[w][t] = "refused"}

\* What is armed in the kernel, as far as the program can tell: an error of
\* driver.remove leaves the breakpoint where it was.
Armed(w) == {t \in Tids : bp[w][t] = "armed"} \cup Refused(w)

PollerAlive(w) == poller[w] \in {"head", "polling", "cleanup"}

WatchInit ==
  /\ start = [w \in Watches |-> "idle"]
  /\ tids = [w \in Watches |-> {}]
  /\ bp = [w \in Watches |-> [t \in Tids |-> "none"]]
  /\ fds = {}
  /\ todo = [w \in Watches |-> {}]
  /\ cancel = [w \in Watches |-> FALSE]
  /\ poller = [w \in Watches |-> "none"]
  /\ pollFailed = [w \in Watches |-> 0]
  /\ errs = [w \in Watches |-> 0]
  /\ late = [w \in Watches |-> 0]
-----------------------------------------------------------------------------
(* start_driver_watch *)

StartWatch(w) ==
  /\ start[w] = "idle"
  /\ start' = [start EXCEPT ![w] = "opening"]
  /\ UNCHANGED <<tids, bp, fds, todo, cancel, poller, pollFailed, errs, late>>

\* Driver::open: the bootstrap ioctl returns a descriptor or it does not.
OpenDriver(w) ==
  /\ start[w] = "opening"
  /\ \/ start' = [start EXCEPT ![w] = "listing"] /\ fds' = fds \cup {w}
     \/ start' = [start EXCEPT ![w] = "failed"] /\ UNCHANGED fds
  /\ UNCHANGED <<tids, bp, todo, cancel, poller, pollFailed, errs, late>>

\* A failed listing and an empty one both end the start, and the driver is
\* dropped; a thread whose entry cannot be read is left out.
ListThreads(w) ==
  /\ start[w] = "listing"
  /\ \E found \in SUBSET Tids :
       \/ /\ found = {}
          /\ start' = [start EXCEPT ![w] = "failed"]
          /\ fds' = fds \ {w}
          /\ UNCHANGED <<tids, todo>>
       \/ /\ found # {}
          /\ start' = [start EXCEPT ![w] = "creating"]
          /\ tids' = [tids EXCEPT ![w] = found]
          /\ todo' = [todo EXCEPT ![w] = found]
          /\ UNCHANGED fds
  /\ UNCHANGED <<bp, cancel, poller, pollFailed, errs, late>>

\* One ioctl per thread; a failure is logged and the loop goes on.
CreateBreakpoint(w, t) ==
  /\ start[w] = "creating"
  /\ t \in todo[w]
  /\ todo' = [todo EXCEPT ![w] = @ \ {t}]
  /\ \/ bp' = [bp EXCEPT ![w][t] = "armed"]
     \/ UNCHANGED bp
  /\ UNCHANGED <<start, tids, fds, cancel, poller, pollFailed, errs, late>>

NoneCreated(w) ==
  /\ start[w] = "creating"
  /\ todo[w] = {}
  /\ Breakpoints(w) = {}
  /\ start' = [start EXCEPT ![w] = "failed"]
  /\ fds' = fds \ {w}
  /\ UNCHANGED <<tids, bp, todo, cancel, poller, pollFailed, errs, late>>

\* The driver and the breakpoints move into the poller thread.
SpawnPoller(w) ==
  /\ start[w] = "creating"
  /\ todo[w] = {}
  /\ Breakpoints(w) # {}
  /\ start' = [start EXCEPT ![w] = "live"]
  /\ poller' = [poller EXCEPT ![w] = "head"]
  /\ UNCHANGED <<tids, bp, fds, todo, cancel, pollFailed, errs, late>>

\* Faulty variant: the missing thread is reported like any other error.
SpawnPanicsAsError(w) ==
  /\ start[w] = "creating"
  /\ todo[w] = {}
  /\ Breakpoints(w) # {}
  /\ start' = [start EXCEPT ![w] = "failed"]
  /\ fds' = fds \ {w}
  /\ UNCHANGED <<tids, bp, todo, cancel, poller, pollFailed, errs, late>>

\* thread::spawn panics when the system has no thread to give; unwinding
\* drops the driver, and nobody removes the breakpoints.
SpawnPanics(w) ==
  /\ start[w] = "creating"
  /\ todo[w] = {}
  /\ Breakpoints(w) # {}
  /\ start' = [start EXCEPT ![w] = "panicked"]
  /\ fds' = fds \ {w}
  /\ UNCHANGED <<tids, bp, todo, cancel, poller, pollFailed, errs, late>>
-----------------------------------------------------------------------------
(* RunningWatch::stop takes the watch by value, so it runs at most once. *)

Stop(w) ==
  /\ start[w] = "live"
  /\ ~cancel[w]
  /\ cancel' = [cancel EXCEPT ![w] = TRUE]
  /\ UNCHANGED <<start, tids, bp, fds, todo, poller, pollFailed, errs, late>>
-----------------------------------------------------------------------------
(* The poller thread. *)

\* Faulty variant: cancellation is only looked at after a failed round.
CheckCancelAfterErrors(w) ==
  /\ poller[w] = "head"
  /\ todo' = [todo EXCEPT ![w] = Breakpoints(w)]
  /\ \/ /\ cancel[w] /\ errs[w] > 0
        /\ poller' = [poller EXCEPT ![w] = "cleanup"]
        /\ UNCHANGED pollFailed
     \/ /\ ~(cancel[w] /\ errs[w] > 0)
        /\ poller' = [poller EXCEPT ![w] = "polling"]
        /\ pollFailed' = [pollFailed EXCEPT ![w] = 0]
  /\ UNCHANGED <<start, tids, bp, fds, cancel, errs, late>>

\* The head of the while loop.
CheckCancel(w) ==
  /\ poller[w] = "head"
  /\ todo' = [todo EXCEPT ![w] = Breakpoints(w)]
  /\ \/ /\ cancel[w]
        /\ poller' = [poller EXCEPT ![w] = "cleanup"]
        /\ UNCHANGED pollFailed
     \/ /\ ~cancel[w]
        /\ poller' = [poller EXCEPT ![w] = "polling"]
        /\ pollFailed' = [pollFailed EXCEPT ![w] = 0]
  /\ UNCHANGED <<start, tids, bp, fds, cancel, errs, late>>

\* driver.hits on one breakpoint; what it returns goes to the callback.
PollHits(w, t) ==
  /\ poller[w] = "polling"
  /\ t \in todo[w]
  /\ todo' = [todo EXCEPT ![w] = @ \ {t}]
  /\ \/ UNCHANGED pollFailed
     \/ pollFailed' = [pollFailed EXCEPT ![w] = @ + 1]
  /\ late' = [late EXCEPT ![w] = IF cancel[w] THEN @ + 1 ELSE @]
  /\ UNCHANGED <<start, tids, bp, fds, cancel, poller, errs>>

RoundErrors(w) ==
  IF pollFailed[w] = Cardinality(Breakpoints(w)) THEN errs[w] + 1 ELSE 0

\* Faulty variant: the thread returns where it should leave the loop.
EndRoundReturning(w) ==
  /\ poller[w] = "polling"
  /\ todo[w] = {}
  /\ errs' = [errs EXCEPT ![w] = RoundErrors(w)]
  /\ IF RoundErrors(w) >= MaxErrors
     THEN poller' = [poller EXCEPT ![w] = "exited"] /\ fds' = fds \ {w}
     ELSE poller' = [poller EXCEPT ![w] = "head"] /\ UNCHANGED fds
  /\ UNCHANGED <<start, tids, bp, todo, cancel, pollFailed, late>>

\* The count of failed rounds decides between the next round, after a pause,
\* and giving up.
EndRound(w) ==
  /\ poller[w] = "polling"
  /\ todo[w] = {}
  /\ errs' = [errs EXCEPT ![w] = RoundErrors(w)]
  /\ \/ /\ RoundErrors(w) >= MaxErrors
        /\ poller' = [poller EXCEPT ![w] = "cleanup"]
        /\ todo' = [todo EXCEPT ![w] = Breakpoints(w)]
     \/ /\ RoundErrors(w) < MaxErrors
        /\ poller' = [poller EXCEPT ![w] = "head"]
        /\ UNCHANGED todo
  /\ UNCHANGED <<start, tids, bp, fds, cancel, pollFailed, late>>

\* driver.remove on one breakpoint.  An error is ignored: the loop goes on, the
\* thread will end, and nobody tries again to remove what is still armed.
RemoveBreakpoint(w, t) ==
  /\ poller[w] = "cleanup"
  /\ t \in todo[w]
  /\ todo' = [todo EXCEPT ![w] = @ \ {t}]
  /\ \E r \in {"removed", "refused"} : bp' = [bp EXCEPT ![w][t] = r]
  /\ UNCHANGED <<start, tids, fds, cancel, poller, pollFailed, errs, late>>

\* The thread ends and drops the driver, which closes its descriptor.
ExitPoller(w) ==
  /\ poller[w] = "cleanup"
  /\ todo[w] = {}
  /\ poller' = [poller EXCEPT ![w] = "exited"]
  /\ fds' = fds \ {w}
  /\ UNCHANGED <<start, tids, bp, todo, cancel, pollFailed, errs, late>>

PollerStep(w) ==
  \/ CheckCancel(w)
  \/ \E t \in Tids : PollHits(w, t)
  \/ EndRound(w)
  \/ \E t \in Tids : RemoveBreakpoint(w, t)
  \/ ExitPoller(w)
-----------------------------------------------------------------------------
StartStep(w) ==
  \/ StartWatch(w)
  \/ OpenDriver(w)
  \/ ListThreads(w)
  \/ \E t \in Tids : CreateBreakpoint(w, t)
  \/ NoneCreated(w)
  \/ SpawnPoller(w)
  \/ SpawnPanics(w)

WatchNext == \E w \in Watches : StartStep(w) \/ Stop(w) \/ PollerStep(w)

WatchSpec == WatchInit /\ [][WatchNext]_watchVars
-----------------------------------------------------------------------------
WatchTypeOK ==
  /\ start \in [Watches -> StartStates]
  /\ tids \in [Watches -> SUBSET Tids]
  /\ bp \in [Watches -> [Tids -> BpStates]]
  /\ fds \subseteq Watches
  /\ todo \in [Watches -> SUBSET Tids]
  /\ cancel \in [Watches -> BOOLEAN]
  /\ poller \in [Watches -> PollerStates]
  /\ pollFailed \in [Watches -> Nat]
  /\ errs \in [Watches -> Nat]
  /\ late \in [Watches -> Nat]

\* Whatever fails while a watch starts, polls or stops, a breakpoint that is
\* armed in the kernel has somebody who will remove it, and an open driver
\* descriptor has an owner who will close it.  There are two exceptions: the
\* panic of thread::spawn leaves its breakpoints behind, and so does the poller
\* with those that the driver refused to remove when it was their turn.
KernelStateOwned ==
  \A w \in Watches :
    /\ \/ Armed(w) \subseteq Refused(w)
       \/ start[w] \in {"creating", "panicked"}
       \/ PollerAlive(w)
    /\ w \in fds => start[w] \in {"listing", "creating"} \/ PollerAlive(w)

\* stop() acknowledges without waiting for the poller ("Detach cleanup so
\* DELETE can acknowledge cancellation without waiting for an in-flight
\* ioctl"), so hits may still arrive; but each breakpoint is polled at most
\* once more.
AtMostOneLateRound ==
  \A w \in Watches : late[w] <= Cardinality(Breakpoints(w))

\* README: a watch installs its watchpoint "of all threads in the process".
\* Every thread a started watch reports has a breakpoint.
AllThreadsWatched ==
  \A w \in Watches :
    start[w] = "live" => \A t \in tids[w] : bp[w][t] # "none"
=============================================================================
