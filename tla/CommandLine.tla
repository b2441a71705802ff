----------------------------- MODULE CommandLine -----------------------------
(***************************************************************************)
(* pwatch watch (src/main.rs): one process with one watch.  run_watch      *)
(* parses its arguments, starts the watch on the main thread and then      *)
(* waits, for the time limit or for ever; at the limit it cancels the      *)
(* watch and returns.  main is #[tokio::main], so that returning drops the *)
(* runtime, which waits for tasks of the blocking pool that have started,  *)
(* the one that joins the poller among them, and discards the others.      *)
(* Then the process ends, with whatever threads are left.                  *)
(*                                                                         *)
(* handle_event runs on the poller thread and prints; println! panics when *)
(* standard output cannot be written to.                                   *)
(***************************************************************************)
EXTENDS Watch

ASSUME OneWatch == \E w \in Watches : Watches = {w}

VARIABLES
  main,     \* where the main thread is
  limited,  \* --timeout is not 0
  joining,  \* the blocking task that joins the poller
  stdout    \* "closed": the reader of the standard output has gone

cliVars == <<main, limited, joining, stdout>>
vars == <<watchVars, cliVars>>


Running == main \notin {"exited", "killed"}

Init ==
  /\ WatchInit
  /\ main = "args"
  /\ limited \in BOOLEAN
  /\ joining = "none"
  /\ stdout = "open"
-----------------------------------------------------------------------------
(* run_watch *)

\* An argument is missing, or the type, the address or the filter does not
\* parse.
RejectArgs ==
  /\ main = "args"
  /\ main' = "shutdown"
  /\ UNCHANGED <<watchVars, limited, joining, stdout>>

AcceptArgs(w) ==
  /\ main = "args"
  /\ StartWatch(w)
  /\ main' = "starting"
  /\ UNCHANGED <<limited, joining, stdout>>

StartProgress(w) ==
  /\ main = "starting"
  /\ \/ OpenDriver(w)
     \/ ListThreads(w)
     \/ \E t \in Tids : CreateBreakpoint(w, t)
     \/ NoneCreated(w)
  /\ UNCHANGED cliVars

\* start_watch returns its error.
StartFails(w) ==
  /\ main = "starting"
  /\ start[w] = "failed"
  /\ main' = "shutdown"
  /\ UNCHANGED <<watchVars, limited, joining, stdout>>

\* The panic of thread::spawn unwinds the main thread out of the runtime.
StartPanics(w) ==
  /\ main = "starting"
  /\ SpawnPanics(w)
  /\ main' = "shutdown"
  /\ UNCHANGED <<limited, joining, stdout>>

StartSucceeds(w) ==
  /\ main = "starting"
  /\ SpawnPoller(w)
  /\ joining' = "queued"
  /\ main' = "waiting"
  /\ UNCHANGED <<limited, stdout>>

\* Faulty variant: the watch is dropped at the time limit, not stopped.
TimeLimitDropping(w) ==
  /\ main = "waiting"
  /\ limited
  /\ main' = "shutdown"
  /\ UNCHANGED <<watchVars, limited, joining, stdout>>

\* sleep ends and stop() follows without another await.
TimeLimit(w) ==
  /\ main = "waiting"
  /\ limited
  /\ Stop(w)
  /\ main' = "shutdown"
  /\ UNCHANGED <<limited, joining, stdout>>
-----------------------------------------------------------------------------
(* The poller thread, and the other side of its standard output. *)

PollerProgress(w) ==
  /\ Running
  /\ PollerStep(w)
  /\ UNCHANGED cliVars

CloseStdout ==
  /\ Running
  /\ stdout = "open"
  /\ stdout' = "closed"
  /\ UNCHANGED <<watchVars, main, limited, joining>>

\* A hit is printed in vain: the thread unwinds and drops the driver, and the
\* loop that removes the breakpoints is never reached.
PrintPanics(w) ==
  /\ Running
  /\ stdout = "closed"
  /\ poller[w] = "polling"
  /\ todo[w] # {}
  /\ poller' = [poller EXCEPT ![w] = "exited"]
  /\ fds' = fds \ {w}
  /\ UNCHANGED <<start, tids, bp, todo, cancel, pollFailed, errs, late, cliVars>>
-----------------------------------------------------------------------------
(* The runtime. *)

\* The task may find no thread, and then it never starts.
JoinStarts ==
  /\ Running
  /\ joining = "queued"
  /\ joining' = "running"
  /\ UNCHANGED <<watchVars, main, limited, stdout>>

JoinEnds(w) ==
  /\ Running
  /\ joining = "running"
  /\ poller[w] = "exited"
  /\ joining' = "done"
  /\ UNCHANGED <<watchVars, main, limited, stdout>>

\* The pool shuts down: a task that has not started is dropped.
DiscardJoin ==
  /\ main = "shutdown"
  /\ joining = "queued"
  /\ joining' = "discarded"
  /\ UNCHANGED <<watchVars, main, limited, stdout>>

\* Faulty variant: the process exits without waiting for its tasks.
ExitAtOnce ==
  /\ main = "shutdown"
  /\ main' = "exited"
  /\ fds' = {}
  /\ UNCHANGED <<start, tids, bp, todo, cancel, poller, pollFailed, errs, late>>
  /\ UNCHANGED <<limited, joining, stdout>>

\* The kernel closes what the process leaves open.
Exit ==
  /\ main = "shutdown"
  /\ joining \in {"none", "done", "discarded"}
  /\ main' = "exited"
  /\ fds' = {}
  /\ UNCHANGED <<start, tids, bp, todo, cancel, poller, pollFailed, errs, late>>
  /\ UNCHANGED <<limited, joining, stdout>>

\* No signal is handled: the process dies where it is.
Interrupt ==
  /\ Running
  /\ main' = "killed"
  /\ fds' = {}
  /\ UNCHANGED <<start, tids, bp, todo, cancel, poller, pollFailed, errs, late>>
  /\ UNCHANGED <<limited, joining, stdout>>

MainStep(w) ==
  \/ AcceptArgs(w) \/ StartProgress(w) \/ StartFails(w)
  \/ StartPanics(w) \/ StartSucceeds(w) \/ TimeLimit(w)

RuntimeStep(w) == JoinEnds(w) \/ DiscardJoin \/ Exit

Next ==
  \/ RejectArgs
  \/ Interrupt
  \/ CloseStdout
  \/ JoinStarts
  \/ \E w \in Watches :
       MainStep(w) \/ PollerProgress(w) \/ PrintPanics(w) \/ RuntimeStep(w)

Spec == Init /\ [][Next]_vars

(***************************************************************************)
(* Fairness.  The timer fires, the runtime shuts down once it may, and the *)
(* poller's own code runs.  DriverFairness is an assumption on the kernel: *)
(* "The driver poll is a blocking ioctl", and it may not return.           *)
(***************************************************************************)
OwnCode(w) == CheckCancel(w) \/ EndRound(w) \/ ExitPoller(w)

Ioctl(w) ==
  \/ PrintPanics(w)
  \/ /\ Running
     /\ \E t \in Tids : PollHits(w, t) \/ RemoveBreakpoint(w, t)
     /\ UNCHANGED cliVars

FairSpec ==
  /\ Spec
  /\ \A w \in Watches :
       /\ WF_vars(TimeLimit(w))
       /\ WF_vars(RuntimeStep(w))
       /\ WF_vars(Running /\ OwnCode(w) /\ UNCHANGED cliVars)

DriverFairness == \A w \in Watches : WF_vars(Ioctl(w))
-----------------------------------------------------------------------------
\* While the process runs, a breakpoint that is armed in the kernel is one
\* that the start or the poller still looks after, and when it has ended none
\* is left.  There are five ways to leave one behind: the driver refuses to
\* remove it, a thread cannot be spawned, standard output is closed under the
\* poller, the join task never got a thread, so that the exit does not wait for
\* it, and a signal.
NothingLeftArmed ==
  \A w \in Watches :
    \/ Armed(w) \subseteq Refused(w)
    \/ main = "starting"
    \/ Running /\ PollerAlive(w)
    \/ start[w] = "panicked"
    \/ stdout = "closed"
    \/ joining = "discarded"
    \/ main = "killed"

\* README: "--timeout <TIMEOUT>    exit after this many seconds".  stop() only
\* sets a flag and the shutdown waits for the poller, which may be in an
\* ioctl, in the pause between rounds, or gone: if ioctls return, the process
\* does end.
TimeoutExits ==
  DriverFairness => ((main = "waiting" /\ limited) ~> ~Running)
=============================================================================
