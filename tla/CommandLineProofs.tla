------------------------- MODULE CommandLineProofs -------------------------
(***************************************************************************)
(* Proofs about pwatch watch, for any number of threads and tolerated      *)
(* errors: when the process has ended, nothing is left armed in the        *)
(* kernel, but for the cases the property names.                           *)
(***************************************************************************)
EXTENDS CommandLine, PartsProofs

(***************************************************************************)
(* The process does not implement Watch: its poller may be unwound by      *)
(* println!, and its end closes descriptors.  So the invariant of a watch  *)
(* is weakened where that matters, and joined with what the main thread    *)
(* and the runtime know of the watch: the start is only under way while    *)
(* the main thread is in it, a watch that is live has a task that joins    *)
(* its poller, and the process only exits when that task is over.          *)
(***************************************************************************)
CliTypeOK ==
  /\ main \in {"args", "starting", "waiting", "shutdown", "exited", "killed"}
  /\ limited \in BOOLEAN
  /\ joining \in {"none", "queued", "running", "done", "discarded"}
  /\ stdout \in {"open", "closed"}

StartOnMain(w) ==
  /\ main = "args" => start[w] = "idle"
  /\ main = "starting" => start[w] \in {"opening", "listing", "creating", "failed"}
  /\ main = "waiting" => start[w] = "live"
  /\ start[w] \in {"opening", "listing", "creating"} => main \in {"starting", "killed"}

JoinOfLive(w) ==
  /\ start[w] = "live" <=> poller[w] # "none"
  /\ start[w] = "live" <=> joining # "none"
  /\ joining = "done" => poller[w] = "exited"
  /\ main = "exited" => joining \in {"none", "done", "discarded"}

RemovedUnlessUnwound(w) ==
  /\ poller[w] = "cleanup" => Armed(w) \subseteq todo[w] \cup Refused(w)
  /\ poller[w] = "exited" => Armed(w) \subseteq Refused(w) \/ stdout = "closed"

CliOK(w) ==
  /\ StartOnMain(w)
  /\ JoinOfLive(w)
  /\ NothingCreatedYet(w)
  /\ RemovedUnlessUnwound(w)

CliInv == WatchTypeOK /\ CliTypeOK /\ \A w \in Watches : CliOK(w)
-----------------------------------------------------------------------------
\* The process has one watch.
LEMMA OnlyWatch == ASSUME NEW v \in Watches, NEW w \in Watches PROVE v = w
BY OneWatch DEF OneWatch

\* Nothing has happened.
LEMMA CliInitOK == Init => CliInv
<1> SUFFICES ASSUME Init PROVE CliInv
  OBVIOUS
<1>1. WatchInv
  BY WatchInitOK DEF Init
<1>2. CliTypeOK
  BY DEF Init, CliTypeOK
<1>3. ASSUME NEW w \in Watches PROVE CliOK(w)
  <2>1. start[w] = "idle" /\ poller[w] = "none"
    BY DEF Init, WatchInit
  <2> QED
    BY <1>1, <2>1
    DEF Init, WatchInv, WatchOK, CliOK, StartOnMain, JoinOfLive, RemovedUnlessUnwound
<1> QED BY <1>1, <1>2, <1>3 DEF CliInv, WatchInv

\* The variables keep their types.
LEMMA CliTypeStep ==
  ASSUME WatchTypeOK, CliTypeOK, [Next]_vars
  PROVE  WatchTypeOK' /\ CliTypeOK'
<1>1. CASE RejectArgs \/ CloseStdout \/ JoinStarts \/ UNCHANGED vars
  BY <1>1
  DEF RejectArgs, CloseStdout, JoinStarts, vars, watchVars, cliVars, WatchTypeOK, CliTypeOK
<1>2. CASE Interrupt
  BY <1>2 DEF Interrupt, WatchTypeOK, CliTypeOK
<1>3. ASSUME NEW w \in Watches, MainStep(w)
      PROVE  WatchTypeOK' /\ CliTypeOK'
  <2>1. StartStep(w) \/ Stop(w) \/ UNCHANGED watchVars
    BY <1>3
    DEF MainStep, AcceptArgs, StartProgress, StartFails, StartPanics, StartSucceeds,
        TimeLimit, StartStep
  <2>2. WatchTypeOK'
    BY <2>1, WatchTypeStep DEF watchVars, WatchTypeOK
  <2>3. CliTypeOK'
    BY <1>3
    DEF MainStep, AcceptArgs, StartProgress, StartFails, StartPanics, StartSucceeds,
        TimeLimit, cliVars, CliTypeOK
  <2> QED BY <2>2, <2>3
<1>4. ASSUME NEW w \in Watches, PollerProgress(w)
      PROVE  WatchTypeOK' /\ CliTypeOK'
  BY <1>4, WatchTypeStep DEF PollerProgress, cliVars, CliTypeOK
<1>5. ASSUME NEW w \in Watches, PrintPanics(w)
      PROVE  WatchTypeOK' /\ CliTypeOK'
  BY <1>5 DEF PrintPanics, WatchTypeOK, PollerStates, cliVars, CliTypeOK
<1>6. ASSUME NEW w \in Watches, RuntimeStep(w)
      PROVE  WatchTypeOK' /\ CliTypeOK'
  BY <1>6
  DEF RuntimeStep, JoinEnds, DiscardJoin, Exit, watchVars, WatchTypeOK, CliTypeOK
<1> QED BY <1>1, <1>2, <1>3, <1>4, <1>5, <1>6 DEF Next

\* Steps of the main thread and of the runtime that leave the watch alone.
LEMMA AroundWatchOK ==
  ASSUME CliInv, NEW w \in Watches,
         \/ RejectArgs \/ Interrupt \/ CloseStdout \/ JoinStarts
         \/ StartFails(w) \/ RuntimeStep(w)
  PROVE  CliOK(w)'
<1> USE DEF CliInv, CliOK, CliTypeOK
<1>1. UNCHANGED <<start, bp, todo, poller>>
  BY DEF RejectArgs, Interrupt, CloseStdout, JoinStarts, StartFails, RuntimeStep, JoinEnds,
         DiscardJoin, Exit, watchVars
<1>2. UNCHANGED <<Breakpoints(w), Armed(w), Refused(w)>>
  BY <1>1 DEF Breakpoints, Armed, Refused
<1>3. stdout = "closed" => stdout' = "closed"
  BY DEF RejectArgs, Interrupt, CloseStdout, JoinStarts, StartFails, RuntimeStep, JoinEnds,
         DiscardJoin, Exit
<1>4. NothingCreatedYet(w)' /\ RemovedUnlessUnwound(w)'
  BY <1>1, <1>2, <1>3 DEF NothingCreatedYet, RemovedUnlessUnwound
<1>5. StartOnMain(w)'
  BY <1>1
  DEF StartOnMain, RejectArgs, Interrupt, CloseStdout, JoinStarts, StartFails, RuntimeStep,
      JoinEnds, DiscardJoin, Exit
<1>6. JoinOfLive(w)'
  BY <1>1
  DEF JoinOfLive, RejectArgs, Interrupt, CloseStdout, JoinStarts, StartFails, RuntimeStep,
      JoinEnds, DiscardJoin, Exit, Running
<1> QED BY <1>4, <1>5, <1>6

\* The start, on the main thread, until the poller is there or cannot be.
LEMMA CliStartOK ==
  ASSUME CliInv, NEW w \in Watches,
         AcceptArgs(w) \/ StartProgress(w) \/ StartPanics(w) \/ StartSucceeds(w)
  PROVE  CliOK(w)'
<1> USE DEF CliInv, CliOK, WatchTypeOK
<1>1. CASE AcceptArgs(w) \/ StartPanics(w) \/ StartSucceeds(w)
  <2>1. UNCHANGED <<bp, stdout>>
    BY <1>1
    DEF AcceptArgs, StartPanics, StartSucceeds, StartWatch, SpawnPanics, SpawnPoller
  <2>2. UNCHANGED <<Breakpoints(w), Armed(w), Refused(w)>>
    BY <2>1 DEF Breakpoints, Armed, Refused
  <2> QED
    BY <1>1, <2>2
    DEF AcceptArgs, StartPanics, StartSucceeds, StartWatch, SpawnPanics, SpawnPoller,
        StartOnMain, JoinOfLive, NothingCreatedYet, RemovedUnlessUnwound
<1>2. CASE StartProgress(w)
  <2>1. /\ main = "starting" /\ poller[w] = "none" /\ joining = "none"
        /\ UNCHANGED <<main, joining, stdout, poller>>
        /\ start'[w] \in {"opening", "listing", "creating", "failed"}
    BY <1>2
    DEF StartProgress, cliVars, OpenDriver, ListThreads, CreateBreakpoint, NoneCreated,
        StartOnMain, JoinOfLive
  <2>2. StartOnMain(w)' /\ JoinOfLive(w)' /\ RemovedUnlessUnwound(w)'
    BY <2>1 DEF StartOnMain, JoinOfLive, RemovedUnlessUnwound
  <2>3. NothingCreatedYet(w)'
    <3>1. CASE \E t \in Tids : CreateBreakpoint(w, t)
      BY <3>1 DEF CreateBreakpoint, NothingCreatedYet
    <3>2. CASE OpenDriver(w) \/ ListThreads(w) \/ NoneCreated(w)
      <4>1. bp' = bp
        BY <3>2 DEF OpenDriver, ListThreads, NoneCreated
      <4>2. Breakpoints(w)' = Breakpoints(w)
        BY <4>1 DEF Breakpoints
      <4> QED BY <3>2, <4>2 DEF OpenDriver, ListThreads, NoneCreated, NothingCreatedYet
    <3> QED BY <1>2, <3>1, <3>2 DEF StartProgress
  <2> QED BY <2>2, <2>3
<1> QED BY <1>1, <1>2

\* The time limit, the poller, and a poller that is unwound.
LEMMA CliPollerOK ==
  ASSUME CliInv, NEW w \in Watches, TimeLimit(w) \/ PollerProgress(w) \/ PrintPanics(w)
  PROVE  CliOK(w)'
<1> USE DEF CliInv, CliOK, WatchTypeOK
<1>1. /\ start[w] = "live" /\ start' = start /\ UNCHANGED <<joining, stdout>>
      /\ main' = main \/ (main = "waiting" /\ main' = "shutdown")
  BY DEF TimeLimit, PollerProgress, PrintPanics, Stop, cliVars, PollerStep, CheckCancel,
         PollHits, EndRound, RemoveBreakpoint, ExitPoller, JoinOfLive
<1>2. StartOnMain(w)' /\ NothingCreatedYet(w)'
  BY <1>1 DEF StartOnMain, NothingCreatedYet
<1>3. /\ poller'[w] # "none"
      /\ poller[w] = "exited" => poller'[w] = "exited"
  BY <1>1
  DEF TimeLimit, PollerProgress, PrintPanics, Stop, PollerStep, CheckCancel, PollHits,
      EndRound, RemoveBreakpoint, ExitPoller, JoinOfLive
<1>4. JoinOfLive(w)'
  BY <1>1, <1>3 DEF JoinOfLive
<1>5. RemovedUnlessUnwound(w)'
  <2>1. Armed(w) \subseteq Breakpoints(w) /\ Breakpoints(w) \in SUBSET Tids
    BY DEF Armed, Refused, Breakpoints
  <2>2. CASE \E t \in Tids : RemoveBreakpoint(w, t)
    <3>1. PICK t \in Tids : RemoveBreakpoint(w, t)
      BY <2>2
    <3>2. PICK r \in {"removed", "refused"} : bp' = [bp EXCEPT ![w][t] = r]
      BY <3>1 DEF RemoveBreakpoint
    <3>3. /\ Armed(w)' \ {t} = Armed(w) \ {t} /\ Refused(w)' \ {t} = Refused(w) \ {t}
          /\ t \in Armed(w)' <=> t \in Refused(w)'
      BY <3>2 DEF Armed, Refused
    <3>4. todo'[w] = todo[w] \ {t} /\ poller' = poller
      BY <3>1 DEF RemoveBreakpoint
    <3> QED BY <1>1, <3>3, <3>4 DEF RemovedUnlessUnwound
  <2>3. CASE ~ \E t \in Tids : RemoveBreakpoint(w, t)
    <3>1. bp' = bp
      BY <2>3
      DEF TimeLimit, PollerProgress, PrintPanics, Stop, PollerStep, CheckCancel, PollHits,
          EndRound, ExitPoller
    <3>2. Armed(w)' = Armed(w) /\ Refused(w)' = Refused(w)
      BY <3>1 DEF Armed, Refused
    <3>3. \/ poller'[w] \in {"head", "polling"}
          \/ poller'[w] = poller[w] /\ todo'[w] = todo[w]
          \/ poller'[w] = "cleanup" /\ todo'[w] = Breakpoints(w)
          \/ poller'[w] = "exited" /\ poller[w] = "cleanup" /\ todo[w] = {}
          \/ poller'[w] = "exited" /\ stdout = "closed"
      BY <2>1, <2>3
      DEF TimeLimit, PollerProgress, PrintPanics, Stop, PollerStep, CheckCancel, PollHits,
          EndRound, ExitPoller
    <3> QED BY <1>1, <2>1, <3>2, <3>3 DEF RemovedUnlessUnwound
  <2> QED BY <2>2, <2>3
<1> QED BY <1>2, <1>4, <1>5

\* No step of the process breaks the invariant.
LEMMA CliStepOK == CliInv /\ [Next]_vars => CliInv'
<1> SUFFICES ASSUME CliInv, [Next]_vars, NEW w \in Watches PROVE CliOK(w)'
  BY CliTypeStep DEF CliInv
<1>1. CASE Next
  <2>1. \/ RejectArgs \/ Interrupt \/ CloseStdout \/ JoinStarts
        \/ MainStep(w) \/ PollerProgress(w) \/ PrintPanics(w) \/ RuntimeStep(w)
    BY <1>1, OnlyWatch DEF Next
  <2> QED BY <2>1, AroundWatchOK, CliStartOK, CliPollerOK DEF MainStep
<1>2. CASE UNCHANGED vars
  BY <1>2
  DEF vars, watchVars, cliVars, CliInv, CliOK, StartOnMain, JoinOfLive, NothingCreatedYet,
      RemovedUnlessUnwound, Breakpoints, Armed, Refused
<1> QED BY <1>1, <1>2

\* pwatch watch: a breakpoint is never left armed behind the back of the
\* start and the poller, neither while the process runs nor when it has
\* ended, except in the ways that the property lists.
THEOREM NothingLeftBehind == Spec => []NothingLeftArmed
<1>1. CliInv => NothingLeftArmed
  <2> SUFFICES ASSUME CliInv, NEW w \in Watches, ~(Armed(w) \subseteq Refused(w))
               PROVE  \/ main = "starting"
                      \/ Running /\ PollerAlive(w)
                      \/ start[w] = "panicked"
                      \/ stdout = "closed"
                      \/ joining = "discarded"
                      \/ main = "killed"
    BY DEF NothingLeftArmed
  <2>1. Armed(w) \subseteq Breakpoints(w)
    BY DEF Armed, Refused, Breakpoints
  <2>2. start[w] \in {"creating", "live", "panicked"}
    BY <2>1 DEF CliInv, CliOK, NothingCreatedYet, WatchTypeOK, StartStates
  <2>3. CASE start[w] = "creating"
    BY <2>3 DEF CliInv, CliOK, StartOnMain
  <2>4. CASE start[w] = "live"
    BY <2>4
    DEF CliInv, CliOK, CliTypeOK, JoinOfLive, RemovedUnlessUnwound, WatchTypeOK,
        PollerStates, PollerAlive, Running
  <2> QED BY <2>2, <2>3, <2>4
<1> QED BY <1>1, CliInitOK, CliStepOK, PTL DEF Spec
=============================================================================
