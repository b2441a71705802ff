------------------------------- MODULE HitFeed -------------------------------
(***************************************************************************)
(* What the server promises to the readers of hits, without its queues,    *)
(* threads and locks: one log of hits, numbered without gaps, that only    *)
(* grows; GET /hits shows the newest ones; a stream of /hits/stream shows  *)
(* hits of the log that come after the point where it subscribed, each at  *)
(* most once and in the order of the log.  Samples may be lost before they *)
(* reach the log, and a slow stream may skip hits.                         *)
(***************************************************************************)
EXTENDS Integers, Sequences

CONSTANTS
  Sources,      \* the breakpoints samples come from
  Ranks,        \* the ranks of samples in the order they were taken
  Streams,      \* the clients of GET /hits/stream
  BufferLimit,  \* how many hits GET /hits can show
  Limits        \* the limits a GET /hits may ask for

VARIABLES
  log,     \* every hit so far
  recent,  \* what is retained for GET /hits
  answer,  \* the last answer to a GET /hits
  cursor,  \* the last position of the log each stream has gone past
  seen     \* what each stream has shown since it subscribed

feedVars == <<log, recent, answer, cursor, seen>>

\* The last n elements of s, or all of them.
Newest(s, n) == IF Len(s) <= n THEN s ELSE SubSeq(s, Len(s) - n + 1, Len(s))

FeedInit ==
  /\ log = <<>>
  /\ recent = <<>>
  /\ answer = <<>>
  /\ cursor = [s \in Streams |-> 0]
  /\ seen = [s \in Streams |-> <<>>]

\* A later sample than all those recorded gets the next number.
Record ==
  /\ \E src \in Sources, n \in Ranks :
       /\ \A i \in 1..Len(log) : log[i].n < n
       /\ log' = Append(log, [seq |-> Len(log) + 1, src |-> src, n |-> n])
  /\ recent' = Newest(log', BufferLimit)
  /\ UNCHANGED <<answer, cursor, seen>>

Read(limit) ==
  /\ answer' = Newest(recent, limit)
  /\ UNCHANGED <<log, recent, cursor, seen>>

Subscribe(s) ==
  /\ \E p \in 0..Len(log) : cursor' = [cursor EXCEPT ![s] = p]
  /\ seen' = [seen EXCEPT ![s] = <<>>]
  /\ UNCHANGED <<log, recent, answer>>

Show(s) ==
  /\ \E i \in (cursor[s] + 1)..Len(log) :
       /\ cursor' = [cursor EXCEPT ![s] = i]
       /\ seen' = [seen EXCEPT ![s] = Append(@, log[i])]
  /\ UNCHANGED <<log, recent, answer>>

Skip(s) ==
  /\ \E i \in (cursor[s] + 1)..Len(log) : cursor' = [cursor EXCEPT ![s] = i]
  /\ UNCHANGED <<log, recent, answer, seen>>

FeedNext ==
  \/ Record
  \/ \E limit \in Limits : Read(limit)
  \/ \E s \in Streams : Subscribe(s) \/ Show(s) \/ Skip(s)

FeedSpec == FeedInit /\ [][FeedNext]_feedVars
=============================================================================
