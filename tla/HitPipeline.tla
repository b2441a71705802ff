----------------------------- MODULE HitPipeline -----------------------------
(***************************************************************************)
(* The way of a hit through the server (src/server.rs, src/hit.rs).  The   *)
(* pollers of all watches hand their samples to one bounded queue without  *)
(* ever waiting: what does not fit is counted and dropped.  One worker     *)
(* thread takes samples out, resolves their addresses, numbers them, keeps *)
(* the newest in a ring behind a mutex and then broadcasts them to the     *)
(* streams of /hits/stream.  The broadcast channel retains a bounded       *)
(* number of hits; a stream that falls behind is moved forward, and the    *)
(* handler ignores the notice it gets about that.                          *)
(*                                                                         *)
(* A sample is its breakpoint and its rank n among the calls of the        *)
(* callback.  The queue, the ring, the channel and the receivers are those *)
(* of std and tokio.                                                       *)
(***************************************************************************)
EXTENDS Integers, Sequences

CONSTANTS
  Sources,          \* the breakpoints samples come from
  Streams,          \* the clients of GET /hits/stream
  QueueCapacity,    \* SAMPLE_QUEUE_CAPACITY (4096)
  BufferLimit,      \* hit_buffer_limit, may be 0 (--hit-buffer, 1024)
  ChannelCapacity,  \* capacity of the broadcast channel (1024)
  Limits,           \* the limits a GET /hits may ask for
  MaxSamples        \* bound of the model: calls of the callback

ASSUME PipelineAssumption ==
  /\ QueueCapacity \in Nat \ {0}
  /\ BufferLimit \in Nat
  /\ ChannelCapacity \in Nat \ {0}
  /\ Limits \subseteq Nat
  /\ MaxSamples \in Nat

VARIABLES
  emitted,  \* samples the pollers have handed to the callback
  dropped,  \* dropped_samples
  queue,    \* the mpsc channel of samples
  worker,   \* where the hit worker thread is
  current,  \* the sample or the hit in its hands, in a sequence of at most one
  nextSeq,  \* HitFactory.next_seq
  buffer,   \* hit_buffer
  answer,   \* the last answer to a GET /hits
  sent,     \* every hit given to hit_tx.send, the retained ones last
  open,     \* the streams that are connected
  from,     \* Len(sent) when each stream subscribed
  pos,      \* the position of each stream's receiver
  got,      \* history: the hits each stream has been sent since it subscribed
  missed    \* history: the hits the channel told it were skipped

vars == <<emitted, dropped, queue, worker, current, nextSeq, buffer, answer,
          sent, open, from, pos, got, missed>>
streamVars == <<open, from, pos, got, missed>>

Samples == [src : Sources, n : Nat]
Hits == [seq : Nat, src : Sources, n : Nat]

\* The last n elements of s, or all of them.
Newest(s, n) == IF Len(s) <= n THEN s ELSE SubSeq(s, Len(s) - n + 1, Len(s))

\* If the worker thread cannot be started its end of the queue is dropped.
Init ==
  /\ emitted = 0
  /\ dropped = 0
  /\ queue = <<>>
  /\ worker \in {"recv", "absent"}
  /\ current = <<>>
  /\ nextSeq = 0
  /\ buffer = <<>>
  /\ answer = <<>>
  /\ sent = <<>>
  /\ open = {}
  /\ from = [s \in Streams |-> 0]
  /\ pos = [s \in Streams |-> 0]
  /\ got = [s \in Streams |-> <<>>]
  /\ missed = [s \in Streams |-> 0]
-----------------------------------------------------------------------------
(* The callback of create_breakpoint_inner, on a poller thread. *)

Accepting == worker # "absent" /\ Len(queue) < QueueCapacity

\* Faulty variant: a full queue drops its oldest sample, uncounted.
EmitEvicting(src) ==
  /\ emitted < MaxSamples
  /\ emitted' = emitted + 1
  /\ \/ /\ worker # "absent"
        /\ queue' = Append(Newest(queue, QueueCapacity - 1),
                           [src |-> src, n |-> emitted + 1])
        /\ UNCHANGED dropped
     \/ /\ worker = "absent"
        /\ dropped' = dropped + 1
        /\ UNCHANGED queue
  /\ UNCHANGED <<worker, current, nextSeq, buffer, answer, sent, streamVars>>

\* try_send never waits; a full or closed queue refuses the sample.
Emit(src) ==
  /\ emitted < MaxSamples
  /\ emitted' = emitted + 1
  /\ \/ /\ Accepting
        /\ queue' = Append(queue, [src |-> src, n |-> emitted + 1])
        /\ UNCHANGED dropped
     \/ /\ ~Accepting
        /\ dropped' = dropped + 1
        /\ UNCHANGED queue
  /\ UNCHANGED <<worker, current, nextSeq, buffer, answer, sent, streamVars>>
-----------------------------------------------------------------------------
(* The hit worker thread. *)

\* Faulty variant: the newest sample is served first.
ReceiveNewest ==
  /\ worker = "recv"
  /\ queue # <<>>
  /\ current' = <<queue[Len(queue)]>>
  /\ queue' = SubSeq(queue, 1, Len(queue) - 1)
  /\ worker' = "resolving"
  /\ UNCHANGED <<emitted, dropped, nextSeq, buffer, answer, sent, streamVars>>

\* blocking_recv
Receive ==
  /\ worker = "recv"
  /\ queue # <<>>
  /\ current' = <<Head(queue)>>
  /\ queue' = Tail(queue)
  /\ worker' = "resolving"
  /\ UNCHANGED <<emitted, dropped, nextSeq, buffer, answer, sent, streamVars>>

\* The addresses are resolved and make_hit_with_maps draws the next number;
\* push_hit leaves the ring alone when its limit is 0.
MakeHit ==
  /\ worker = "resolving"
  /\ nextSeq' = nextSeq + 1
  /\ current' = <<[seq |-> nextSeq + 1, src |-> current[1].src, n |-> current[1].n]>>
  /\ worker' = IF BufferLimit > 0 THEN "locking" ELSE "sending"
  /\ UNCHANGED <<emitted, dropped, queue, buffer, answer, sent, streamVars>>

LockBuffer ==
  /\ worker = "locking"
  /\ worker' = "locked"
  /\ UNCHANGED <<emitted, dropped, queue, current, nextSeq, buffer, answer, sent,
                 streamVars>>

\* Faulty variant: the ring is trimmed to its limit before the hit goes in.
PushBufferLate ==
  /\ worker = "locked"
  /\ buffer' = Append(Newest(buffer, BufferLimit), current[1])
  /\ worker' = "sending"
  /\ UNCHANGED <<emitted, dropped, queue, current, nextSeq, answer, sent, streamVars>>

\* Old hits are popped until there is room, the hit is pushed, the lock freed.
PushBuffer ==
  /\ worker = "locked"
  /\ buffer' = Append(Newest(buffer, BufferLimit - 1), current[1])
  /\ worker' = "sending"
  /\ UNCHANGED <<emitted, dropped, queue, current, nextSeq, answer, sent, streamVars>>

\* Faulty variant: a send that reaches nobody ends the worker.
SendHitOrStop ==
  /\ worker = "sending"
  /\ sent' = Append(sent, current[1])
  /\ current' = <<>>
  /\ worker' = IF open = {} THEN "absent" ELSE "recv"
  /\ UNCHANGED <<emitted, dropped, queue, nextSeq, buffer, answer, streamVars>>

\* hit_tx.send; without receivers it fails, and the failure is ignored.
SendHit ==
  /\ worker = "sending"
  /\ sent' = Append(sent, current[1])
  /\ current' = <<>>
  /\ worker' = "recv"
  /\ UNCHANGED <<emitted, dropped, queue, nextSeq, buffer, answer, streamVars>>

WorkerStep == Receive \/ MakeHit \/ LockBuffer \/ PushBuffer \/ SendHit
-----------------------------------------------------------------------------
(* The readers. *)

\* Faulty variant: the newest hits are not put back in order.
GetHitsReversed(limit) ==
  /\ worker # "locked"
  /\ answer' = [i \in 1..Len(Newest(buffer, limit)) |-> buffer[Len(buffer) - i + 1]]
  /\ UNCHANGED <<emitted, dropped, queue, worker, current, nextSeq, buffer, sent,
                 streamVars>>

\* GET /hits: the last hits of the ring, oldest first.
GetHits(limit) ==
  /\ worker # "locked"
  /\ answer' = Newest(buffer, limit)
  /\ UNCHANGED <<emitted, dropped, queue, worker, current, nextSeq, buffer, sent,
                 streamVars>>

\* try_lock finds the ring taken, by the worker or at any time by another GET
\* in its copy, which GetHits makes in one step: 503, and nothing is done.
GetHitsBusy == UNCHANGED vars

\* GET /hits/stream: a new receiver starts behind everything sent so far.
Connect(s) ==
  /\ s \notin open
  /\ open' = open \cup {s}
  /\ from' = [from EXCEPT ![s] = Len(sent)]
  /\ pos' = [pos EXCEPT ![s] = Len(sent)]
  /\ got' = [got EXCEPT ![s] = <<>>]
  /\ missed' = [missed EXCEPT ![s] = 0]
  /\ UNCHANGED <<emitted, dropped, queue, worker, current, nextSeq, buffer, answer, sent>>

Behind(s) == Len(sent) - pos[s]

\* The next hit is still in the channel.
Deliver(s) ==
  /\ s \in open
  /\ Behind(s) \in 1..ChannelCapacity
  /\ got' = [got EXCEPT ![s] = Append(@, sent[pos[s] + 1])]
  /\ pos' = [pos EXCEPT ![s] = @ + 1]
  /\ UNCHANGED <<emitted, dropped, queue, worker, current, nextSeq, buffer, answer,
                 sent, open, from, missed>>

\* Faulty variant: a receiver that lags is moved to where it subscribed.
LagRewinding(s) ==
  /\ s \in open
  /\ Behind(s) > ChannelCapacity
  /\ pos' = [pos EXCEPT ![s] = Len(sent) - ChannelCapacity - 1]
  /\ missed' = [missed EXCEPT ![s] = @ + (Behind(s) - ChannelCapacity)]
  /\ UNCHANGED <<emitted, dropped, queue, worker, current, nextSeq, buffer, answer,
                 sent, open, from, got>>

\* It was overwritten: the receiver moves to the oldest hit that is left, and
\* the Lagged error is filtered out of the stream.
Lag(s) ==
  /\ s \in open
  /\ Behind(s) > ChannelCapacity
  /\ pos' = [pos EXCEPT ![s] = Len(sent) - ChannelCapacity]
  /\ missed' = [missed EXCEPT ![s] = @ + (Behind(s) - ChannelCapacity)]
  /\ UNCHANGED <<emitted, dropped, queue, worker, current, nextSeq, buffer, answer,
                 sent, open, from, got>>

Disconnect(s) ==
  /\ s \in open
  /\ open' = open \ {s}
  /\ UNCHANGED <<emitted, dropped, queue, worker, current, nextSeq, buffer, answer,
                 sent, from, pos, got, missed>>
-----------------------------------------------------------------------------
Next ==
  \/ \E src \in Sources : Emit(src)
  \/ WorkerStep
  \/ \E limit \in Limits : GetHits(limit)
  \/ GetHitsBusy
  \/ \E s \in Streams : Connect(s) \/ Deliver(s) \/ Lag(s) \/ Disconnect(s)

Spec == Init /\ [][Next]_vars

\* The worker is a thread of its own and the only one to take the lock of the
\* ring for longer than a copy.
FairSpec == Spec /\ WF_vars(WorkerStep)
-----------------------------------------------------------------------------
TypeOK ==
  /\ emitted \in Nat /\ dropped \in Nat /\ nextSeq \in Nat
  /\ queue \in Seq(Samples)
  /\ worker \in {"absent", "recv", "resolving", "locking", "locked", "sending"}
  /\ worker \in {"absent", "recv"} => current = <<>>
  /\ worker = "resolving" => Len(current) = 1 /\ current[1] \in Samples
  /\ worker \in {"locking", "locked", "sending"} =>
       Len(current) = 1 /\ current[1] \in Hits
  /\ buffer \in Seq(Hits) /\ answer \in Seq(Hits) /\ sent \in Seq(Hits)
  /\ open \subseteq Streams
  /\ from \in [Streams -> Nat] /\ pos \in [Streams -> Nat]
  /\ got \in [Streams -> Seq(Hits)] /\ missed \in [Streams -> Nat]

\* Every sample handed to the callback is counted as dropped, or is on its
\* way, or has been broadcast: none disappears between the threads.
NothingUncounted ==
  emitted = dropped + Len(queue) + Len(current) + Len(sent)

\* The hits, in the order in which they leave the ring's mutex.
Pushed == IF worker = "sending" THEN Append(sent, current[1]) ELSE sent

\* Hits are numbered 1, 2, 3 ... without gaps and are broadcast in the order
\* in which the pollers delivered their samples.
OrderKept ==
  /\ \A i \in 1..Len(sent) : sent[i].seq = i
  /\ \A i, k \in 1..Len(sent) : i < k => sent[i].n < sent[k].n

\* --hit-buffer: "number of recent hits retained for GET /hits".  The ring
\* holds the newest hits, as many as the limit allows, including the one that
\* is not yet broadcast.
BufferIsNewest == buffer = Newest(Pushed, BufferLimit)

\* Each hit broadcast since a stream subscribed, up to its receiver's
\* position, was either sent to it or is one the channel overwrote; what was
\* sent came once, in order, and after the subscription.
StreamAccounting ==
  \A s \in Streams :
    /\ Len(got[s]) + missed[s] = pos[s] - from[s]
    /\ \A i \in 1..Len(got[s]) : got[s][i].seq \in (from[s] + 1)..pos[s]
    /\ \A i, k \in 1..Len(got[s]) : i < k => got[s][i].seq < got[s][k].seq

\* An accepted sample does not stay in the queue: it is broadcast in the end.
AcceptedGetsSent ==
  \A n \in 1..MaxSamples :
    (\E i \in 1..Len(queue) : queue[i].n = n)
      ~> (\E i \in 1..Len(sent) : sent[i].n = n)

Feed == INSTANCE HitFeed WITH
          Ranks <- 1..MaxSamples, log <- Pushed, recent <- buffer, cursor <- pos, seen <- got

\* The pipeline keeps the promise of HitFeed to the readers of hits.
ImplementsFeed == Feed!FeedSpec
=============================================================================
