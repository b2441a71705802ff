-------------------------- MODULE HitPipelineProofs --------------------------
(***************************************************************************)
(* Proofs about HitPipeline: accounting, order and the ring, for any       *)
(* capacities and any number of samples, breakpoints and streams, and that *)
(* the pipeline implements HitFeed.                                        *)
(***************************************************************************)
EXTENDS HitPipeline, SequenceTheorems, TLAPS

\* Newest is the end of a sequence.
LEMMA NewestProperties ==
  ASSUME NEW S, NEW s \in Seq(S), NEW n \in Nat
  PROVE  /\ Newest(s, n) \in Seq(S)
         /\ Len(Newest(s, n)) = IF Len(s) <= n THEN Len(s) ELSE n
         /\ \A i \in 1..Len(Newest(s, n)) :
              Newest(s, n)[i] = s[Len(s) - Len(Newest(s, n)) + i]
<1>1. Len(s) \in Nat
  BY LenProperties
<1>2. CASE Len(s) <= n
  BY <1>1, <1>2 DEF Newest
<1>3. CASE ~(Len(s) <= n)
  <2> DEFINE m == Len(s) - n + 1
  <2>1. Newest(s, n) = SubSeq(s, m, Len(s))
    BY <1>3 DEF Newest
  <2>2. m \in 1..(Len(s) + 1)
    BY <1>1, <1>3
  <2>3. \A i \in m..Len(s) : s[i] \in S
    BY <1>1, <2>2
  <2> HIDE DEF m
  <2>4. /\ SubSeq(s, m, Len(s)) \in Seq(S)
        /\ Len(SubSeq(s, m, Len(s))) = IF m <= Len(s) THEN Len(s) - m + 1 ELSE 0
        /\ \A i \in 1..(Len(s) - m + 1) : SubSeq(s, m, Len(s))[i] = s[m + i - 1]
    BY <1>1, <2>2, <2>3, SubSeqProperties
  <2>5. Len(SubSeq(s, m, Len(s))) = n
    BY <1>1, <1>3, <2>4 DEF m
  <2>6. ASSUME NEW i \in 1..n PROVE SubSeq(s, m, Len(s))[i] = s[Len(s) - n + i]
    <3>1. m + i - 1 = Len(s) - n + i /\ i \in 1..(Len(s) - m + 1)
      BY <1>1, <1>3 DEF m
    <3>2. SubSeq(s, m, Len(s))[i] = s[m + i - 1]
      BY <2>4, <3>1
    <3> QED BY <3>1, <3>2
  <2> QED BY <1>1, <1>3, <2>1, <2>4, <2>5, <2>6
<1> QED BY <1>2, <1>3

\* Making room for one more before it is appended, or taking the newest of
\* the longer sequence, is the same.
LEMMA NewestOfAppend ==
  ASSUME NEW S, NEW s \in Seq(S), NEW x \in S, NEW n \in Nat \ {0}
  PROVE  Append(Newest(Newest(s, n), n - 1), x) = Newest(Append(s, x), n)
<1> DEFINE a == Newest(s, n)
           b == Newest(a, n - 1)
           t == Append(s, x)
           c == Newest(t, n)
<1>1. /\ Len(s) \in Nat /\ t \in Seq(S) /\ Len(t) = Len(s) + 1 /\ t[Len(t)] = x
      /\ \A i \in 1..Len(s) : t[i] = s[i]
  BY LenProperties
<1>2. /\ a \in Seq(S) /\ Len(a) = IF Len(s) <= n THEN Len(s) ELSE n
      /\ \A i \in 1..Len(a) : a[i] = s[Len(s) - Len(a) + i]
  BY NewestProperties
<1>3. n \in Nat /\ n - 1 \in Nat
  OBVIOUS
<1> HIDE DEF a, t
<1>4. /\ b \in Seq(S) /\ Len(b) = IF Len(a) <= n - 1 THEN Len(a) ELSE n - 1
      /\ \A i \in 1..Len(b) : b[i] = a[Len(a) - Len(b) + i]
  <2> DEFINE m == n - 1
  <2>1. a \in Seq(S) /\ m \in Nat
    BY <1>2, <1>3
  <2> HIDE DEF m
  <2>2. /\ Newest(a, m) \in Seq(S) /\ Len(Newest(a, m)) = IF Len(a) <= m THEN Len(a) ELSE m
        /\ \A i \in 1..Len(Newest(a, m)) : Newest(a, m)[i] = a[Len(a) - Len(Newest(a, m)) + i]
    BY ONLY <2>1, NewestProperties
  <2> QED BY <2>2 DEF m
<1>5. /\ c \in Seq(S) /\ Len(c) = IF Len(t) <= n THEN Len(t) ELSE n
      /\ \A i \in 1..Len(c) : c[i] = t[Len(t) - Len(c) + i]
  <2>1. t \in Seq(S) /\ n \in Nat
    BY <1>1, <1>3
  <2> QED BY ONLY <2>1, NewestProperties
<1> HIDE DEF b, c
<1>6. /\ Append(b, x) \in Seq(S) /\ Len(Append(b, x)) = Len(b) + 1
      /\ Append(b, x)[Len(b) + 1] = x
      /\ \A i \in 1..Len(b) : Append(b, x)[i] = b[i]
  BY <1>4
<1>7. Len(c) = Len(b) + 1 /\ Len(b) \in Nat /\ Len(b) <= Len(a) /\ Len(a) <= Len(s)
  BY <1>1, <1>2, <1>4, <1>5
<1>8. ASSUME NEW i \in 1..Len(c) PROVE Append(b, x)[i] = c[i]
  <2>1. CASE i = Len(c)
    <3>1. Append(b, x)[i] = x
      BY <1>6, <1>7, <2>1
    <3>2. Len(t) - Len(c) + i = Len(t)
      BY <1>1, <1>7, <2>1
    <3>3. c[i] = t[Len(t) - Len(c) + i]
      BY <1>5
    <3> QED BY <1>1, <3>1, <3>2, <3>3
  <2>2. CASE i # Len(c)
    <3>1. i \in 1..Len(b)
      BY <1>7, <2>2
    <3> DEFINE k == Len(a) - Len(b) + i
               l == Len(s) - Len(b) + i
    <3>2. k \in 1..Len(a) /\ l \in 1..Len(s)
      BY <1>1, <1>7, <3>1
    <3>3. Len(s) - Len(a) + k = l /\ Len(t) - Len(c) + i = l
      BY <1>1, <1>7, <3>1
    <3> HIDE DEF k, l
    <3>4. b[i] = s[l]
      <4>1. b[i] = a[k]
        BY <1>4, <3>1 DEF k
      <4>2. a[k] = s[Len(s) - Len(a) + k]
        BY <1>2, <3>2
      <4> QED BY <3>3, <4>1, <4>2
    <3>5. c[i] = t[l]
      <4>1. c[i] = t[Len(t) - Len(c) + i]
        BY <1>5
      <4> QED BY <3>3, <4>1
    <3> QED BY <1>1, <1>6, <3>1, <3>2, <3>4, <3>5
  <2> QED BY <2>1, <2>2
<1>9. Append(b, x) = c
  BY <1>5, <1>6, <1>7, <1>8, SeqEqual
<1> QED BY <1>9 DEF a, b, c, t

\* Newest of nothing is nothing.
LEMMA NewestZero ==
  ASSUME NEW S, NEW s \in Seq(S)
  PROVE  Newest(s, 0) = <<>>
<1>1. Newest(s, 0) \in Seq(S) /\ Len(Newest(s, 0)) = 0
  BY NewestProperties, LenProperties
<1> QED BY <1>1, EmptySeq
-----------------------------------------------------------------------------
(* The inductive invariant. *)

\* The worker has numbered the hit that it holds.
Holding == worker \in {"locking", "locked", "sending"}

\* The next number is that of the next hit.
Numbers ==
  /\ nextSeq = IF Holding THEN Len(sent) + 1 ELSE Len(sent)
  /\ Holding => current[1].seq = Len(sent) + 1
  /\ \A i \in 1..Len(sent) : sent[i].seq = i

\* Ranks grow from the broadcast hits over the one in the worker's hands to
\* the queue, and none is larger than the number of samples so far.
RanksGrow ==
  /\ emitted <= MaxSamples
  /\ \A i, k \in 1..Len(sent) : i < k => sent[i].n < sent[k].n
  /\ \A i, k \in 1..Len(queue) : i < k => queue[i].n < queue[k].n
  /\ \A i \in 1..Len(sent), k \in 1..Len(current) : sent[i].n < current[k].n
  /\ \A i \in 1..Len(sent), k \in 1..Len(queue) : sent[i].n < queue[k].n
  /\ \A i \in 1..Len(current), k \in 1..Len(queue) : current[i].n < queue[k].n
  /\ \A i \in 1..Len(sent) : sent[i].n \in 1..emitted
  /\ \A i \in 1..Len(current) : current[i].n \in 1..emitted
  /\ \A i \in 1..Len(queue) : queue[i].n \in 1..emitted

\* The ring is only touched when it has room.
Ring == BufferIsNewest /\ (worker \in {"locking", "locked"} => BufferLimit > 0)

StreamOK(s) ==
  /\ from[s] <= pos[s] /\ pos[s] <= Len(sent)
  /\ Len(got[s]) + missed[s] = pos[s] - from[s]
  /\ \A i \in 1..Len(got[s]) : got[s][i].seq \in (from[s] + 1)..pos[s]
  /\ \A i, k \in 1..Len(got[s]) : i < k => got[s][i].seq < got[s][k].seq

PipelineInv ==
  /\ TypeOK
  /\ NothingUncounted
  /\ Numbers
  /\ RanksGrow
  /\ Ring
  /\ \A s \in Streams : StreamOK(s)

\* What the samples and the hits pass through.
coreVars == <<emitted, dropped, queue, worker, current, nextSeq, buffer, sent>>

ReaderStep ==
  \/ \E limit \in Limits : GetHits(limit)
  \/ GetHitsBusy
  \/ \E s \in Streams : Connect(s) \/ Deliver(s) \/ Lag(s) \/ Disconnect(s)

\* Readers take nothing out of the pipeline.
LEMMA ReadersOnlyRead == ReaderStep => UNCHANGED coreVars
BY DEF ReaderStep, GetHits, GetHitsBusy, Connect, Deliver, Lag, Disconnect, coreVars, vars
-----------------------------------------------------------------------------
(* Types. *)

\* The first state is well typed.
LEMMA TypeInit == Init => TypeOK
BY DEF Init, TypeOK, Samples, Hits

\* The steps of the callback and the worker keep the types.
LEMMA CoreTypes ==
  ASSUME TypeOK, Ring, (\E src \in Sources : Emit(src)) \/ WorkerStep
  PROVE  TypeOK'
<1>1. ASSUME NEW src \in Sources, Emit(src) PROVE TypeOK'
  <2>1. [src |-> src, n |-> emitted + 1] \in Samples
    BY DEF TypeOK, Samples
  <2>2. queue \in Seq(Samples)
    BY DEF TypeOK
  <2>3. queue' = queue \/ queue' = Append(queue, [src |-> src, n |-> emitted + 1])
    BY <1>1 DEF Emit
  <2>4. queue' \in Seq(Samples)
    BY <2>1, <2>2, <2>3
  <2> QED BY <1>1, <2>4 DEF Emit, TypeOK, streamVars
<1>2. CASE Receive
  <2>1. Head(queue) \in Samples /\ Tail(queue) \in Seq(Samples)
    BY <1>2, HeadTailProperties DEF Receive, TypeOK
  <2>2. current' = <<Head(queue)>>
    BY <1>2 DEF Receive
  <2>3. Len(current') = 1 /\ current'[1] \in Samples
    BY <2>1, <2>2
  <2> QED BY <1>2, <2>1, <2>3 DEF Receive, TypeOK, streamVars
<1>3. CASE MakeHit
  <2>1. current[1] \in Samples /\ nextSeq + 1 \in Nat
    BY <1>3 DEF MakeHit, TypeOK
  <2>2. [seq |-> nextSeq + 1, src |-> current[1].src, n |-> current[1].n] \in Hits
    BY <2>1 DEF Samples, Hits
  <2>3. Len(current') = 1 /\ current'[1] \in Hits
    BY <1>3, <2>2 DEF MakeHit
  <2>4. worker' \in {"locking", "sending"}
    BY <1>3 DEF MakeHit
  <2> QED BY <1>3, <2>1, <2>3, <2>4 DEF MakeHit, TypeOK, streamVars
<1>4. CASE LockBuffer
  BY <1>4 DEF LockBuffer, TypeOK, streamVars
<1>5. CASE PushBuffer
  <2>1. current[1] \in Hits /\ Len(current) = 1
    BY <1>5 DEF PushBuffer, TypeOK
  <2>2. Newest(buffer, BufferLimit - 1) \in Seq(Hits)
    <3>1. BufferLimit - 1 \in Nat /\ buffer \in Seq(Hits)
      BY <1>5, PipelineAssumption DEF PushBuffer, Ring, TypeOK, PipelineAssumption
    <3> QED BY <3>1, NewestProperties
  <2>3. buffer' \in Seq(Hits)
    BY <1>5, <2>1, <2>2 DEF PushBuffer
  <2> QED BY <1>5, <2>1, <2>3 DEF PushBuffer, TypeOK, streamVars
<1>6. CASE SendHit
  <2>1. sent' \in Seq(Hits)
    BY <1>6 DEF SendHit, TypeOK
  <2> QED BY <1>6, <2>1 DEF SendHit, TypeOK, streamVars
<1> QED BY <1>1, <1>2, <1>3, <1>4, <1>5, <1>6 DEF WorkerStep

\* The readers' steps keep the types.
LEMMA ReaderTypes ==
  ASSUME TypeOK, \A s \in Streams : StreamOK(s), ReaderStep
  PROVE  TypeOK'
<1>1. ASSUME NEW limit \in Limits, GetHits(limit) PROVE TypeOK'
  <2>1. answer' \in Seq(Hits)
    BY <1>1, NewestProperties, PipelineAssumption DEF GetHits, TypeOK, PipelineAssumption
  <2> QED BY <1>1, <2>1 DEF GetHits, TypeOK, streamVars
<1>2. CASE GetHitsBusy
  BY <1>2 DEF GetHitsBusy, TypeOK, vars
<1>3. ASSUME NEW s \in Streams, Connect(s) PROVE TypeOK'
  <2>1. <<>> \in Seq(Hits) /\ Len(sent) \in Nat
    BY DEF TypeOK
  <2>2. /\ from' \in [Streams -> Nat] /\ pos' \in [Streams -> Nat]
        /\ got' \in [Streams -> Seq(Hits)] /\ missed' \in [Streams -> Nat]
    BY <1>3, <2>1 DEF Connect, TypeOK
  <2> QED BY <1>3, <2>2 DEF Connect, TypeOK
<1>4. ASSUME NEW s \in Streams, Deliver(s) PROVE TypeOK'
  <2>1. pos[s] \in Nat /\ pos[s] + 1 \in 1..Len(sent)
    BY <1>4, PipelineAssumption DEF Deliver, Behind, TypeOK, PipelineAssumption
  <2>2. Append(got[s], sent[pos[s] + 1]) \in Seq(Hits)
    BY <2>1 DEF TypeOK
  <2>3. got' \in [Streams -> Seq(Hits)] /\ pos' \in [Streams -> Nat]
    BY <1>4, <2>1, <2>2 DEF Deliver, TypeOK
  <2> QED BY <1>4, <2>3 DEF Deliver, TypeOK
<1>5. ASSUME NEW s \in Streams, Lag(s) PROVE TypeOK'
  <2>1. Len(sent) - ChannelCapacity \in Nat /\ missed[s] + (Behind(s) - ChannelCapacity) \in Nat
    BY <1>5, PipelineAssumption DEF Lag, Behind, TypeOK, PipelineAssumption
  <2>2. missed' \in [Streams -> Nat] /\ pos' \in [Streams -> Nat]
    BY <1>5, <2>1 DEF Lag, TypeOK
  <2> QED BY <1>5, <2>2 DEF Lag, TypeOK
<1>6. ASSUME NEW s \in Streams, Disconnect(s) PROVE TypeOK'
  BY <1>6 DEF Disconnect, TypeOK
<1> QED BY <1>1, <1>2, <1>3, <1>4, <1>5, <1>6 DEF ReaderStep
-----------------------------------------------------------------------------
(* Accounting, numbers and ranks. *)

\* Nothing disappears in a step of the callback or of the worker.
LEMMA CountStep ==
  ASSUME TypeOK, NothingUncounted, (\E src \in Sources : Emit(src)) \/ WorkerStep
  PROVE  NothingUncounted'
<1>1. /\ emitted \in Nat /\ dropped \in Nat /\ Len(queue) \in Nat /\ Len(sent) \in Nat
      /\ emitted = dropped + Len(queue) + Len(current) + Len(sent)
  BY DEF TypeOK, NothingUncounted
<1>2. ASSUME NEW src \in Sources, Emit(src) PROVE NothingUncounted'
  <2>1. CASE Accepting
    <3>1. Len(queue') = Len(queue) + 1 /\ emitted' = emitted + 1
          /\ UNCHANGED <<dropped, current, sent>>
      BY <1>2, <2>1 DEF Emit, TypeOK
    <3>2. Len(current) \in Nat
      BY DEF TypeOK
    <3> QED BY <1>1, <3>1, <3>2 DEF NothingUncounted
  <2>2. CASE ~Accepting
    <3>1. dropped' = dropped + 1 /\ emitted' = emitted + 1
          /\ UNCHANGED <<queue, current, sent>>
      BY <1>2, <2>2 DEF Emit
    <3>2. Len(current) \in Nat
      BY DEF TypeOK
    <3> QED BY <1>1, <3>1, <3>2 DEF NothingUncounted
  <2> QED BY <2>1, <2>2
<1>3. CASE Receive
  <2>1. Len(queue') = Len(queue) - 1 /\ Len(current) = 0 /\ Len(current') = 1
        /\ UNCHANGED <<emitted, dropped, sent>>
    BY <1>3, HeadTailProperties DEF Receive, TypeOK
  <2> QED BY <1>1, <2>1 DEF NothingUncounted
<1>4. CASE MakeHit
  <2>1. Len(current) = 1 /\ Len(current') = 1 /\ UNCHANGED <<emitted, dropped, queue, sent>>
    BY <1>4 DEF MakeHit, TypeOK
  <2> QED BY <1>1, <2>1 DEF NothingUncounted
<1>5. CASE LockBuffer \/ PushBuffer
  BY <1>1, <1>5 DEF LockBuffer, PushBuffer, NothingUncounted
<1>6. CASE SendHit
  <2>1. /\ Len(current) = 1 /\ Len(current') = 0 /\ UNCHANGED <<emitted, dropped, queue>>
        /\ Len(sent') = Len(sent) + 1
    BY <1>6 DEF SendHit, TypeOK
  <2> DEFINE c1 == Len(current)
             c2 == Len(current')
             q == Len(queue)
             q2 == Len(queue')
             t == Len(sent)
             t2 == Len(sent')
  <2>2. /\ c1 = 1 /\ c2 = 0 /\ q \in Nat /\ t \in Nat /\ q2 = q /\ t2 = t + 1
        /\ emitted \in Nat /\ dropped \in Nat
        /\ emitted' = emitted /\ dropped' = dropped /\ emitted = dropped + q + c1 + t
    BY <1>1, <2>1
  <2> HIDE DEF c1, c2, q, q2, t, t2
  <2>3. emitted' = dropped' + q2 + c2 + t2
    BY <2>2
  <2> QED BY <2>3 DEF NothingUncounted, q2, c2, t2
<1> QED BY <1>2, <1>3, <1>4, <1>5, <1>6 DEF WorkerStep

\* Hits are numbered in the order in which they are sent.
LEMMA NumbersStep ==
  ASSUME TypeOK, Numbers, (\E src \in Sources : Emit(src)) \/ WorkerStep
  PROVE  Numbers'
<1>1. ASSUME NEW src \in Sources, Emit(src) PROVE Numbers'
  BY <1>1 DEF Emit, Numbers, Holding
<1>2. CASE Receive
  BY <1>2 DEF Receive, Numbers, Holding
<1>3. CASE MakeHit
  <2>1. worker' \in {"locking", "sending"} /\ nextSeq' = nextSeq + 1 /\ sent' = sent
        /\ current'[1].seq = nextSeq + 1 /\ ~Holding
    BY <1>3 DEF MakeHit, Holding
  <2> QED BY <2>1 DEF Numbers, Holding
<1>4. CASE LockBuffer \/ PushBuffer
  BY <1>4 DEF LockBuffer, PushBuffer, Numbers, Holding
<1>5. CASE SendHit
  <2>1. /\ worker' = "recv" /\ nextSeq' = nextSeq /\ Holding /\ ~Holding'
        /\ sent' = Append(sent, current[1])
    BY <1>5 DEF SendHit, Holding
  <2>2. /\ Len(sent) \in Nat /\ Len(sent') = Len(sent) + 1
        /\ sent'[Len(sent) + 1] = current[1]
        /\ \A i \in 1..Len(sent) : sent'[i] = sent[i]
    BY <2>1 DEF TypeOK
  <2>3. ASSUME NEW i \in 1..Len(sent') PROVE sent'[i].seq = i
    BY <2>1, <2>2 DEF Numbers
  <2> QED BY <2>1, <2>2, <2>3 DEF Numbers
<1> QED BY <1>1, <1>2, <1>3, <1>4, <1>5 DEF WorkerStep

\* Samples keep their order on the way through the queue and the worker.
LEMMA RanksStep ==
  ASSUME TypeOK, RanksGrow, (\E src \in Sources : Emit(src)) \/ WorkerStep
  PROVE  RanksGrow'
<1>1. ASSUME NEW src \in Sources, Emit(src) PROVE RanksGrow'
  <2>1. /\ emitted \in Nat /\ emitted' = emitted + 1 /\ emitted' <= MaxSamples
        /\ UNCHANGED <<current, sent>>
    BY <1>1, PipelineAssumption DEF Emit, TypeOK, PipelineAssumption
  <2>2. CASE UNCHANGED queue
    BY <2>1, <2>2 DEF RanksGrow
  <2>3. CASE queue' = Append(queue, [src |-> src, n |-> emitted + 1])
    <3>1. /\ Len(queue) \in Nat /\ Len(queue') = Len(queue) + 1
          /\ queue'[Len(queue) + 1].n = emitted + 1
          /\ \A i \in 1..Len(queue) : queue'[i] = queue[i]
      BY <2>3 DEF TypeOK
    <3>2. ASSUME NEW k \in 1..Len(queue')
          PROVE  /\ queue'[k].n \in 1..emitted'
                 /\ \A i \in 1..Len(queue') : i < k => queue'[i].n < queue'[k].n
                 /\ \A i \in 1..Len(sent) : sent[i].n < queue'[k].n
                 /\ \A i \in 1..Len(current) : current[i].n < queue'[k].n
      <4>1. CASE k \in 1..Len(queue)
        <5>1. queue'[k] = queue[k] /\ \A i \in 1..Len(queue') : i < k => i \in 1..Len(queue)
          BY <3>1, <4>1
        <5>2. queue[k].n \in 1..emitted /\ \A i \in 1..Len(queue) : i < k => queue[i].n < queue[k].n
          BY <4>1 DEF RanksGrow
        <5>3. /\ \A i \in 1..Len(sent) : sent[i].n < queue[k].n
              /\ \A i \in 1..Len(current) : current[i].n < queue[k].n
          BY <4>1 DEF RanksGrow
        <5>4. queue[k].n \in 1..emitted'
          BY <2>1, <5>2
        <5> QED BY <3>1, <5>1, <5>2, <5>3, <5>4
      <4>2. CASE k = Len(queue) + 1
        <5>1. queue'[k].n = emitted + 1 /\ \A i \in 1..Len(queue') : i < k => i \in 1..Len(queue)
          BY <3>1, <4>2
        <5>2. \A i \in 1..Len(queue) : queue'[i].n < emitted + 1
          BY <2>1, <3>1 DEF RanksGrow
        <5>3. /\ \A i \in 1..Len(sent) : sent[i].n < emitted + 1
              /\ \A i \in 1..Len(current) : current[i].n < emitted + 1
          BY <2>1 DEF RanksGrow
        <5> QED BY <2>1, <5>1, <5>2, <5>3
      <4> QED BY <3>1, <4>1, <4>2
    <3>3. /\ \A i \in 1..Len(sent) : sent'[i].n \in 1..emitted'
          /\ \A i \in 1..Len(current) : current'[i].n \in 1..emitted'
      BY <2>1 DEF RanksGrow
    <3> QED BY <2>1, <3>2, <3>3 DEF RanksGrow
  <2> QED BY <1>1, <2>2, <2>3 DEF Emit
<1>2. CASE Receive
  <2>1. /\ Len(queue) \in Nat /\ 1 \in 1..Len(queue) /\ Head(queue) = queue[1]
        /\ Len(queue') = Len(queue) - 1
        /\ \A i \in 1..Len(queue') : i + 1 \in 1..Len(queue) /\ queue'[i] = queue[i + 1]
    BY <1>2, HeadTailProperties DEF Receive, TypeOK
  <2>2. /\ current' = <<queue[1]>> /\ Len(current') = 1 /\ current'[1] = queue[1]
        /\ UNCHANGED <<emitted, sent>>
    BY <1>2, <2>1 DEF Receive
  <2>3. \A i, k \in 1..Len(queue') : i < k => queue'[i].n < queue'[k].n
    <3> SUFFICES ASSUME NEW i \in 1..Len(queue'), NEW k \in 1..Len(queue'), i < k
                 PROVE  queue'[i].n < queue'[k].n
      OBVIOUS
    <3>1. i + 1 \in 1..Len(queue) /\ k + 1 \in 1..Len(queue) /\ i + 1 < k + 1
      BY <2>1
    <3> QED BY <2>1, <3>1 DEF RanksGrow
  <2>4. \A i \in 1..Len(current'), k \in 1..Len(queue') : current'[i].n < queue'[k].n
    <3> SUFFICES ASSUME NEW k \in 1..Len(queue') PROVE queue[1].n < queue'[k].n
      BY <2>2
    <3>1. k + 1 \in 1..Len(queue) /\ 1 < k + 1 /\ queue'[k] = queue[k + 1]
      BY <2>1
    <3> QED BY <2>1, <3>1 DEF RanksGrow
  <2>5. \A i \in 1..Len(queue') : queue'[i].n \in 1..emitted
    BY <2>1 DEF RanksGrow
  <2>6. \A i \in 1..Len(sent), k \in 1..Len(queue') : sent[i].n < queue'[k].n
    BY <2>1 DEF RanksGrow
  <2>7. \A i \in 1..Len(current') : current'[i].n \in 1..emitted
    BY <2>1, <2>2 DEF RanksGrow
  <2>8. \A i \in 1..Len(sent), k \in 1..Len(current') : sent[i].n < current'[k].n
    BY <2>1, <2>2 DEF RanksGrow
  <2> QED BY <2>2, <2>3, <2>4, <2>5, <2>6, <2>7, <2>8 DEF RanksGrow
<1>3. CASE MakeHit
  <2>1. /\ Len(current) = 1 /\ Len(current') = 1 /\ current'[1].n = current[1].n
        /\ UNCHANGED <<emitted, queue, sent>>
    BY <1>3 DEF MakeHit, TypeOK
  <2> QED BY <2>1 DEF RanksGrow
<1>4. CASE LockBuffer \/ PushBuffer
  BY <1>4 DEF LockBuffer, PushBuffer, RanksGrow
<1>5. CASE SendHit
  <2>1. /\ Len(current) = 1 /\ Len(current') = 0 /\ UNCHANGED <<emitted, queue>>
        /\ sent' = Append(sent, current[1])
    BY <1>5 DEF SendHit, TypeOK
  <2>2. /\ Len(sent) \in Nat /\ Len(sent') = Len(sent) + 1
        /\ sent'[Len(sent) + 1] = current[1]
        /\ \A i \in 1..Len(sent) : sent'[i] = sent[i]
    BY <2>1 DEF TypeOK
  <2>3. ASSUME NEW i \in 1..Len(sent'), NEW k \in 1..Len(sent'), i < k
        PROVE  sent'[i].n < sent'[k].n
    <3>1. i \in 1..Len(sent) /\ sent'[i] = sent[i]
      BY <2>2, <2>3
    <3>2. CASE k \in 1..Len(sent)
      BY <2>2, <2>3, <3>1, <3>2 DEF RanksGrow
    <3>3. CASE k = Len(sent) + 1
      BY <2>1, <2>2, <3>1, <3>3 DEF RanksGrow
    <3> QED BY <2>2, <3>2, <3>3
  <2>4. \A i \in 1..Len(sent') : sent'[i].n \in 1..emitted
    BY <2>1, <2>2 DEF RanksGrow
  <2>5. \A i \in 1..Len(sent'), k \in 1..Len(queue) : sent'[i].n < queue[k].n
    BY <2>1, <2>2 DEF RanksGrow
  <2> QED BY <2>1, <2>3, <2>4, <2>5 DEF RanksGrow
<1> QED BY <1>1, <1>2, <1>3, <1>4, <1>5 DEF WorkerStep
-----------------------------------------------------------------------------
(* The ring. *)

\* h comes after everything in log.
IsNext(log, h) ==
  /\ h \in Hits /\ h.seq = Len(log) + 1 /\ h.n \in 1..MaxSamples
  /\ \A i \in 1..Len(log) : log[i].n < h.n

\* The step adds h to the log and to the ring.
Adds(h) ==
  /\ IsNext(Pushed, h)
  /\ Pushed' = Append(Pushed, h)
  /\ buffer' = Newest(Append(Pushed, h), BufferLimit)

\* The log grows by a hit that comes after all others, together with the ring.
LEMMA PushedStep ==
  ASSUME TypeOK, Numbers, RanksGrow, Ring,
         (\E src \in Sources : Emit(src)) \/ WorkerStep
  PROVE  \/ Pushed' = Pushed /\ buffer' = buffer
         \/ \E h \in Hits : Adds(h)
<1>1. CASE \E src \in Sources : Emit(src)
  BY <1>1 DEF Emit, Pushed
<1>2. CASE Receive \/ LockBuffer
  BY <1>2 DEF Receive, LockBuffer, Pushed
<1>3. CASE MakeHit
  <2> DEFINE h == [seq |-> nextSeq + 1, src |-> current[1].src, n |-> current[1].n]
  <2>1. /\ Pushed = sent /\ sent' = sent /\ buffer' = buffer /\ current' = <<h>>
        /\ worker' = (IF BufferLimit > 0 THEN "locking" ELSE "sending")
    BY <1>3 DEF MakeHit, Pushed
  <2>2. CASE BufferLimit > 0
    BY <2>1, <2>2 DEF Pushed
  <2>3. CASE ~(BufferLimit > 0)
    <3>1. BufferLimit = 0
      BY <2>3, PipelineAssumption DEF PipelineAssumption
    <3>2. /\ current[1] \in Samples /\ Len(current) = 1 /\ nextSeq \in Nat
          /\ sent \in Seq(Hits)
      BY <1>3 DEF MakeHit, TypeOK
    <3>3. h \in Hits /\ h.seq = nextSeq + 1 /\ h.n = current[1].n
      BY <3>2 DEF Samples, Hits
    <3>4. h.seq = Len(sent) + 1
      BY <1>3, <3>3 DEF MakeHit, Numbers, Holding
    <3>5. h.n \in 1..MaxSamples /\ \A i \in 1..Len(sent) : sent[i].n < h.n
      BY <3>2, <3>3, PipelineAssumption DEF RanksGrow, TypeOK, PipelineAssumption
    <3> HIDE DEF h
    <3>6. Pushed' = Append(sent, h)
      BY <2>1, <2>3 DEF Pushed
    <3>7. buffer = <<>> /\ Newest(Append(sent, h), 0) = <<>>
      <4>1. buffer = Newest(sent, 0)
        BY <2>1, <3>1 DEF Ring, BufferIsNewest
      <4>2. Append(sent, h) \in Seq(Hits)
        BY <3>2, <3>3
      <4> QED BY <3>2, <4>1, <4>2, NewestZero
    <3> QED BY <2>1, <3>1, <3>3, <3>4, <3>5, <3>6, <3>7 DEF Adds, IsNext
  <2> QED BY <2>2, <2>3
<1>4. CASE PushBuffer
  <2> DEFINE h == current[1]
  <2>1. /\ Pushed = sent /\ Pushed' = Append(sent, h)
        /\ buffer' = Append(Newest(buffer, BufferLimit - 1), h)
    BY <1>4 DEF PushBuffer, Pushed
  <2>2. h \in Hits /\ Len(current) = 1 /\ sent \in Seq(Hits) /\ h.seq = Len(sent) + 1
    BY <1>4 DEF PushBuffer, TypeOK, Numbers, Holding
  <2>3. h.n \in 1..MaxSamples /\ \A i \in 1..Len(sent) : sent[i].n < h.n
    BY <2>2, PipelineAssumption DEF RanksGrow, TypeOK, PipelineAssumption
  <2>4. BufferLimit \in Nat \ {0} /\ buffer = Newest(sent, BufferLimit)
    BY <1>4, <2>1, PipelineAssumption DEF PushBuffer, Ring, BufferIsNewest, PipelineAssumption
  <2> HIDE DEF h
  <2>5. buffer' = Newest(Append(sent, h), BufferLimit)
    BY <2>1, <2>2, <2>4, NewestOfAppend
  <2> QED BY <2>1, <2>2, <2>3, <2>5 DEF Adds, IsNext
<1>5. CASE SendHit
  BY <1>5 DEF SendHit, Pushed
<1> QED BY <1>1, <1>2, <1>3, <1>4, <1>5 DEF WorkerStep

\* The ring stays the newest part of the log.
LEMMA RingStep ==
  ASSUME TypeOK, Numbers, RanksGrow, Ring,
         (\E src \in Sources : Emit(src)) \/ WorkerStep
  PROVE  Ring'
<1>1. BufferIsNewest'
  <2>1. CASE Pushed' = Pushed /\ buffer' = buffer
    <3>1. buffer = Newest(Pushed, BufferLimit)
      BY DEF Ring, BufferIsNewest
    <3>2. buffer' = Newest(Pushed', BufferLimit)
      BY <2>1, <3>1
    <3> QED BY <3>2 DEF BufferIsNewest, Newest
  <2>2. ASSUME NEW h \in Hits, Adds(h) PROVE BufferIsNewest'
    <3>1. buffer' = Newest(Pushed', BufferLimit)
      BY <2>2 DEF Adds
    <3> QED BY <3>1 DEF BufferIsNewest, Newest
  <2> QED BY <2>1, <2>2, PushedStep
<1>2. worker' \in {"locking", "locked"} => BufferLimit > 0
  BY DEF Ring, WorkerStep, Emit, Receive, MakeHit, LockBuffer, PushBuffer, SendHit
<1> QED BY <1>1, <1>2 DEF Ring
-----------------------------------------------------------------------------
(* The streams. *)

\* Streams do not notice what the callback and the worker do.
LEMMA StreamsWait ==
  ASSUME TypeOK, \A s \in Streams : StreamOK(s),
         (\E src \in Sources : Emit(src)) \/ WorkerStep
  PROVE  \A s \in Streams : StreamOK(s)'
<1>1. UNCHANGED streamVars /\ Len(sent) \in Nat /\ Len(sent') \in Nat /\ Len(sent') >= Len(sent)
  <2>1. CASE SendHit
    BY <2>1 DEF SendHit, TypeOK
  <2>2. CASE ~SendHit
    <3>1. UNCHANGED streamVars /\ sent' = sent
      BY <2>2 DEF WorkerStep, Emit, Receive, MakeHit, LockBuffer, PushBuffer
    <3>2. Len(sent) \in Nat
      BY DEF TypeOK
    <3> QED BY <3>1, <3>2
  <2> QED BY <2>1, <2>2
<1>2. ASSUME NEW s \in Streams PROVE StreamOK(s)'
  <2>1. from[s] \in Nat /\ pos[s] \in Nat
    BY DEF TypeOK
  <2>2. from' = from /\ pos' = pos /\ got' = got /\ missed' = missed
    BY <1>1 DEF streamVars
  <2> QED BY <1>1, <2>1, <2>2 DEF StreamOK
<1> QED BY <1>2

\* Each step of a reader keeps the account of every stream.
LEMMA StreamStep ==
  ASSUME TypeOK, Numbers, \A s \in Streams : StreamOK(s), ReaderStep,
         NEW s \in Streams
  PROVE  StreamOK(s)'
<1>1. /\ from[s] \in Nat /\ pos[s] \in Nat /\ missed[s] \in Nat /\ got[s] \in Seq(Hits)
      /\ Len(got[s]) \in Nat /\ Len(sent) \in Nat /\ sent \in Seq(Hits)
      /\ from \in [Streams -> Nat] /\ pos \in [Streams -> Nat]
      /\ missed \in [Streams -> Nat] /\ got \in [Streams -> Seq(Hits)]
  BY DEF TypeOK
<1>2. sent' = sent
  BY ReadersOnlyRead DEF coreVars
<1>3. ASSUME from'[s] = from[s], pos'[s] = pos[s], got'[s] = got[s], missed'[s] = missed[s]
      PROVE  StreamOK(s)'
  BY <1>2, <1>3 DEF StreamOK
<1>4. CASE (\E limit \in Limits : GetHits(limit)) \/ GetHitsBusy
  BY <1>3, <1>4 DEF GetHits, GetHitsBusy, streamVars, vars
<1>5. ASSUME NEW r \in Streams, Connect(r) \/ Deliver(r) \/ Lag(r) \/ Disconnect(r), r # s
      PROVE  StreamOK(s)'
  BY <1>1, <1>3, <1>5 DEF Connect, Deliver, Lag, Disconnect
<1>6. CASE Connect(s)
  <2>1. from'[s] = Len(sent) /\ pos'[s] = Len(sent) /\ got'[s] = <<>> /\ missed'[s] = 0
    BY <1>1, <1>6 DEF Connect
  <2> QED BY <1>1, <1>2, <2>1 DEF StreamOK
<1>7. CASE Deliver(s)
  <2> DEFINE h == sent[pos[s] + 1]
             g == got[s]
             g2 == got'[s]
  <2>1. /\ from'[s] = from[s] /\ pos'[s] = pos[s] + 1 /\ missed'[s] = missed[s]
        /\ g2 = Append(g, h)
    BY <1>1, <1>7 DEF Deliver
  <2>2. pos[s] + 1 \in 1..Len(sent)
    BY <1>1, <1>7, PipelineAssumption DEF Deliver, Behind, PipelineAssumption
  <2>3. h \in Hits /\ h.seq = pos[s] + 1
    BY <1>1, <2>2 DEF Numbers
  <2>4. /\ from[s] <= pos[s] /\ Len(g) + missed[s] = pos[s] - from[s]
        /\ \A i \in 1..Len(g) : g[i].seq \in (from[s] + 1)..pos[s]
        /\ \A i, k \in 1..Len(g) : i < k => g[i].seq < g[k].seq
    BY DEF StreamOK
  <2> HIDE DEF h
  <2>5. /\ Len(g2) = Len(g) + 1 /\ g2[Len(g) + 1] = h
        /\ \A i \in 1..Len(g) : g2[i] = g[i]
    BY <1>1, <2>1, <2>3
  <2> HIDE DEF g, g2
  <2>6. Len(g) \in Nat
    BY <1>1 DEF g
  <2>7. \A i \in 1..Len(g2) : g2[i].seq \in (from[s] + 1)..(pos[s] + 1)
    <3> SUFFICES ASSUME NEW i \in 1..Len(g2)
                 PROVE  g2[i].seq \in (from[s] + 1)..(pos[s] + 1)
      OBVIOUS
    <3>1. CASE i \in 1..Len(g)
      <4>1. g2[i].seq \in (from[s] + 1)..pos[s]
        BY <2>4, <2>5, <3>1
      <4> QED BY <1>1, <4>1
    <3>2. CASE i = Len(g) + 1
      <4>1. g2[i].seq = pos[s] + 1
        BY <2>3, <2>5, <3>2
      <4> QED BY <1>1, <2>4, <4>1
    <3> QED BY <2>5, <2>6, <3>1, <3>2
  <2>8. \A i, k \in 1..Len(g2) : i < k => g2[i].seq < g2[k].seq
    <3> SUFFICES ASSUME NEW i \in 1..Len(g2), NEW k \in 1..Len(g2), i < k
                 PROVE  g2[i].seq < g2[k].seq
      OBVIOUS
    <3>1. i \in 1..Len(g)
      BY <2>5, <2>6
    <3>2. CASE k \in 1..Len(g)
      BY <2>4, <2>5, <3>1, <3>2
    <3>3. CASE k = Len(g) + 1
      <4>1. g2[i].seq \in (from[s] + 1)..pos[s]
        BY <2>4, <2>5, <3>1
      <4>2. g2[k].seq = pos[s] + 1
        BY <2>3, <2>5, <3>3
      <4> QED BY <1>1, <4>1, <4>2
    <3> QED BY <2>5, <2>6, <3>2, <3>3
  <2>9. Len(g2) + missed'[s] = pos'[s] - from'[s] /\ from'[s] <= pos'[s] /\ pos'[s] <= Len(sent)
    BY <1>1, <2>1, <2>2, <2>4, <2>5, <2>6
  <2> QED BY <1>2, <2>1, <2>7, <2>8, <2>9 DEF StreamOK, g2
<1>8. CASE Lag(s)
  <2>1. /\ from'[s] = from[s] /\ pos'[s] = Len(sent) - ChannelCapacity /\ got'[s] = got[s]
        /\ missed'[s] = missed[s] + ((Len(sent) - pos[s]) - ChannelCapacity)
        /\ Len(sent) - pos[s] > ChannelCapacity
    BY <1>1, <1>8 DEF Lag, Behind
  <2>2. ChannelCapacity \in Nat
    BY PipelineAssumption DEF PipelineAssumption
  <2>3. pos'[s] > pos[s] /\ pos'[s] \in Nat /\ pos'[s] <= Len(sent)
    BY <1>1, <2>1, <2>2
  <2>4. /\ Len(got[s]) + missed[s] = pos[s] - from[s] /\ from[s] <= pos[s]
        /\ \A i \in 1..Len(got[s]) : got[s][i].seq \in (from[s] + 1)..pos[s]
        /\ \A i, k \in 1..Len(got[s]) : i < k => got[s][i].seq < got[s][k].seq
    BY DEF StreamOK
  <2>5. Len(got'[s]) + missed'[s] = pos'[s] - from'[s] /\ from'[s] <= pos'[s]
    <3> DEFINE g == Len(got[s])
               t == Len(sent)
    <3>1. /\ g \in Nat /\ t \in Nat /\ missed[s] \in Nat
          /\ g + missed[s] = pos[s] - from[s] /\ from[s] <= pos[s] /\ t - pos[s] > ChannelCapacity
          /\ from[s] \in Nat /\ pos[s] \in Nat /\ ChannelCapacity \in Nat
      BY <1>1, <2>1, <2>2, <2>4
    <3>2. /\ Len(got'[s]) = g /\ from'[s] = from[s] /\ pos'[s] = t - ChannelCapacity
          /\ missed'[s] = missed[s] + ((t - pos[s]) - ChannelCapacity)
      BY <2>1
    <3> HIDE DEF g, t
    <3>3. g + (missed[s] + ((t - pos[s]) - ChannelCapacity)) = (t - ChannelCapacity) - from[s]
      BY <3>1
    <3>4. from[s] <= t - ChannelCapacity
      BY <3>1
    <3> QED BY <3>2, <3>3, <3>4
  <2>6. \A i \in 1..Len(got[s]) : got[s][i].seq \in (from[s] + 1)..pos'[s]
    BY <1>1, <2>3, <2>4
  <2> QED BY <1>2, <2>1, <2>3, <2>4, <2>5, <2>6 DEF StreamOK
<1>9. CASE Disconnect(s)
  BY <1>3, <1>9 DEF Disconnect
<1> QED BY <1>4, <1>5, <1>6, <1>7, <1>8, <1>9 DEF ReaderStep
-----------------------------------------------------------------------------
(* The theorems. *)

\* The invariant holds at first.
LEMMA PipelineInit == Init => PipelineInv
<1> SUFFICES ASSUME Init PROVE PipelineInv
  OBVIOUS
<1>1. TypeOK
  BY TypeInit
<1>2. /\ emitted = 0 /\ dropped = 0 /\ nextSeq = 0 /\ worker \in {"recv", "absent"}
      /\ Len(queue) = 0 /\ Len(current) = 0 /\ Len(sent) = 0 /\ Len(buffer) = 0
      /\ buffer = <<>> /\ sent = <<>>
  BY DEF Init
<1>3. NothingUncounted /\ Numbers
  BY <1>2 DEF NothingUncounted, Numbers, Holding
<1>4. RanksGrow
  BY <1>2, PipelineAssumption DEF RanksGrow, PipelineAssumption
<1>5. Ring
  BY <1>2, PipelineAssumption DEF Ring, BufferIsNewest, Pushed, Newest, PipelineAssumption
<1>6. ASSUME NEW s \in Streams PROVE StreamOK(s)
  BY <1>2 DEF Init, StreamOK
<1> QED BY <1>1, <1>3, <1>4, <1>5, <1>6 DEF PipelineInv

\* Every step keeps it.
LEMMA PipelineStep == PipelineInv /\ [Next]_vars => PipelineInv'
<1> SUFFICES ASSUME PipelineInv, [Next]_vars PROVE PipelineInv'
  OBVIOUS
<1> USE DEF PipelineInv
<1>1. CASE (\E src \in Sources : Emit(src)) \/ WorkerStep
  BY <1>1, CoreTypes, CountStep, NumbersStep, RanksStep, RingStep, StreamsWait
<1>2. ASSUME UNCHANGED coreVars
      PROVE  NothingUncounted' /\ Numbers' /\ RanksGrow' /\ Ring'
  BY <1>2 DEF coreVars, NothingUncounted, Numbers, RanksGrow, Ring, BufferIsNewest,
              Pushed, Newest, Holding
<1>3. CASE ReaderStep
  BY <1>2, <1>3, ReadersOnlyRead, ReaderTypes, StreamStep
<1>4. CASE UNCHANGED vars
  <2>1. UNCHANGED coreVars
    BY <1>4 DEF vars, coreVars
  <2>2. TypeOK'
    BY <1>4 DEF vars, streamVars, TypeOK
  <2>3. ASSUME NEW s \in Streams PROVE StreamOK(s)'
    BY <1>4 DEF vars, streamVars, StreamOK
  <2> QED BY <1>2, <2>1, <2>2, <2>3
<1> QED BY <1>1, <1>3, <1>4 DEF Next, ReaderStep

\* The invariant holds in every state of callback, hit worker and streams
\* (server.rs).
THEOREM PipelineCorrect == Spec => []PipelineInv
BY PipelineInit, PipelineStep, PTL DEF Spec

\* The queue, the ring, the channel and the receivers keep their types, and
\* what the hit worker holds fits where it is (server.rs, spawn_hit_worker).
THEOREM PipelineTypeCorrect == Spec => []TypeOK
<1>1. PipelineInv => TypeOK
  BY DEF PipelineInv
<1> QED BY <1>1, PipelineCorrect, PTL

\* Each sample handed to the callback of create_breakpoint_inner is counted as
\* dropped, on its way, or broadcast, whatever the capacities.
THEOREM NoSampleLost == Spec => []NothingUncounted
<1>1. PipelineInv => NothingUncounted
  BY DEF PipelineInv
<1> QED BY <1>1, PipelineCorrect, PTL

\* The hit worker broadcasts hits numbered without gaps (HitFactory) and in the
\* order in which their samples were taken.
THEOREM HitsInOrder == Spec => []OrderKept
<1>1. PipelineInv => OrderKept
  BY DEF PipelineInv, Numbers, RanksGrow, OrderKept
<1> QED BY <1>1, PipelineCorrect, PTL

\* The ring that push_hit fills holds the newest hits, as many as its limit
\* allows, also when that is 0.
THEOREM RingIsNewest == Spec => []BufferIsNewest
<1>1. PipelineInv => BufferIsNewest
  BY DEF PipelineInv, Ring
<1> QED BY <1>1, PipelineCorrect, PTL

\* What GET /hits/stream sent and what the channel overwrote add up, without
\* repetition, to what was broadcast since the stream subscribed.
THEOREM StreamsAccounted == Spec => []StreamAccounting
<1>1. PipelineInv => StreamAccounting
  BY DEF PipelineInv, StreamOK, StreamAccounting
<1> QED BY <1>1, PipelineCorrect, PTL
-----------------------------------------------------------------------------
(* Refinement. *)

\* The log that HitFeed sees is at most one hit ahead of the broadcast ones.
LEMMA LogProperties ==
  ASSUME TypeOK
  PROVE  /\ Pushed \in Seq(Hits) /\ Len(Pushed) \in Nat /\ Len(sent) \in Nat
         /\ Len(sent) <= Len(Pushed)
         /\ \A i \in 1..Len(sent) : Pushed[i] = sent[i]
<1>1. sent \in Seq(Hits) /\ Len(sent) \in Nat
  BY DEF TypeOK
<1>2. CASE worker = "sending"
  <2>1. current[1] \in Hits /\ Pushed = Append(sent, current[1])
    BY <1>2 DEF TypeOK, Pushed
  <2> QED BY <1>1, <2>1
<1>3. CASE worker # "sending"
  BY <1>1, <1>3 DEF Pushed
<1> QED BY <1>2, <1>3

\* Each step of the pipeline is a step of HitFeed or none.
LEMMA FeedStep == PipelineInv /\ [Next]_vars => [Feed!FeedNext]_(Feed!feedVars)
<1> SUFFICES ASSUME PipelineInv, [Next]_vars
             PROVE  Feed!FeedNext \/ UNCHANGED Feed!feedVars
  OBVIOUS
<1>1. TypeOK /\ Numbers /\ RanksGrow /\ Ring /\ \A s \in Streams : StreamOK(s)
  BY DEF PipelineInv
<1>2. CASE (\E src \in Sources : Emit(src)) \/ WorkerStep
  <2>1. UNCHANGED <<answer, pos, got>>
    BY <1>2 DEF WorkerStep, Emit, Receive, MakeHit, LockBuffer, PushBuffer, SendHit, streamVars
  <2>2. CASE Pushed' = Pushed /\ buffer' = buffer
    BY <2>1, <2>2 DEF Feed!feedVars
  <2>3. ASSUME NEW h \in Hits, Adds(h) PROVE Feed!FeedNext
    <3>1. h = [seq |-> Len(Pushed) + 1, src |-> h.src, n |-> h.n] /\ h.src \in Sources
      BY <2>3 DEF Adds, IsNext, Hits
    <3>2. /\ h.n \in 1..MaxSamples /\ \A i \in 1..Len(Pushed) : Pushed[i].n < h.n
          /\ Pushed' = Append(Pushed, h) /\ buffer' = Newest(Pushed', BufferLimit)
      BY <2>3 DEF Adds, IsNext
    <3>3. buffer' = Feed!Newest(Pushed', BufferLimit)
      BY <3>2 DEF Newest, Feed!Newest
    <3>4. Feed!Record
      BY <2>1, <3>1, <3>2, <3>3 DEF Feed!Record
    <3> QED BY <3>4 DEF Feed!FeedNext
  <2> QED BY <1>1, <1>2, <2>2, <2>3, PushedStep
<1>3. ASSUME ReaderStep PROVE Pushed' = Pushed /\ buffer' = buffer /\ sent' = sent
  BY <1>3, ReadersOnlyRead DEF coreVars, Pushed
<1>4. ASSUME NEW limit \in Limits, GetHits(limit) PROVE Feed!FeedNext
  <2>1. Pushed' = Pushed /\ buffer' = buffer
    BY <1>3, <1>4 DEF ReaderStep
  <2>2. Feed!Read(limit)
    BY <1>4, <2>1 DEF GetHits, streamVars, Feed!Read, Newest, Feed!Newest
  <2> QED BY <2>2 DEF Feed!FeedNext
<1>5. CASE GetHitsBusy \/ UNCHANGED vars
  BY <1>5 DEF GetHitsBusy, vars, streamVars, Pushed, Feed!feedVars
<1>6. ASSUME NEW s \in Streams, Connect(s) PROVE Feed!FeedNext
  <2>1. Pushed' = Pushed /\ buffer' = buffer
    BY <1>3, <1>6 DEF ReaderStep
  <2>2. Len(sent) \in 0..Len(Pushed)
    BY <1>1, LogProperties
  <2>3. Feed!Subscribe(s)
    BY <1>6, <2>1, <2>2 DEF Connect, Feed!Subscribe
  <2> QED BY <2>3 DEF Feed!FeedNext
<1>7. ASSUME NEW s \in Streams, Deliver(s) PROVE Feed!FeedNext
  <2>1. Pushed' = Pushed /\ buffer' = buffer
    BY <1>3, <1>7 DEF ReaderStep
  <2>2. pos[s] \in Nat /\ pos[s] + 1 \in 1..Len(sent)
    BY <1>1, <1>7, PipelineAssumption DEF Deliver, Behind, TypeOK, PipelineAssumption
  <2>3. pos[s] + 1 \in (pos[s] + 1)..Len(Pushed) /\ Pushed[pos[s] + 1] = sent[pos[s] + 1]
    BY <1>1, <2>2, LogProperties
  <2>4. /\ pos' = [pos EXCEPT ![s] = pos[s] + 1]
        /\ got' = [got EXCEPT ![s] = Append(got[s], Pushed[pos[s] + 1])]
        /\ answer' = answer
    BY <1>7, <2>3 DEF Deliver
  <2>5. Feed!Show(s)
    BY <2>1, <2>3, <2>4 DEF Feed!Show
  <2> QED BY <2>5 DEF Feed!FeedNext
<1>8. ASSUME NEW s \in Streams, Lag(s) PROVE Feed!FeedNext
  <2>1. Pushed' = Pushed /\ buffer' = buffer
    BY <1>3, <1>8 DEF ReaderStep
  <2>2. Len(sent) - ChannelCapacity \in (pos[s] + 1)..Len(Pushed)
    <3>1. pos[s] \in Nat /\ ChannelCapacity \in Nat
      BY <1>1, PipelineAssumption DEF TypeOK, PipelineAssumption
    <3>2. Len(sent) \in Nat /\ Len(Pushed) \in Nat /\ Len(sent) <= Len(Pushed)
      BY <1>1, LogProperties
    <3>3. Len(sent) - pos[s] > ChannelCapacity
      BY <1>8 DEF Lag, Behind
    <3> QED BY <3>1, <3>2, <3>3
  <2>3. Feed!Skip(s)
    BY <1>8, <2>1, <2>2 DEF Lag, Feed!Skip
  <2> QED BY <2>3 DEF Feed!FeedNext
<1>9. ASSUME NEW s \in Streams, Disconnect(s) PROVE UNCHANGED Feed!feedVars
  BY <1>3, <1>9 DEF ReaderStep, Disconnect, Feed!feedVars
<1> QED BY <1>2, <1>4, <1>5, <1>6, <1>7, <1>8, <1>9 DEF Next

\* The first state of the pipeline is one of HitFeed.
LEMMA FeedStart == Init => Feed!FeedInit
BY DEF Init, Pushed, Feed!FeedInit

\* With all its queues, threads, locks and capacities, the pipeline keeps the
\* promise of HitFeed to the readers of hits.
THEOREM PipelineImplementsFeed == Spec => ImplementsFeed
<1>1. Spec => []PipelineInv
  BY PipelineCorrect
<1> QED BY <1>1, FeedStart, FeedStep, PTL DEF Spec, ImplementsFeed, Feed!FeedSpec
=============================================================================
