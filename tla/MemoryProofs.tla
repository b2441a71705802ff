---------------------------- MODULE MemoryProofs ----------------------------
(***************************************************************************)
(* Proofs about the memory handlers, for any number of requests, ranges    *)
(* and bytes: what a request may touch, what its answer means for the      *)
(* memory, and how its bytes are laid out in rows.                         *)
(***************************************************************************)
EXTENDS Memory, PartsProofs, SequenceTheorems

(***************************************************************************)
(* The inductive invariant.  NoStaleByte speaks of acknowledged writes     *)
(* only.  It needs to know of every write that its bytes, from the moment  *)
(* the ioctl copies them, are only replaced by calls that had not been     *)
(* answered for good when it came (WrittenFresh); and that is so because   *)
(* such an answer is only given when the driver is done with the call      *)
(* (AnsweredIsOver).                                                       *)
(***************************************************************************)
MemoryTypeOK ==
  /\ request \in [Jobs -> Requests]
  /\ mem \in [Addrs -> Jobs \cup {Untouched}]
  /\ copied \in [Jobs -> 0..MaxBytes]
  /\ data \in [Jobs -> Seq(Jobs \cup {Untouched})]
  /\ status \in [Jobs -> {0, 200, 400, 502}]
  /\ settled \in [Jobs -> SUBSET Jobs]

\* A call that was spawned asks for a valid range, and one that was not has
\* done nothing.
CallsValid ==
  \A j \in Jobs : IF job[j] = "none" THEN copied[j] = 0 /\ data[j] = <<>>
                  ELSE Valid(request[j]) /\ copied[j] <= request[j].size

\* A read has the bytes the ioctl has copied, and success means all of them.
DataCopied ==
  \A j \in Jobs :
    /\ Len(data[j]) = IF request[j].op = "read" THEN copied[j] ELSE 0
    /\ job[j] = "ok" => Complete(j)

StatusMeaning ==
  \A j \in Jobs :
    /\ status[j] = 200 => caller[j] = "ok"
    /\ status[j] = 400 => caller[j] = "idle"

SettledAnswered == \A j \in Jobs : settled[j] \subseteq Answered

OwnBytesOnly ==
  \A a \in Addrs : \A j \in Jobs :
    mem[a] = j => job[j] # "none" /\ request[j].op = "write" /\ Covers(j, a)

WrittenFresh ==
  \A j \in Jobs : job[j] # "none" /\ request[j].op = "write" =>
    \A k \in 0..(copied[j] - 1) : MayFollow(mem[request[j].addr + k], j)

ReadFresh ==
  \A j \in Jobs : status[j] = 200 /\ request[j].op = "write" =>
    \A r \in Jobs : j \in settled[r] =>
      \A k \in 1..Len(data[r]) :
        Covers(j, request[r].addr + k - 1) => MayFollow(data[r][k], j)

WorkerInv == BlockingInv /\ AnswerIsResult

MemoryInv ==
  /\ WorkerInv
  /\ MemoryTypeOK
  /\ CallsValid
  /\ DataCopied
  /\ StatusMeaning
  /\ SettledAnswered
  /\ OwnBytesOnly
  /\ WrittenFresh
  /\ ReadFresh
-----------------------------------------------------------------------------
\* The fields of a request.
LEMMA RequestFields ==
  ASSUME NEW r \in Requests
  PROVE  /\ r.op \in {"read", "write", "malformed"}
         /\ r # Malformed => r.op \in {"read", "write"}
         /\ r.addr \in Addrs /\ r.size \in Nat
<1>1. CASE r = Malformed
  BY <1>1, MemoryAssumption DEF Malformed, Addrs, MemoryAssumption
<1>2. ASSUME NEW o \in {"read", "write"}, NEW g \in Ranges,
             r = [op |-> o, addr |-> g[1], size |-> g[2]]
      PROVE  r.op \in {"read", "write"} /\ r.addr \in Addrs /\ r.size \in Nat
  <2>1. g \in (0..MaxAddr) \X Nat
    BY MemoryAssumption DEF MemoryAssumption
  <2> QED BY <1>2, <2>1 DEF Addrs
<1> QED BY <1>1, <1>2 DEF Requests

\* The bytes of a request that validate lets through have the addresses they
\* should have: the sum does not wrap around.
LEMMA ByteInRange ==
  ASSUME NEW r \in Requests, Valid(r), NEW k \in 0..(r.size - 1)
  PROVE  ByteAddr(r, k) = r.addr + k /\ r.addr + k \in Addrs
<1>1. r.addr \in 0..MaxAddr /\ r.size \in Nat /\ MaxAddr \in Nat
  BY RequestFields, MemoryAssumption DEF Addrs, MemoryAssumption
<1>2. r.addr + k \in 0..MaxAddr
  BY <1>1 DEF Valid
<1>3. ASSUME NEW m \in Nat, NEW x \in 0..m PROVE x % (m + 1) = x
  OBVIOUS
<1> QED BY <1>1, <1>2, <1>3 DEF ByteAddr, Addrs

\* A call that was answered for good is not in the hands of the driver.
LEMMA AnsweredIsOver ==
  ASSUME WorkerInv, StatusMeaning, NEW i \in Answered
  PROVE  i \in Jobs /\ job[i] \notin {"queued", "running"}
BY DEF WorkerInv, AnswerIsResult, BlockingInv, IdleHasNoJob, StatusMeaning, Answered

\* Every step of a memory request is a step of the bounded worker, or leaves
\* it alone.
LEMMA MemoryStepOfBlocking == [Next]_vars => [BlockingNext]_blockingVars
<1> SUFFICES ASSUME [Next]_vars PROVE [BlockingNext]_blockingVars
  OBVIOUS
<1>1. CASE PickUp
  BY <1>1 DEF PickUp, BlockingNext
<1>2. ASSUME NEW j \in Jobs, NEW r \in Requests, Reject(j, r) \/ Submit(j, r) \/ Refuse(j, r)
      PROVE  [BlockingNext]_blockingVars
  BY <1>2 DEF Reject, Submit, Refuse, BlockingNext
<1>3. ASSUME NEW j \in Jobs, Answer(j) \/ Disconnect(j) PROVE BlockingNext
  BY <1>3 DEF Answer, Disconnect, BlockingNext
<1>4. ASSUME NEW j \in Jobs, CopyByte(j) PROVE UNCHANGED blockingVars
  BY <1>4 DEF CopyByte
<1>5. ASSUME NEW j \in Jobs, DriverFails(j) \/ DriverReturns(j) \/ Panics(j)
      PROVE  BlockingNext
  BY <1>5 DEF DriverFails, DriverReturns, Panics, BlockingNext, Results
<1>6. CASE UNCHANGED vars
  BY <1>6 DEF vars
<1> QED BY <1>1, <1>2, <1>3, <1>4, <1>5, <1>6 DEF Next

\* What holds of the worker goes on holding.
LEMMA WorkerInvStep == WorkerInv /\ [Next]_vars => WorkerInv'
BY MemoryStepOfBlocking, BlockingStepOK, AnswerIsResultStep DEF WorkerInv

\* No request has been made.
LEMMA MemoryInitOK == Init => MemoryInv
<1> SUFFICES ASSUME Init PROVE MemoryInv
  OBVIOUS
<1>1. WorkerInv
  BY BlockingInitOK DEF Init, BlockingInit, WorkerInv, AnswerIsResult
<1>2. MemoryTypeOK
  BY MemoryAssumption DEF Init, MemoryTypeOK, Requests, MemoryAssumption
<1>3. \A j \in Jobs : job[j] = "none" /\ status[j] = 0 /\ copied[j] = 0 /\ data[j] = <<>>
  BY DEF Init, BlockingInit
<1>4. CallsValid /\ DataCopied /\ StatusMeaning
  BY <1>3 DEF Init, CallsValid, DataCopied, StatusMeaning
<1>5. SettledAnswered /\ WrittenFresh /\ ReadFresh
  BY <1>3 DEF Init, SettledAnswered, WrittenFresh, ReadFresh
<1>6. OwnBytesOnly
  BY MemoryAssumption DEF Init, OwnBytesOnly, MemoryAssumption
<1> QED BY <1>1, <1>2, <1>4, <1>5, <1>6 DEF MemoryInv
-----------------------------------------------------------------------------
\* Steps of handlers and pool threads that copy nothing and accept nothing.
\* They may answer a call, and they may end it.
LEMMA QuietStep ==
  ASSUME MemoryInv, WorkerInv', UNCHANGED <<request, mem, copied, data, settled>>,
         status' \in [Jobs -> {0, 200, 400, 502}], StatusMeaning',
         \A j \in Jobs :
           /\ job'[j] = "none" <=> job[j] = "none"
           /\ job'[j] = "ok" => job[j] = "ok" \/ Complete(j)
           /\ status'[j] = 200 => status[j] = 200 \/ j \notin Answered,
         Answered \subseteq Answered'
  PROVE  MemoryInv'
<1> USE DEF MemoryInv
<1>1. MemoryTypeOK'
  BY DEF MemoryTypeOK
<1>2. CallsValid' /\ DataCopied'
  BY DEF CallsValid, DataCopied, Complete
<1>3. SettledAnswered'
  BY DEF SettledAnswered
<1>4. OwnBytesOnly' /\ WrittenFresh'
  BY DEF OwnBytesOnly, Covers, WrittenFresh, MayFollow
<1>5. ReadFresh'
  <2> SUFFICES ASSUME NEW j \in Jobs, status'[j] = 200, request[j].op = "write",
                      NEW r \in Jobs, j \in settled[r],
                      NEW k \in 1..Len(data[r]), Covers(j, request[r].addr + k - 1)
               PROVE  MayFollow(data[r][k], j)
    BY DEF ReadFresh, Covers, MayFollow
  <2>1. j \in Answered
    BY DEF SettledAnswered
  <2> QED BY <2>1 DEF ReadFresh
<1> QED BY <1>1, <1>2, <1>3, <1>4, <1>5

\* Answers that are given without a call, and lost connections.
LEMMA HandlerStepOK ==
  ASSUME MemoryInv, WorkerInv', NEW j \in Jobs,
         \/ \E r \in Requests : Reject(j, r) \/ Refuse(j, r)
         \/ Answer(j) \/ Disconnect(j)
  PROVE  MemoryInv'
<1> USE DEF MemoryInv, MemoryTypeOK, WorkerInv, BlockingInv, BlockingTypeOK
<1>1. UNCHANGED <<request, mem, copied, data, settled, job>>
  BY DEF Reject, Refuse, Answer, Disconnect, RunExhausted, Await, Timeout, Abandon,
         memoryVars, blockingVars
<1> DEFINE AnswersKept ==
             /\ status' \in [Jobs -> {0, 200, 400, 502}]
             /\ StatusMeaning'
             /\ Answered \subseteq Answered'
             /\ \A i \in Jobs : status'[i] = 200 => status[i] = 200 \/ i \notin Answered
<1>2. SUFFICES AnswersKept
  BY <1>1, QuietStep
<1>3. ASSUME NEW r \in Requests, Reject(j, r) PROVE AnswersKept
  <2>1. /\ status[j] = 0 /\ caller[j] = "idle" /\ caller' = caller
        /\ status' = [status EXCEPT ![j] = 400]
    BY <1>3 DEF Reject, blockingVars
  <2> QED BY <2>1 DEF StatusMeaning, Answered
<1>4. ASSUME NEW r \in Requests, Refuse(j, r) PROVE AnswersKept
  <2>1. /\ status[j] = 0 /\ caller[j] = "idle"
        /\ caller' = [caller EXCEPT ![j] = "exhausted"]
        /\ status' = [status EXCEPT ![j] = 502]
    BY <1>4 DEF Refuse, RunExhausted, StatusOf
  <2> QED BY <2>1 DEF StatusMeaning, Answered
<1>5. ASSUME Answer(j) PROVE AnswersKept
  <2>1. /\ caller[j] = "waiting" /\ caller'[j] \in Answers
        /\ \A i \in Jobs : i # j => caller'[i] = caller[i]
        /\ status' = [status EXCEPT ![j] = IF caller'[j] = "ok" THEN 200 ELSE 502]
    BY <1>5 DEF Answer, Await, Timeout, StatusOf, Results, Answers
  <2> QED BY <2>1 DEF StatusMeaning, Answered
<1>6. ASSUME Disconnect(j) PROVE AnswersKept
  <2>1. /\ caller[j] = "waiting" /\ caller' = [caller EXCEPT ![j] = "gone"]
        /\ status' = status
    BY <1>6 DEF Disconnect, Abandon, memoryVars
  <2> QED BY <2>1 DEF StatusMeaning, Answered
<1> QED BY <1>3, <1>4, <1>5, <1>6

\* A pool thread takes a call, or ends it.
LEMMA ThreadStepOK ==
  ASSUME MemoryInv, WorkerInv',
         PickUp \/ \E j \in Jobs : DriverFails(j) \/ DriverReturns(j) \/ Panics(j)
  PROVE  MemoryInv'
<1> USE DEF MemoryInv, MemoryTypeOK, WorkerInv, BlockingInv, BlockingTypeOK
<1>1. UNCHANGED <<request, mem, copied, data, settled, status, caller>>
  BY DEF PickUp, RunTask, DriverFails, DriverReturns, Panics, Return, memoryVars
<1>2. StatusMeaning' /\ Answered' = Answered
  BY <1>1 DEF StatusMeaning, Answered
<1> DEFINE CallsKept ==
             \A i \in Jobs : /\ job'[i] = "none" <=> job[i] = "none"
                             /\ job'[i] = "ok" => job[i] = "ok" \/ Complete(i)
<1>3. SUFFICES CallsKept
  BY <1>1, <1>2, QuietStep
<1>4. CASE PickUp
  <2>1. \A i \in Jobs : job'[i] # job[i] => job[i] = "queued" /\ job'[i] = "running"
    BY <1>4, PickedUpWasQueued DEF PickUp
  <2> QED BY <2>1
<1>5. ASSUME NEW j \in Jobs, DriverFails(j) \/ DriverReturns(j) \/ Panics(j)
      PROVE  CallsKept
  <2>1. /\ job[j] = "running"
        /\ \/ job' = [job EXCEPT ![j] = "err"]
           \/ job' = [job EXCEPT ![j] = "ok"] /\ Complete(j)
           \/ job' = [job EXCEPT ![j] = "panic"]
    BY <1>5 DEF DriverFails, DriverReturns, Panics, Return
  <2> QED BY <2>1
<1> QED BY <1>4, <1>5

\* validate lets a request through and the worker takes it.
LEMMA SubmitOK ==
  ASSUME MemoryInv, WorkerInv', NEW j \in Jobs, NEW r \in Requests, Submit(j, r)
  PROVE  MemoryInv'
<1> USE DEF MemoryInv, WorkerInv, BlockingInv, BlockingTypeOK
<1>1. /\ status[j] = 0 /\ caller[j] = "idle" /\ job[j] = "none" /\ Valid(r)
      /\ UNCHANGED <<mem, copied, data, status>>
      /\ request' = [request EXCEPT ![j] = r]
      /\ settled' = [settled EXCEPT ![j] = Answered]
      /\ job' = [job EXCEPT ![j] = "queued"]
      /\ caller' = [caller EXCEPT ![j] = "waiting"]
  BY DEF Submit, RunAccepted, IdleHasNoJob
<1>2. copied[j] = 0 /\ data[j] = <<>> /\ \A i \in Jobs : j \notin settled[i]
  <2>1. j \notin Answered
    BY <1>1 DEF Answered
  <2> QED BY <1>1, <2>1 DEF CallsValid, SettledAnswered
<1>3. MemoryTypeOK'
  <2>1. Answered \in SUBSET Jobs
    BY DEF Answered
  <2> QED BY <1>1, <2>1 DEF MemoryTypeOK
<1>4. CallsValid' /\ DataCopied'
  <2>1. r.size \in Nat
    BY RequestFields
  <2> QED BY <1>1, <1>2, <2>1 DEF CallsValid, DataCopied, MemoryTypeOK, Complete
<1>5. StatusMeaning' /\ SettledAnswered'
  <2>1. StatusMeaning' /\ Answered \subseteq Answered'
    BY <1>1 DEF StatusMeaning, Answered
  <2> QED BY <1>1, <2>1 DEF SettledAnswered, MemoryTypeOK
<1>6. OwnBytesOnly'
  BY <1>1 DEF OwnBytesOnly, Covers, MemoryTypeOK
<1>7. WrittenFresh'
  <2> SUFFICES ASSUME NEW i \in Jobs, job'[i] # "none", request'[i].op = "write",
                      NEW k \in 0..(copied[i] - 1)
               PROVE  LET b == mem[request'[i].addr + k]
                      IN  b = i \/ (b \in Jobs /\ b \notin settled'[i])
    BY <1>1 DEF WrittenFresh, MayFollow
  <2>1. i # j
    BY <1>2
  <2>2. request'[i] = request[i] /\ settled'[i] = settled[i] /\ job'[i] = job[i]
    BY <1>1, <2>1 DEF MemoryTypeOK
  <2> QED BY <2>2 DEF WrittenFresh, MayFollow
<1>8. ReadFresh'
  <2> SUFFICES ASSUME NEW i \in Jobs, status[i] = 200, request'[i].op = "write",
                      NEW n \in Jobs, i \in settled'[n], NEW k \in 1..Len(data[n]),
                      LET a == request'[n].addr + k - 1
                      IN  a \in request'[i].addr..(request'[i].addr + request'[i].size - 1)
               PROVE  data[n][k] = i \/ (data[n][k] \in Jobs /\ data[n][k] \notin settled'[i])
    BY <1>1 DEF ReadFresh, Covers, MayFollow
  <2>1. i # j /\ n # j
    BY <1>1, <1>2
  <2>2. /\ request'[i] = request[i] /\ request'[n] = request[n]
        /\ settled'[i] = settled[i] /\ settled'[n] = settled[n]
    BY <1>1, <2>1 DEF MemoryTypeOK
  <2> QED BY <2>2 DEF ReadFresh, Covers, MayFollow
<1> QED BY <1>3, <1>4, <1>5, <1>6, <1>7, <1>8

\* What is known of the byte that the driver copies.
LEMMA ByteCopied ==
  ASSUME MemoryInv, NEW j \in Jobs, CopyByte(j)
  PROVE  /\ request[j] \in Requests /\ Valid(request[j])
         /\ request[j].addr \in Nat /\ request[j].size \in Nat
         /\ copied[j] \in Nat /\ copied[j] < request[j].size
         /\ request[j].size <= MaxBytes
         /\ ByteAddr(request[j], copied[j]) = request[j].addr + copied[j]
         /\ request[j].addr + copied[j] \in Addrs
         /\ job[j] = "running" /\ j \notin Answered
<1>1. /\ job[j] = "running" /\ copied[j] # request[j].size
      /\ request[j] \in Requests /\ copied[j] \in 0..MaxBytes
  BY DEF CopyByte, Complete, MemoryInv, MemoryTypeOK
<1>2. Valid(request[j]) /\ copied[j] <= request[j].size
  BY <1>1 DEF MemoryInv, CallsValid
<1>3. /\ request[j].addr \in Nat /\ request[j].size \in Nat
      /\ copied[j] \in Nat /\ request[j].size <= MaxBytes
  BY <1>1, <1>2, RequestFields, MemoryAssumption DEF Addrs, Valid, MemoryAssumption
<1>4. copied[j] < request[j].size
  BY <1>1, <1>2, <1>3
<1>5. j \notin Answered
  BY <1>1, AnsweredIsOver DEF MemoryInv
<1> QED BY <1>1, <1>2, <1>3, <1>4, <1>5, ByteInRange

\* The driver stores a byte of a write.
LEMMA WriteByteOK ==
  ASSUME MemoryInv, WorkerInv', NEW j \in Jobs, CopyByte(j), request[j].op = "write"
  PROVE  MemoryInv'
<1> DEFINE a == request[j].addr + copied[j]
<1> USE DEF MemoryInv
<1>1. /\ UNCHANGED <<job, caller, request, status, settled, data>>
      /\ mem' = [mem EXCEPT ![a] = j]
      /\ copied' = [copied EXCEPT ![j] = @ + 1]
      /\ a \in Addrs
  BY ByteCopied DEF CopyByte, blockingVars
<1>2. Answered' = Answered
  BY <1>1 DEF Answered
<1>3. MemoryTypeOK'
  <2>1. copied[j] + 1 \in 0..MaxBytes
    BY ByteCopied, MemoryAssumption DEF MemoryAssumption
  <2> QED BY <1>1, <2>1 DEF MemoryTypeOK
<1>4. CallsValid' /\ DataCopied'
  BY <1>1, ByteCopied
  DEF MemoryTypeOK, CallsValid, DataCopied, Complete
<1>5. StatusMeaning' /\ SettledAnswered'
  BY <1>1, <1>2 DEF StatusMeaning, SettledAnswered
<1>6. OwnBytesOnly'
  BY <1>1, ByteCopied DEF OwnBytesOnly, Covers, MemoryTypeOK
<1>7. WrittenFresh'
  <2> SUFFICES ASSUME NEW i \in Jobs, job[i] # "none", request[i].op = "write",
                      NEW k \in 0..(copied'[i] - 1)
               PROVE  MayFollow(mem'[request[i].addr + k], i)
    BY <1>1 DEF WrittenFresh, MayFollow
  <2> DEFINE b == request[i].addr + k
  <2>1. CASE b = a
    <3>1. mem'[b] = j
      BY <1>1, <2>1 DEF MemoryTypeOK
    <3>2. j \notin settled[i]
      BY ByteCopied DEF SettledAnswered
    <3> QED BY <3>1, <3>2 DEF MayFollow
  <2>2. CASE b # a
    <3>1. copied[i] \in Nat /\ k \in 0..(copied[i] - 1)
      BY <1>1, <2>2 DEF MemoryTypeOK
    <3>2. /\ request[i] \in Requests /\ Valid(request[i]) /\ copied[i] <= request[i].size
      BY DEF CallsValid, MemoryTypeOK
    <3>3. b \in Addrs
      BY <3>1, <3>2, ByteInRange, RequestFields
    <3>4. mem'[b] = mem[b]
      BY <1>1, <2>2, <3>3 DEF MemoryTypeOK
    <3> QED BY <3>1, <3>4 DEF WrittenFresh
  <2> QED BY <2>1, <2>2
<1>8. ReadFresh'
  BY <1>1 DEF ReadFresh, Covers, MayFollow
<1> QED BY <1>3, <1>4, <1>5, <1>6, <1>7, <1>8

\* An acknowledged write has left nothing in its range that it may not be
\* followed by.
LEMMA AcknowledgedIsFresh ==
  ASSUME MemoryInv, NEW j \in Jobs, status[j] = 200, request[j].op = "write",
         NEW a \in Addrs, Covers(j, a)
  PROVE  MayFollow(mem[a], j)
<1> USE DEF MemoryInv
<1>1. job[j] = "ok"
  BY DEF StatusMeaning, WorkerInv, AnswerIsResult
<1>2. copied[j] = request[j].size
  BY <1>1 DEF DataCopied, Complete
<1>3. request[j].addr \in Nat /\ request[j].size \in Nat /\ a \in Nat
  BY RequestFields, MemoryAssumption DEF MemoryTypeOK, Addrs, MemoryAssumption
<1> DEFINE k == a - request[j].addr
<1>4. k \in 0..(copied[j] - 1) /\ request[j].addr + k = a
  BY <1>2, <1>3 DEF Covers
<1> QED BY <1>1, <1>4 DEF WrittenFresh

\* The driver fetches a byte for a read.
LEMMA ReadByteOK ==
  ASSUME MemoryInv, WorkerInv', NEW j \in Jobs, CopyByte(j), request[j].op = "read"
  PROVE  MemoryInv'
<1> DEFINE a == request[j].addr + copied[j]
<1> USE DEF MemoryInv
<1>1. /\ UNCHANGED <<job, caller, request, status, settled, mem>>
      /\ data' = [data EXCEPT ![j] = Append(@, mem[a])]
      /\ copied' = [copied EXCEPT ![j] = @ + 1]
      /\ a \in Addrs
  BY ByteCopied DEF CopyByte, blockingVars
<1>2. Answered' = Answered
  BY <1>1 DEF Answered
<1>3. /\ data[j] \in Seq(Jobs \cup {Untouched}) /\ mem[a] \in Jobs \cup {Untouched}
      /\ Len(data[j]) = copied[j]
  BY <1>1 DEF MemoryTypeOK, DataCopied
<1>4. /\ data'[j] \in Seq(Jobs \cup {Untouched})
      /\ Len(data'[j]) = copied[j] + 1
      /\ data'[j][copied[j] + 1] = mem[a]
      /\ \A k \in 1..copied[j] : data'[j][k] = data[j][k]
  BY <1>1, <1>3 DEF MemoryTypeOK
<1>5. MemoryTypeOK'
  <2>1. copied[j] + 1 \in 0..MaxBytes
    BY ByteCopied, MemoryAssumption DEF MemoryAssumption
  <2>2. Append(data[j], mem[a]) \in Seq(Jobs \cup {Untouched})
    BY <1>3
  <2> QED BY <1>1, <2>1, <2>2 DEF MemoryTypeOK
<1>6. CallsValid' /\ DataCopied'
  BY <1>1, <1>4, ByteCopied
  DEF MemoryTypeOK, CallsValid, DataCopied, Complete
<1>7. StatusMeaning' /\ SettledAnswered'
  BY <1>1, <1>2 DEF StatusMeaning, SettledAnswered
<1>8. OwnBytesOnly'
  BY <1>1 DEF OwnBytesOnly, Covers
<1>9. WrittenFresh'
  <2> SUFFICES ASSUME NEW i \in Jobs, job[i] # "none", request[i].op = "write",
                      NEW k \in 0..(copied'[i] - 1)
               PROVE  MayFollow(mem[request[i].addr + k], i)
    BY <1>1 DEF WrittenFresh, MayFollow
  <2>1. copied'[i] = copied[i]
    BY <1>1 DEF MemoryTypeOK
  <2> QED BY <2>1 DEF WrittenFresh
<1>10. ReadFresh'
  <2> SUFFICES ASSUME NEW i \in Jobs, status[i] = 200, request[i].op = "write",
                      NEW r \in Jobs, i \in settled[r], NEW k \in 1..Len(data'[r]),
                      Covers(i, request[r].addr + k - 1)
               PROVE  MayFollow(data'[r][k], i)
    BY <1>1 DEF ReadFresh, Covers, MayFollow
  <2>1. CASE r # j
    <3>1. data'[r] = data[r]
      BY <1>1, <2>1 DEF MemoryTypeOK
    <3> QED BY <3>1 DEF ReadFresh
  <2>2. CASE r = j /\ k \in 1..copied[j]
    BY <1>3, <1>4, <2>2 DEF ReadFresh
  <2>3. CASE r = j /\ k = copied[j] + 1
    <3>1. request[r].addr + k - 1 = a
      BY <2>3, ByteCopied
    <3>2. MayFollow(mem[a], i)
      BY <1>1, <3>1, AcknowledgedIsFresh
    <3> QED BY <1>4, <2>3, <3>2
  <2> QED BY <1>4, <2>1, <2>2, <2>3, ByteCopied
<1> QED BY <1>5, <1>6, <1>7, <1>8, <1>9, <1>10
-----------------------------------------------------------------------------
\* No step of a memory request breaks the invariant.
LEMMA MemoryStepOK == MemoryInv /\ [Next]_vars => MemoryInv'
<1> SUFFICES ASSUME MemoryInv, [Next]_vars PROVE MemoryInv'
  OBVIOUS
<1>1. WorkerInv'
  BY WorkerInvStep DEF MemoryInv
<1>2. CASE PickUp
  BY <1>1, <1>2, ThreadStepOK
<1>3. ASSUME NEW j \in Jobs, NEW r \in Requests, Reject(j, r) \/ Submit(j, r) \/ Refuse(j, r)
      PROVE  MemoryInv'
  BY <1>1, <1>3, SubmitOK, HandlerStepOK
<1>4. ASSUME NEW j \in Jobs, Answer(j) \/ Disconnect(j) PROVE MemoryInv'
  BY <1>1, <1>4, HandlerStepOK
<1>5. ASSUME NEW j \in Jobs, CopyByte(j) PROVE MemoryInv'
  <2>1. request[j].op \in {"read", "write"}
    BY <1>5 DEF CopyByte
  <2> QED BY <1>1, <1>5, <2>1, WriteByteOK, ReadByteOK
<1>6. ASSUME NEW j \in Jobs, DriverFails(j) \/ DriverReturns(j) \/ Panics(j)
      PROVE  MemoryInv'
  BY <1>1, <1>6, ThreadStepOK
<1>7. CASE UNCHANGED vars
  <2>1. StatusMeaning' /\ Answered' = Answered
    BY <1>7 DEF vars, blockingVars, memoryVars, MemoryInv, StatusMeaning, Answered
  <2> QED
    BY <1>1, <1>7, <2>1, QuietStep
    DEF vars, blockingVars, memoryVars, MemoryInv, MemoryTypeOK
<1> QED BY <1>2, <1>3, <1>4, <1>5, <1>6, <1>7 DEF Next
-----------------------------------------------------------------------------
\* The invariant of the memory handlers holds for ever.
LEMMA MemoryInvariant == Spec => []MemoryInv
BY MemoryInitOK, MemoryStepOK, PTL DEF Spec

\* Every state of the memory handlers has the types of its variables.
THEOREM MemoryTypeCorrect == Spec => []TypeOK
<1>1. MemoryInv => TypeOK
  BY DEF MemoryInv, MemoryTypeOK, WorkerInv, BlockingInv, TypeOK
<1> QED BY <1>1, MemoryInvariant, PTL

\* validate: no byte changes that is not in the range of an accepted write,
\* whatever ranges are asked for and wherever they end.
THEOREM OnlyOwnRangeTouched == Spec => []OnlyOwnRange
<1>1. MemoryInv => OnlyOwnRange
  BY DEF MemoryInv, WorkerInv, BlockingInv, IdleHasNoJob, StatusMeaning, OwnBytesOnly,
         OnlyOwnRange
<1> QED BY <1>1, MemoryInvariant, PTL

\* write answered with 200: from then on neither the memory nor a later read
\* shows an older byte in its range, unless a call may still have written it
\* whose client was told that it timed out, or was told nothing.
THEOREM NoStaleByteShown == Spec => []NoStaleByte
<1>1. MemoryInv => NoStaleByte
  BY AcknowledgedIsFresh DEF MemoryInv, ReadFresh, NoStaleByte
<1> QED BY <1>1, MemoryInvariant, PTL
-----------------------------------------------------------------------------
\* The rows of format_read: how many there are, and how the last one ends.
LEMMA RowCount ==
  ASSUME NEW size \in Nat \ {0}
  PROVE  LET n == (size + RowBytes - 1) \div RowBytes
         IN  /\ n \in Nat \ {0}
             /\ (n - 1) * RowBytes < size /\ size <= n * RowBytes
             /\ \A i \in 1..n : /\ (i - 1) * RowBytes \in 0..(size - 1)
                                /\ i < n => i * RowBytes < size
<1> DEFINE n == (size + RowBytes - 1) \div RowBytes
<1>1. RowBytes \in Nat \ {0}
  BY MemoryAssumption DEF MemoryAssumption
<1>2. n \in Nat \ {0} /\ (n - 1) * RowBytes < size /\ size <= n * RowBytes
  BY <1>1
<1> HIDE DEF n
<1>3. ASSUME NEW i \in 1..n
      PROVE  /\ (i - 1) * RowBytes \in 0..(size - 1)
             /\ i < n => i * RowBytes < size
  <2>1. ASSUME NEW k \in 0..(n - 1) PROVE k * RowBytes \in Nat /\ k * RowBytes < size
    BY <1>1, <1>2, <2>1
  <2> QED BY <1>1, <1>2, <2>1
<1> QED BY <1>2, <1>3 DEF n

\* The rows of a valid range tile it.
LEMMA RowsTile ==
  ASSUME NEW r \in Requests, Valid(r)
  PROVE  LET rows == Rows(r)
         IN  /\ Len(rows) \in Nat \ {0}
             /\ rows[1].addr = r.addr
             /\ \A i \in 1..(Len(rows) - 1) :
                  rows[i].len = RowBytes /\ rows[i].addr + rows[i].len = rows[i + 1].addr
             /\ rows[Len(rows)].addr + rows[Len(rows)].len = r.addr + r.size
<1> DEFINE n == (r.size + RowBytes - 1) \div RowBytes
           first(i) == (i - 1) * RowBytes
           row(i) == [addr |-> ByteAddr(r, first(i)),
                      len |-> IF r.size - first(i) < RowBytes THEN r.size - first(i)
                              ELSE RowBytes]
           rows == [i \in 1..n |-> row(i)]
<1>1. /\ r.addr \in Nat /\ r.size \in Nat \ {0} /\ RowBytes \in Nat \ {0}
  BY RequestFields, MemoryAssumption DEF Valid, Addrs, MemoryAssumption
<1>2. Rows(r) = rows
  BY DEF Rows
<1>3. /\ n \in Nat \ {0} /\ first(n) < r.size /\ r.size <= n * RowBytes
      /\ \A i \in 1..n : /\ first(i) \in 0..(r.size - 1)
                         /\ i < n => i * RowBytes < r.size
  BY <1>1, RowCount
<1> HIDE DEF n
<1>4. Len(rows) = n
  <2> DEFINE S == {row(i) : i \in 1..n}
  <2>1. rows \in [1..n -> S] /\ DOMAIN rows = 1..n
    OBVIOUS
  <2> HIDE DEF rows, S
  <2>2. rows \in Seq(S)
    BY <1>3, <2>1, SeqDef
  <2>3. DOMAIN rows = 1..Len(rows) /\ Len(rows) \in Nat
    BY <2>2, LenProperties
  <2> QED BY <1>3, <2>1, <2>3
<1>5. ASSUME NEW i \in 1..n
      PROVE  /\ rows[i].addr = r.addr + first(i)
             /\ rows[i].len = IF r.size - first(i) < RowBytes THEN r.size - first(i)
                              ELSE RowBytes
  BY <1>1, <1>3, ByteInRange
<1>6. rows[1].addr = r.addr
  BY <1>1, <1>3, <1>5
<1>7. ASSUME NEW i \in 1..(n - 1)
      PROVE  rows[i].len = RowBytes /\ rows[i].addr + rows[i].len = rows[i + 1].addr
  <2>1. /\ i \in 1..n /\ i + 1 \in 1..n /\ i < n
    BY <1>3
  <2>2. first(i + 1) = i * RowBytes /\ first(i) + RowBytes = i * RowBytes
    BY <1>1, <2>1
  <2>3. first(i) + RowBytes < r.size /\ first(i) \in Nat
    BY <1>1, <1>3, <2>1, <2>2
  <2>4. rows[i].len = RowBytes /\ rows[i].addr = r.addr + first(i)
    BY <1>1, <1>5, <2>1, <2>3
  <2>5. rows[i + 1].addr = r.addr + first(i + 1)
    BY <1>5, <2>1
  <2> QED BY <1>1, <2>2, <2>3, <2>4, <2>5
<1>8. rows[n].addr + rows[n].len = r.addr + r.size
  <2>1. n \in 1..n /\ first(n) \in Nat /\ first(n) + RowBytes = n * RowBytes
    BY <1>1, <1>3
  <2> QED BY <1>1, <1>3, <1>5, <2>1
<1> QED BY <1>2, <1>3, <1>4, <1>6, <1>7, <1>8

\* format_read: for every valid range the rows of an answered read tile it,
\* and next_addr goes on where they end.
THEOREM ReadsAreTiled == Spec => []RowsTileRead
<1>1. MemoryInv => RowsTileRead
  <2> SUFFICES ASSUME MemoryInv, NEW j \in Jobs, status[j] = 200,
                      request[j].op = "read"
               PROVE  LET r == request[j]
                          rows == Rows(r)
                          end(row) == row.addr + row.len
                      IN  /\ Len(data[j]) = r.size
                          /\ rows[1].addr = r.addr
                          /\ \A i \in 1..(Len(rows) - 1) :
                               rows[i].len = RowBytes /\ end(rows[i]) = rows[i + 1].addr
                          /\ end(rows[Len(rows)]) = r.addr + r.size
                          /\ IF end(rows[Len(rows)]) = MaxAddr + 1
                             THEN NextAddr(r) = {}
                             ELSE NextAddr(r) = {end(rows[Len(rows)])}
    BY DEF RowsTileRead
  <2> DEFINE r == request[j]
  <2>1. job[j] = "ok"
    BY DEF MemoryInv, StatusMeaning, WorkerInv, AnswerIsResult
  <2>2. r \in Requests /\ Valid(r) /\ Len(data[j]) = r.size
    BY <2>1 DEF MemoryInv, MemoryTypeOK, CallsValid, DataCopied, Complete
  <2>3. r.addr \in Nat /\ r.size \in Nat /\ MaxAddr \in Nat /\ r.addr + r.size <= MaxAddr + 1
    BY <2>2, RequestFields, MemoryAssumption DEF Valid, Addrs, MemoryAssumption
  <2>4. NextAddr(r) = IF r.addr + r.size = MaxAddr + 1 THEN {} ELSE {r.addr + r.size}
    BY <2>3 DEF NextAddr
  <2> QED BY <2>2, <2>4, RowsTile
<1> QED BY <1>1, MemoryInvariant, PTL
=============================================================================
