------------------------------- MODULE PerfRing -------------------------------
(***************************************************************************)
(* The reader of a perf ring buffer (src/perf.rs).  The kernel appends     *)
(* records to a ring of DataSize words and moves data_head; the reader     *)
(* waits until the descriptor is readable, takes at most MaxEvents records *)
(* out of the ring, and moves data_tail behind each of them, which gives   *)
(* the kernel their room back.  A record may wrap around the end of the    *)
(* ring.  Nothing in the program calls this reader at present.             *)
(*                                                                         *)
(* The kernel's side and tokio's readiness are external and modelled by    *)
(* what the reader can see of them.  A word stands for 8 bytes and         *)
(* positions count words.  data_head is an ordinary field to the compiler, *)
(* which may use an earlier load again instead of loading it; the order of *)
(* the other accesses is that of the program, as it is on x86.             *)
(***************************************************************************)
EXTENDS Integers, Sequences, FiniteSets

CONSTANTS
  DataSize,   \* data_size
  MaxEvents,  \* MAX_EVENTS_PER_READINESS (128)
  Regs,       \* arch::regs_count()
  Chains,     \* the lengths of call chains
  MaxEmits    \* bound of the model: records the kernel tries to write

ASSUME RingAssumption ==
  /\ DataSize \in Nat \ {0}
  /\ MaxEvents \in Nat \ {0}
  /\ Regs \in Nat
  /\ Chains \subseteq Nat
  /\ MaxEmits \in Nat

VARIABLES
  backtrace,  \* sample_type has PERF_SAMPLE_CALLCHAIN
  ring,       \* the words of the ring
  head,       \* data_head
  tail,       \* data_tail
  written,    \* history: the records between 0 and head, and where each starts
  lost,       \* samples that found no room since the last record
  emits,      \* records the kernel has tried to write
  wakeup,     \* the kernel has woken the descriptor, and the runtime not seen it
  readiness,  \* tokio's view of it; "again": set again since it was last taken
  reader,     \* where events() is
  loaded,     \* the value of data_head that the reader loaded last
  read,       \* read_data_size
  size,       \* data_header.size of the record being handled
  processed,  \* processed
  samples     \* history: what was given to the callback

kernelVars == <<ring, head, written, lost, emits, wakeup>>
taskVars == <<reader, loaded, read, size, processed, samples>>
ringVars == <<backtrace, kernelVars, tail, readiness, taskVars>>


\* Types of records.
LOST == 0
SAMPLE == 1
THROTTLE == 2

Words(n, w) == [i \in 1..n |-> w]

\* The header of a record: its type, and its size with the header.
HeaderWord(type, len) == 4 * len + type
HeaderType(word) == word % 4
HeaderSize(word) == word \div 4

\* A sample is pid and tid, the call chain behind its length, and the
\* registers behind their ABI, which is 0, with no registers, for a thread
\* that has none.  A fresh number in place of pid, tid, addresses and values
\* tells samples apart.
Sample(id, chain, abi) ==
  LET calls == IF backtrace THEN <<chain>> \o Words(chain, id) ELSE <<>>
      user == <<abi>> \o (IF abi = 0 THEN <<>> ELSE Words(Regs, id))
      body == <<id>> \o calls \o user
  IN <<HeaderWord(SAMPLE, 1 + Len(body))>> \o body

Lost(n) == <<HeaderWord(LOST, 3), 0, n>>

Throttle(id) == <<HeaderWord(THROTTLE, 2), id>>

RingInit ==
  /\ backtrace \in BOOLEAN
  /\ ring = [i \in 0..DataSize - 1 |-> 0]
  /\ head = 0
  /\ tail = 0
  /\ written = <<>>
  /\ lost = 0
  /\ emits = 0
  /\ wakeup = FALSE
  /\ readiness = "unset"
  /\ reader = "new"
  /\ loaded = 0
  /\ read = 0
  /\ size = 0
  /\ processed = 0
  /\ samples = <<>>
-----------------------------------------------------------------------------
(* The kernel. *)

\* The ring never becomes full to the last word.
Fits(words) == head - tail + Len(words) < DataSize

\* Words are written before data_head moves, and every record wakes the
\* descriptor (wakeup_events = 1).
Write(words) ==
  /\ ring' = [i \in 0..DataSize - 1 |->
                LET k == (i - head) % DataSize
                IN IF k < Len(words) THEN words[k + 1] ELSE ring[i]]
  /\ head' = head + Len(words)
  /\ wakeup' = TRUE

Written(at, words) == <<[at |-> at, words |-> words]>>

\* A record is written, behind a record of those lost before it, or lost.
Emit(record) ==
  /\ reader \notin {"new", "dropped"}
  /\ emits < MaxEmits
  /\ emits' = emits + 1
  /\ LET behind == IF lost > 0 THEN Lost(lost) ELSE <<>>
     IN \/ /\ Fits(behind \o record)
           /\ Write(behind \o record)
           /\ written' = written
                \o (IF lost > 0 THEN Written(head, behind) ELSE <<>>)
                \o Written(head + Len(behind), record)
           /\ lost' = 0
        \/ /\ ~Fits(behind \o record)
           /\ lost' = lost + 1
           /\ UNCHANGED <<ring, head, written, wakeup>>
  /\ UNCHANGED <<backtrace, tail, readiness, taskVars>>

KernelStep ==
  \/ \E chain \in Chains, abi \in {0, 1} : Emit(Sample(emits + 1, chain, abi))
  \/ Emit(Throttle(emits + 1))

\* The runtime's poll of epoll reports the wakeup.
Notify ==
  /\ wakeup
  /\ wakeup' = FALSE
  /\ readiness' = "again"
  /\ UNCHANGED <<backtrace, ring, head, written, lost, emits, tail, taskVars>>
-----------------------------------------------------------------------------
(* PerfMap::new; an error leaves nothing to read from. *)

Open ==
  /\ reader = "new"
  /\ reader' \in {"await", "dropped"}
  /\ UNCHANGED <<backtrace, kernelVars, tail, readiness, loaded, read, size,
                 processed, samples>>
-----------------------------------------------------------------------------
(* PerfMap::events *)

\* readable() returns a guard for the readiness it has seen, and the first
\* test of the loop loads data_head.
Readable ==
  /\ reader = "await"
  /\ readiness # "unset"
  /\ readiness' = "set"
  /\ processed' = 0
  /\ loaded' = head
  /\ reader' = "test"
  /\ UNCHANGED <<backtrace, kernelVars, tail, read, size, samples>>

\* Faulty variant: the record is taken to be in one piece.
WordAtStraight(offset) ==
  LET i == (read % DataSize) + offset
  IN IF i < DataSize THEN ring[i] ELSE 0

\* The word at an offset from the start of the record: read_array, where a
\* record that reaches the end of the ring goes on at its start.
WordAt(offset) == ring[(read + offset) % DataSize]

\* read_sample: a chain of the length found in the record, then the ABI, and
\* no sample if that is 0.
ReadSample ==
  LET chain == IF backtrace THEN WordAt(2) ELSE 0
      abiAt == IF backtrace THEN 3 + chain ELSE 2
  IN IF WordAt(abiAt) = 0
     THEN <<>>
     ELSE << [id |-> WordAt(1),
              chain |-> [i \in 1..chain |-> WordAt(2 + i)],
              regs |-> [i \in 1..Regs |-> WordAt(abiAt + i)]] >>

\* Faulty variant: the room is given back before the record has been read.
HandleAdvanced ==
  /\ reader = "test"
  /\ loaded # read
  /\ processed < MaxEvents
  /\ size' = HeaderSize(WordAt(0))
  /\ tail' = read + size'
  /\ samples' = IF HeaderType(WordAt(0)) = SAMPLE
                THEN samples \o ReadSample ELSE samples
  /\ reader' = "advance"
  /\ UNCHANGED <<backtrace, kernelVars, readiness, loaded, read,
                 processed>>

\* The body of the loop up to the callback.  Lost and unknown records are
\* only logged.
Handle ==
  /\ reader = "test"
  /\ loaded # read
  /\ processed < MaxEvents
  /\ size' = HeaderSize(WordAt(0))
  /\ samples' = IF HeaderType(WordAt(0)) = SAMPLE
                THEN samples \o ReadSample ELSE samples
  /\ reader' = "advance"
  /\ UNCHANGED <<backtrace, kernelVars, tail, readiness, loaded, read,
                 processed>>

\* The rest of the body, and the load of data_head for the next test.
Advance ==
  /\ reader = "advance"
  /\ read' = read + size
  /\ tail' = read'
  /\ processed' = processed + 1
  /\ loaded' \in {loaded, head}
  /\ reader' = "test"
  /\ UNCHANGED <<backtrace, kernelVars, size, readiness, samples>>

\* Faulty variant: the readiness is cleared after every batch.
EndBatchClearing ==
  /\ reader = "test"
  /\ loaded = read \/ processed >= MaxEvents
  /\ readiness' = IF readiness = "set" THEN "unset" ELSE readiness
  /\ loaded' \in {loaded, head}
  /\ reader' = "await"
  /\ UNCHANGED <<backtrace, kernelVars, tail, read, size, processed, samples>>

\* The loop ends.  clear_ready takes back the readiness the guard was given
\* for, if no other has come since.  After a full batch the task yields.
EndBatch ==
  /\ reader = "test"
  /\ loaded = read \/ processed >= MaxEvents
  /\ loaded' \in {loaded, head}
  /\ readiness' = IF loaded' = read /\ readiness = "set" THEN "unset"
                                                         ELSE readiness
  /\ reader' = "await"
  /\ UNCHANGED <<backtrace, kernelVars, tail, read, size, processed, samples>>

\* The runtime shuts down under readable(), and events() returns the error.
ReadableFails ==
  /\ reader = "await"
  /\ reader' = "end"
  /\ UNCHANGED <<backtrace, kernelVars, tail, readiness, loaded, read, size,
                 processed, samples>>

\* The map is dropped, when events() has returned or at its await.
Drop ==
  /\ reader \in {"await", "end"}
  /\ reader' = "dropped"
  /\ UNCHANGED <<backtrace, kernelVars, tail, readiness, loaded, read, size,
                 processed, samples>>

ReaderStep == Readable \/ Handle \/ Advance \/ EndBatch

RingNext == KernelStep \/ Notify \/ Open \/ ReaderStep \/ ReadableFails \/ Drop

RingSpec == RingInit /\ [][RingNext]_ringVars

\* The task of the reader is polled when it is ready, and the runtime polls
\* epoll.  Nothing is assumed of the kernel.
FairRingSpec == RingSpec /\ WF_ringVars(ReaderStep) /\ WF_ringVars(Notify)
-----------------------------------------------------------------------------
\* What the callback should get for a record: nothing but for a sample that
\* has registers.
HasRegs(record) ==
  /\ HeaderType(record[1]) = SAMPLE
  /\ record[IF backtrace THEN 4 + record[3] ELSE 3] # 0

SampleOf(record) ==
  LET chain == IF backtrace THEN record[3] ELSE 0
  IN [id |-> record[2],
      chain |-> [i \in 1..chain |-> record[3 + i]],
      regs |-> [i \in 1..Regs |-> record[Len(record) - Regs + i]]]

\* How many samples the first k records hold for it.
Rank(k) == Cardinality({j \in 1..k : HasRegs(written[j].words)})

\* Where a record starts, or will.
Start(k) == IF k <= Len(written) THEN written[k].at ELSE head

\* The records behind the reader.
Taken == {k \in 1..Len(written) : Start(k + 1) <= read}

\* data_tail never gives back room that the reader still needs: the words
\* of the record it is at and of those behind it are those the kernel wrote.
UnreadIntact ==
  \A k \in 1..Len(written) :
    written[k].at >= read =>
      \A i \in 1..Len(written[k].words) :
        ring[(written[k].at + i - 1) % DataSize] = written[k].words[i]

\* The callback gets each sample that has registers exactly once, in order
\* and word for word, however records wrap around the end of the ring and
\* whatever else is between them.
SamplesExact ==
  \E k \in 1..Len(written) + 1 :
    /\ read = Start(k)
    /\ LET handled == IF reader = "advance" THEN k ELSE k - 1
       IN /\ Len(samples) = Rank(handled)
          /\ \A j \in 1..handled :
               HasRegs(written[j].words) => samples[Rank(j)] = SampleOf(written[j].words)

\* No wakeup is lost: each record is read in the end, also one that comes
\* between the last look at data_head and clear_ready, and one that a full
\* batch has left behind, unless the reader is stopped.
EveryRecordRead ==
  \A k \in 1..MaxEmits :
    (Len(written) >= k) ~> (k \in Taken \/ reader \in {"end", "dropped"})
=============================================================================
