------------------------------- MODULE Memory -------------------------------
(***************************************************************************)
(* GET /memory/read and POST /memory/write (src/memory_api.rs) on top of   *)
(* the bounded worker.  A request that passes validation becomes a job     *)
(* that opens the driver and makes one ioctl on the target's memory.  The  *)
(* ioctl is the driver's: it copies the range byte by byte and may fail    *)
(* anywhere in it, and a job whose handler has timed out goes on copying.  *)
(*                                                                         *)
(* A byte is represented by the request that wrote it last.  Requests are  *)
(* for one process; their text has been parsed, or is malformed.           *)
(***************************************************************************)
EXTENDS Blocking

CONSTANTS
  MaxAddr,   \* the largest address (2^64 - 1)
  MaxBytes,  \* MAX_BYTES (4096)
  RowBytes,  \* bytes in a row of the hex view (16)
  Ranges     \* the pairs of an address and a size that clients ask for

\* What stands for a byte that no request has written: no request itself.
Untouched == "untouched"

ASSUME MemoryAssumption ==
  /\ MaxAddr \in Nat
  /\ MaxBytes \in Nat \ {0}
  /\ RowBytes \in Nat \ {0}
  /\ Ranges \subseteq (0..MaxAddr) \X Nat
  /\ Untouched \notin Jobs

VARIABLES
  request,  \* what each accepted request asks for
  mem,      \* who wrote each byte of the target
  copied,   \* how many bytes the ioctl has copied
  data,     \* the bytes a read has copied
  status,   \* the HTTP status of the answer, 0 before it
  settled   \* history: the calls that had answered for good when this one came

memoryVars == <<request, mem, copied, data, status, settled>>
vars == <<blockingVars, memoryVars>>

Addrs == 0..MaxAddr
Malformed == [op |-> "malformed", addr |-> 0, size |-> 0]
Requests ==
  {[op |-> o, addr |-> g[1], size |-> g[2]] : o \in {"read", "write"}, g \in Ranges}
    \cup {Malformed}

\* Faulty variant: the range check is left to the arithmetic.
ValidWrapping(r) == r # Malformed /\ r.size \in 1..MaxBytes

\* Faulty variant: one byte too many is accepted.
ValidOneMore(r) ==
  /\ r # Malformed
  /\ r.size \in 1..(MaxBytes + 1)
  /\ r.addr + (r.size - 1) <= MaxAddr

\* validate, after the parser: the size is bounded (a write's size is the
\* number of bytes it decodes to) and the last byte has an address.
Valid(r) ==
  /\ r # Malformed
  /\ r.size \in 1..MaxBytes
  /\ r.addr + (r.size - 1) <= MaxAddr

\* The address of byte k of a request, in 64-bit arithmetic.
ByteAddr(r, k) == (r.addr + k) % (MaxAddr + 1)

Init ==
  /\ BlockingInit
  /\ request = [j \in Jobs |-> Malformed]
  /\ mem = [a \in Addrs |-> Untouched]
  /\ copied = [j \in Jobs |-> 0]
  /\ data = [j \in Jobs |-> <<>>]
  /\ status = [j \in Jobs |-> 0]
  /\ settled = [j \in Jobs |-> {}]
-----------------------------------------------------------------------------
(* The handlers. *)

Answered == {i \in Jobs : status[i] = 400 \/ caller[i] \in {"ok", "err", "failed", "exhausted"}}

\* 400, and the driver is not called.
Reject(j, r) ==
  /\ status[j] = 0 /\ caller[j] = "idle"
  /\ ~Valid(r)
  /\ status' = [status EXCEPT ![j] = 400]
  /\ UNCHANGED <<blockingVars, request, mem, copied, data, settled>>

Submit(j, r) ==
  /\ status[j] = 0
  /\ Valid(r)
  /\ RunAccepted(j)
  /\ request' = [request EXCEPT ![j] = r]
  /\ settled' = [settled EXCEPT ![j] = Answered]
  /\ UNCHANGED <<mem, copied, data, status>>

\* What the handler makes of the result of blocking::run.
StatusOf(result) == IF result = "ok" THEN 200 ELSE 502

Refuse(j, r) ==
  /\ status[j] = 0
  /\ Valid(r)
  /\ RunExhausted(j)
  /\ status' = [status EXCEPT ![j] = StatusOf("exhausted")]
  /\ UNCHANGED <<request, mem, copied, data, settled>>

Answer(j) ==
  /\ Await(j) \/ Timeout(j)
  /\ status' = [status EXCEPT ![j] = StatusOf(caller'[j])]
  /\ UNCHANGED <<request, mem, copied, data, settled>>

Disconnect(j) == Abandon(j) /\ UNCHANGED memoryVars
-----------------------------------------------------------------------------
(* The job, on a pool thread. *)

PickUp == RunTask /\ UNCHANGED memoryVars

Complete(j) == copied[j] = request[j].size

CopyByte(j) ==
  /\ job[j] = "running"
  /\ ~Complete(j)
  /\ LET a == ByteAddr(request[j], copied[j])
     IN  \/ /\ request[j].op = "write"
            /\ mem' = [mem EXCEPT ![a] = j]
            /\ UNCHANGED data
         \/ /\ request[j].op = "read"
            /\ data' = [data EXCEPT ![j] = Append(@, mem[a])]
            /\ UNCHANGED mem
  /\ copied' = [copied EXCEPT ![j] = @ + 1]
  /\ UNCHANGED <<blockingVars, request, status, settled>>

\* The driver cannot be opened, or gives up somewhere in the range.
DriverFails(j) ==
  /\ ~Complete(j)
  /\ Return(j, "err")
  /\ UNCHANGED memoryVars

\* Faulty variant: what the ioctl returned is not looked at.
DriverReturnsUnchecked(j) ==
  /\ Return(j, "ok")
  /\ UNCHANGED memoryVars

DriverReturns(j) ==
  /\ Complete(j)
  /\ Return(j, "ok")
  /\ UNCHANGED memoryVars

Panics(j) == Return(j, "panic") /\ UNCHANGED memoryVars
-----------------------------------------------------------------------------
(* format_read *)

\* Faulty variant: the last row is padded.
RowsPadded(r) ==
  [i \in 1..((r.size + RowBytes - 1) \div RowBytes) |->
     [addr |-> ByteAddr(r, (i - 1) * RowBytes), len |-> RowBytes]]

Rows(r) ==
  [i \in 1..((r.size + RowBytes - 1) \div RowBytes) |->
     LET first == (i - 1) * RowBytes
     IN  [addr |-> ByteAddr(r, first),
          len |-> IF r.size - first < RowBytes THEN r.size - first ELSE RowBytes]]

\* Faulty variant: the sum that validate has checked, without the last byte.
NextAddrOfLast(r) == {r.addr + (r.size - 1)}

\* next_addr is null when the sum leaves 64 bits.
NextAddr(r) == IF r.addr + r.size <= MaxAddr THEN {r.addr + r.size} ELSE {}
-----------------------------------------------------------------------------
Next ==
  \/ PickUp
  \/ \E j \in Jobs :
       \/ \E r \in Requests : Reject(j, r) \/ Submit(j, r) \/ Refuse(j, r)
       \/ Answer(j) \/ Disconnect(j)
       \/ CopyByte(j) \/ DriverFails(j) \/ DriverReturns(j) \/ Panics(j)

Spec == Init /\ [][Next]_vars
-----------------------------------------------------------------------------
TypeOK ==
  /\ BlockingTypeOK
  /\ request \in [Jobs -> Requests]
  /\ mem \in [Addrs -> Jobs \cup {Untouched}]
  /\ copied \in [Jobs -> 0..MaxBytes]
  /\ data \in [Jobs -> Seq(Jobs \cup {Untouched})]
  /\ status \in [Jobs -> {0, 200, 400, 502}]
  /\ settled \in [Jobs -> SUBSET Jobs]

Covers(j, a) == a \in request[j].addr..(request[j].addr + request[j].size - 1)

\* No request reaches a byte outside the range it names: not one that is
\* refused, and not by wrapping around at the end of the address space.
OnlyOwnRange ==
  \A a \in Addrs : \A j \in Jobs :
    mem[a] = j => request[j].op = "write" /\ Covers(j, a) /\ status[j] # 400

\* i may have written a byte that the acknowledged write j covers only if i
\* had not been answered for good when j was sent.  A timeout or a lost
\* connection is no such answer: the write may still come.
MayFollow(i, j) == i = j \/ (i \in Jobs /\ i \notin settled[j])

\* "Read back explicitly to refresh the view after writes": once a write was
\* acknowledged with 200, neither the memory nor a read that is sent later
\* shows an older byte in its range, nor one of a write that had been
\* answered with a result before.
NoStaleByte ==
  \A j \in Jobs : status[j] = 200 /\ request[j].op = "write" =>
    /\ \A a \in Addrs : Covers(j, a) => MayFollow(mem[a], j)
    /\ \A r \in Jobs : j \in settled[r] =>
         \A k \in 1..Len(data[r]) :
           Covers(j, request[r].addr + k - 1) => MayFollow(data[r][k], j)

\* The rows of an answered read tile its range, each row but the last is
\* full, and next_addr is where the next read has to start: null exactly when
\* the range ends with the address space.
RowsTileRead ==
  \A j \in Jobs : status[j] = 200 /\ request[j].op = "read" =>
    LET r == request[j]
        end(row) == row.addr + row.len
        rows == Rows(r)
    IN  /\ Len(data[j]) = r.size
        /\ rows[1].addr = r.addr
        /\ \A i \in 1..(Len(rows) - 1) :
             rows[i].len = RowBytes /\ end(rows[i]) = rows[i + 1].addr
        /\ end(rows[Len(rows)]) = r.addr + r.size
        /\ IF end(rows[Len(rows)]) = MaxAddr + 1
           THEN NextAddr(r) = {}
           ELSE NextAddr(r) = {end(rows[Len(rows)])}

\* README: "Driver failures return 502, worker failures 500".  A 502 stands
\* for a failure of the driver, not of the worker.
WorkerFailuresAre500 ==
  \A j \in Jobs : status[j] = 502 => caller[j] = "err"
=============================================================================
