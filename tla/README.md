# A TLA+ verification of pwatch-http

pwatch-http watches memory of another process with hardware breakpoints.  It
asks the LK1337 kernel driver for one breakpoint per thread of the target,
polls the driver for hits, and either prints them (`pwatch watch`) or offers
them, with the target's memory and maps, over HTTP (`pwatch serve`).  This
directory holds TLA+ modules of its concurrent parts, the TLC models that check
them and TLAPS proofs about each of them.  Paths below are relative to the
repository; the Rust files are in `src/`.

## 1. Inventory

| Component | State | Operations | Module |
|---|---|---|---|
| Bounded worker, `blocking.rs` | semaphore of 8 permits; tasks in tokio's blocking pool | `run`: take a permit, spawn, await for at most 3 s | `Blocking` |
| Watch life cycle, `watch.rs` | driver descriptor, breakpoints, cancel flag, poller thread and its error counters, join task | `start_driver_watch`, the polling loop, `RunningWatch::stop` | `Watch` |
| Driver interface, `lk1337.rs` | none of its own: ioctls on a descriptor | open, create, remove, hits, read, write | steps of `Watch` and `Memory` |
| Breakpoint registry, `server.rs` | id counter, map from ids to running watches behind a mutex | POST, GET, DELETE `/breakpoints` | `Server` |
| Hit pipeline, `server.rs`, `hit.rs` | sample queue, drop counter, sequence number, ring of hits, broadcast channel, one receiver per stream | the callback, the hit worker, GET `/hits`, `/hits/stream` | `HitPipeline`, `HitFeed` |
| Maps cache, `maps.rs` | one entry per process: regions and the instant they count from | `list`, `resolve`, `resolve_many_addresses`, module expressions | `MapsCache` |
| Memory API, `memory_api.rs` | none: the target's memory | read, write | `Memory` |
| Register filter, `filter.rs` | none: a tokenizer, a parser and an evaluator | `tokenize`, `parse`, `matches` | `RegFilter`, `RegText` |
| Process list, `server.rs` | none | GET `/processes` | one of the other jobs of `Server` |
| Command line, `main.rs` | one running watch, the runtime, standard output | `run_watch` with its time limit, `handle_event`, the exit | `CommandLine` |
| Web page, `pwatch-ui/app.js` | lists of breakpoints and hits, one event stream with a fallback | connect, refresh, the stream's events; create, delete | `WebPage` (hit list and stream) |
| Perf ring, `perf.rs` | ring shared with the kernel, position of the reader, readiness of a descriptor | `new`, `events`, `drop`; nothing calls them at present, only the `SampleData` type is used | `PerfRing` |
| Register tables, `arch/` | constants | names of registers | no |

How they interact:

* a handler of POST `/breakpoints`, `/memory/*`, `/processes`, maps or resolve
  makes a job of its work and gives it to `blocking::run`;
* the create job starts a watch.  The watch adds a thread (the poller) and one
  more task to the same pool (the one that joins the poller), then the job
  takes the mutex of the registry and inserts the watch under its id;
* GET and DELETE `/breakpoints` only try that mutex and answer 503 if it is
  taken; DELETE takes the watch out, frees the mutex and cancels the watch;
* each poller hands samples that pass the register filter to the bounded queue;
  the one hit worker takes them out, resolves their addresses with the maps
  cache, numbers them, pushes them into the ring and broadcasts them;
* `pwatch watch` starts one watch on the main thread; its callback prints on the
  poller thread, and the process ends when the runtime has waited for the task
  that joins the poller;
* the page loads GET `/hits` and subscribes to `/hits/stream` in two requests
  that nothing ties together.

What is hard:

* three kinds of concurrency: asynchronous handlers that may be dropped at any
  await, pool threads, and threads of the program's own;
* a handler stops waiting (timeout, disconnect) while its job goes on, so that
  effects happen without anybody who asked for them;
* every ioctl may fail, in the middle of a loop over threads, too;
* queue, ring, broadcast channel, semaphore and pool are all bounded;
* the maps cache works with a time taken earlier than the read it dates, and
  reads without holding its mutex;
* a 64-bit range may end with the address space;
* the page's requests overlap and are answered in any order, while a timer and
  the browser's own reconnecting change the stream;
* the ring of `perf.rs` is written by the kernel while it is read.

What makes each part correct:

* worker: permits are conserved, the number of calls in the kernel is bounded,
  every handler is answered, exhaustion is temporary;
* watch: everything armed or opened has an owner; stop takes effect promptly
  and cleans up;
* registry: no running watch becomes unreachable, a DELETE is final, a failed
  create leaves nothing behind;
* hits: order, numbering, the ring's content, streams without duplicates, every
  sample accounted for;
* maps: no answer is older than the cache promises, "not mapped" is not said on
  the word of an old entry;
* memory: only the range asked for is touched, an acknowledged write is seen;
* filter: exactly the filters are accepted and they mean what they say, with
  spaces or without;
* command line: no breakpoint outlives the process that armed it, but for the
  ways section 3 names, and a time limit ends the process;
* page: hits are shown in order and come from one stream;
* perf ring: nothing is overwritten before it is read, every record is read.

`PROJECT.json` lists the hazards line by line.

## 2. Modules and code

`Blocking` and `Watch` are written so that other modules extend them: their
definitions carry the component's name where a composition would clash.  The
operators called "Faulty variant" are plausible mistakes that take the place of
a definition to show that a property can fail; nothing else uses them.

**Blocking.** A job is one call of `blocking::run`.  `RunAccepted` and
`RunExhausted` are the two outcomes of `try_acquire_owned`, `Await` and
`Timeout` those of `tokio::time::timeout`, `Abandon` is the drop of the
handler's future.  `Return` ends the closure, which drops its permit also when
it panics.  The pool is a FIFO queue with `PoolThreads` threads (tokio, outside
the repository); join tasks share it.  Time is abstracted: a deadline may pass
at any moment.

**Watch.** `start` follows `start_driver_watch` through opening the driver,
listing threads, creating breakpoints one by one and spawning the thread;
`poller` follows the thread through the cancel check, one poll per breakpoint,
the error count, the clean-up and the exit.  The kernel's view is `bp` and
`fds`.  A removal may fail; its error is ignored (`watch.rs:103`), so the
breakpoint counts as armed for ever after (`Refused`, part of `Armed`).
`thread::spawn` may panic; the breakpoints of that watch stay armed, as in the
code.

**Server** extends both.  The watch of a create request carries the name of its
job, and its join task too.  `CreateStep` is `create_breakpoint_inner` with the
pieces of `Watch` inside; `Insert` waits for the mutex.  `ClientStep` is the
handlers of GET and DELETE: `DeleteRemove` and `DeleteUnlock` are the critical
section, `DeleteStop` is `stop()`, after the mutex is free.

**HitPipeline.** A sample is its breakpoint and its rank.  `Emit` is the
callback on a poller thread (`try_send`), the worker's steps are `Receive`,
`MakeHit`, `LockBuffer`, `PushBuffer`, `SendHit`; readers are `GetHits`,
`GetHitsBusy`, `Connect`, `Deliver`, `Lag`, `Disconnect`.  Emission and drop are
one step because nothing else is read or written between them that another
thread can see.  **HitFeed** is the promise: one growing log, a window of its
newest entries, and cursors that only move forward.

**MapsCache.** `world` is the history of the target's layouts, so that an
answer can be compared with what was true at each moment of a call.  Regions in
hand are represented by the instant at which they were read.  The offset of a
module expression leads to any address from the module's start on, or to the
error of `checked_add`; the lookup that follows (`ResolveLocated`) is a call of
its own, with its own time.  A call takes the time (`now`), looks at the entry (`UseCached` or `MustRead`), reads without the
mutex (`ReadMaps`, `ReadFails`) and stores or discards under it (`Store`).
Looking up is part of the step that obtains the regions.

**Memory** extends `Blocking`.  A byte is the request that wrote it last.
`Valid` is the validation in both handlers, `CopyByte` is the driver's copy, one
byte at a time and concurrent with the others, `Rows` and `NextAddr` are
`format_read`.  The handlers answer with `StatusOf`.

**RegFilter.** The parser with its cursor, one action per token it consumes.
The input is chosen when the cursor gets to it, which is the same as choosing
it at the start.  Register table, numbers, spellings and the `&` of two words
are constants, so that the proofs hold for any of them.  `IsFilter` and
`Meaning` are the reference: they look at the whole sequence, cut at its
connectives (`Pieces`).  **RegText** extends it with the tokenizer, on sequences
of characters, one character standing for each word.

**CommandLine** extends `Watch` with the main thread (`main`), the runtime's
join task (`joining`) and the reader of standard output.  `TimeLimit` is the end
of the sleep with `stop()`; returning from `main` drops the runtime, which
waits for a blocking task that has started and discards one that has not
(`JoinEnds`, `DiscardJoin`, `Exit`; tokio, outside the repository).
`PrintPanics` is `println!` in `handle_event` on a closed standard output: the
poller unwinds, the driver is dropped, the breakpoints are not removed.
`Interrupt` is any signal; the program handles none.

**PerfRing.** The kernel's side (`Emit`: a record is written behind a notice
of those lost, or lost) and tokio's readiness (`Notify`) are external.  The
reader is `Readable`, `Handle` (one record: header, sample, callback),
`Advance` (`data_tail`, and `data_head` for the next test) and `EndBatch`
(`clear_ready`, which has no effect if the descriptor was woken again since the
guard was taken).  A word stands for eight bytes.  Since `data_head` is an
ordinary field to the compiler, a load may return the value of the previous one.
`written` keeps each record with the position where it starts, for the
properties; the reader uses the ring only.

**WebPage.** `load` follows each GET `/hits`; `promise` is the `refreshAll` a
`connect` awaits; `source`, `abort` and `timer` are the fields of `state`.
`stream` is what really happens to each connection, so that one the page has
forgotten can be told from one it has closed.  `Closed` is `closeStream`,
`FallBack` the two-second timer with `openFetchStream`; `Break` ends a
connection, and a browser opens an `EventSource` again by itself.  The server's
side is `push_hit`, `get_hits` and `stream_hits`, whose own model is
`HitPipeline`.

## 3. Runs

| Run | Checks | Bounds |
|---|---|---|
| `blocking` | `InFlightBounded`, `PermitAccounting`, `HandlersAnswered`, `PermitsComeBack` | 3 jobs, 1 join task, 2 permits, 2 threads |
| `cli` | `NothingLeftArmed`, `TimeoutExits` | 1 watch, 2 threads, 2 tolerated errors |
| `watch_threads` | refutes `AllThreadsWatched` | 1 watch, 2 threads |
| `server` | `NoLostWatch`, `DeleteIsFinal`, `ListedUnlessGivenUp`, `FailedCreateLeavesNothing` | 2 creates, 2 clients, 1 thread, 2 permits and pool threads |
| `server_live` | `KernelStateOwned`, `AtMostOneLateRound`, `DeleteReleasesAll`, `LiveGetsListed`, `QueuedCallsStart` | 1 create on 2 threads, 1 other job, 1 client, 2 permits, 1 pool thread |
| `hits` | `NothingUncounted`, `OrderKept`, `BufferIsNewest`, `StreamAccounting`, `ImplementsFeed`, `AcceptedGetsSent` | 5 samples, 2 breakpoints, queue, ring and channel of 2, 1 stream |
| `maps` | `EntriesAgeHonestly`, `FoundWasThere`, `MissingWasMissing`, `ForcedIsCurrent` | 2 callers, 2 addresses, 3 instants, entries valid for 2 |
| `memory` | types, `NoStaleByte`, `OnlyOwnRange`, `RowsTileRead` | 3 requests, 4 bytes, rows of 2, 2 permits; 5 ranges |
| `memory_status` | refutes `WorkerFailuresAre500` | 2 requests, 1 permit |
| `filter` | types, `AcceptsFilters`, `MatchesItsMeaning`, `SpacesOnlyBetweenWords` | 11 tokens: 3 predicates, or 2 with masks |
| `perf` | `UnreadIntact`, `SamplesExact`, `EveryRecordRead` | 4 records, ring of 11 words, batches of 2, chains of 0 and 1, 1 register |
| `web` | `OneFeed`, `ShownInOrder`, `StreamSettles` | 2 connects, 1 refresh, 2 hits, limits 1 and 3 |

The type invariants of `Blocking`, `Watch`, `Server`, `HitPipeline` and
`MapsCache` are proved (section 5) and not checked again.

Why the bounds suffice for the cases of interest: in each run every bounded
resource can be exhausted (more jobs than permits, more samples than the queue
and the channel hold, more hits than the ring keeps); each lock has at least
two contenders; a cache entry lives through fresh, stale and refreshed by
somebody else; an address range can end exactly at, one before and beyond the
last address; a watch may lose none, some or all of its threads.  Two tolerated
errors distinguish the first error from the last.  The run `memory` has three
requests because a late write needs one writer that timed out, one that was
acknowledged and a reader; its ranges are two that overlap, of which one ends
with the last address and has no next one and the other ends one byte before it
and has, and an empty one, one that is a byte too long and one that goes over
the end.  In `perf` the ring holds one record of the longest kind and part of
another, so that four records wrap around at each of their words and one
can be lost; a batch of two leaves records behind.  In `web` two connects are
enough for each to open its stream after the other has, and two hits for one to
be in the ring and not yet broadcast.  A ring of hits with limit 0 is not in a
run; the proofs cover it.

Deadlock is not checked: requests are finite in number in every model, so the
models come to rest.

What the two refuted properties show:

* `watch_threads`: `README.md:17` speaks of a watchpoint on "all threads in the
  process".  If the driver refuses some threads, `watch.rs:52` logs a warning
  and the watch starts with the others; the view sent to the client names them
  all.
* `memory_status`: `README.md:88` says "Driver failures return 502, worker
  failures 500".  Both memory handlers map every error of `blocking::run`,
  exhausted permits and timeouts included, to 502 (`memory_api.rs:164`, `192`).

Remarks that the models make precise:

* Each running watch occupies a thread of the pool (`watch.rs:110`); tokio's
  default is 512 threads.  With as many running watches as threads, calls are
  queued, and hold their permits, until a watch is deleted.  `PermitsComeBack`
  is checked with a thread to spare and does not show this; the run
  `server_live` has one thread, and `QueuedCallsStart` says that nothing but
  such watches can keep a call in the queue, and that a DELETE frees it.
* A write that was answered with a timeout still happens, and may overwrite one
  that was sent and acknowledged later; `NoStaleByte` states exactly this
  exception.
* A listed breakpoint whose poller has given up is still shown as running;
  `ListedUnlessGivenUp` says that there is no other reason.
* The poller tries to remove each breakpoint once and ignores the error
  (`watch.rs:103`).  One that the driver refuses to remove stays armed, as far as
  the program can tell, without anybody who will try again: `KernelStateOwned`,
  `DeleteReleasesAll` and `NothingLeftArmed` make this exception, and DELETE
  answers 204 all the same.
* `NothingLeftArmed` names the five ways in which `pwatch watch` leaves
  breakpoints in the kernel: the driver refuses to remove one, `thread::spawn`
  panics, standard output is closed under the poller (`main.rs:180`), the join
  task never got a thread, or a signal.  The last is the ordinary end of a run without `--timeout`: no signal
  is handled.  Whether the driver removes them when the descriptor is closed is
  not visible in this repository.
* The page may show one hit twice: it is in the answer of GET `/hits` and is
  broadcast after the stream was subscribed.  Hits between that answer and the
  subscription are not shown at all.  `ShownInOrder` says that nothing worse
  happens, unless the list is reloaded while a stream is subscribed: then the
  older answer may replace hits that the stream has shown, in any order.
* Of two overlapping connects, one that fails sets the status to "Disconnected"
  although the other's stream is live (`app.js:127`).
* `PerfMap::new` keeps its mapping when the version check or `AsyncFd::new`
  fails (`perf.rs:93-99`); for a record of lost events it logs the id in front
  of the count (`perf.rs:133`).

## 4. Fairness

* `Blocking`: the runtime polls a handler whose task or timer is ready
  (`HandlerFairness`).  Nothing is assumed about the pool or the kernel for
  `HandlersAnswered`; `PermitsComeBack` names these assumptions itself.
* `Server`: handlers past their `try_lock`, pool threads and pollers are
  scheduled, and native calls return.  Insertion into the map is strongly fair:
  the job blocks on a mutex that handlers take again and again for a few
  instructions, and a futex that starved its waiter for ever would break any
  program.  No fairness is assumed of clients.
* `HitPipeline`: the hit worker is a thread of its own (weak fairness of its
  steps).  Nothing is assumed about pollers, readers and streams.
* `CommandLine`: the timer fires, the runtime ends its shutdown once it may,
  and the poller's own code runs.  That ioctls return is an assumption which
  `TimeoutExits` names itself (`DriverFairness`); without it the exit can wait
  for ever, which is what `watch.rs:145` says of the driver's poll.
* `PerfRing`: the task is polled when it is ready and the runtime polls epoll;
  nothing is assumed of the kernel.
* `WebPage`: a fetch is answered or fails and a timer fires.  Nothing is assumed
  of an `EventSource`, of the server or of the user.

## 5. Proofs

The proofs hold for every value of the constants that satisfies the named
assumptions:

* `BlockingAssumption`, `WatchAssumption`: finite sets of jobs, join tasks and
  threads, positive limits;
* `ServerAssumption`: join tasks are named after watches, watches are jobs, and
  clients are neither;
* `PipelineAssumption`: the queue and the channel hold at least one element; the
  ring's limit may be 0;
* `MapsAssumption`: an entry is valid for a positive time;
* `MemoryAssumption`: the size limits and the last address are naturals, a row
  has at least one byte, and no job bears the name that stands for a byte
  nobody has written;
* `OneWatch`: `pwatch watch` has one watch;
* `FilterAssumption`: register indices and values are naturals, and no
  connective is spelled like a register, a number, an operator or `&`;
* `RingAssumption`: the ring and a batch are not empty, and chains have lengths;
* `WebPageAssumption`: limits are naturals, 0 included.

**PartsProofs**, the bounded worker: `BlockingTypeCorrect`, `PermitsConserved`,
`BoundedInFlight`.  `PermitAccounting` is not inductive alone: `Return` and
`RunTask` must know that a task in the pool's queue is really "queued" and is in
it only once (or one task could be picked up twice), and that an idle caller has
no job.  `BlockingInv` adds these.  Cardinalities are handled with the library's
facts about adding and removing one element.  `AnswersTruthful` says what a
handler may conclude from the answer of `blocking::run`: success, an error and a
panic are how its own call ended, and "exhausted" means that nothing was spawned.

**PartsProofs**, the watch: `WatchTypeCorrect`, `KernelStateAlwaysOwned`, `StopIsPrompt`.
The invariant `WatchInv` says for each watch how the phase of the start, the
poller, the set of breakpoints left in the loop and the late polls fit
together: what is armed is still to be removed by the clean-up loop, or was
refused by the driver (`ArmedAwaitsRemoval`), and after cancellation the polls
still to come in this round and those already made late never exceed the number
of breakpoints.  A lemma shows that
a step of one watch leaves the invariant of the others alone.
`PollerEndsForAReason` is an invariant of its own: a poller that is in its loop
has seen fewer errors in a row than the limit, so that it begins no round after
that many, and it is behind the loop only after a cancellation or that many
errors.  That it gets there is liveness, which is left to the runs.

**ServerProofs**: the server's steps are built from those of `Watch` and
`Blocking`, so the components' invariants carry over (`ServerRunsWatches`,
`ServerRunsBlocking`; lemmas, since the composition makes them so).
`ServerTypeCorrect`, `WatchNeverLost` and `DeleteFinal` then follow from
`ServerInv`, the conjunction of the components' invariants and `MapInv`: ids are unique and
below the counter, an entry of the map belongs to a live watch that no DELETE
holds, the mutex is held by whom it says, a watch is not listed before its job
inserts it, and acknowledgements and cancellations agree.  `ListedIsPolled` puts
`MapInv` and `PollerEndsForAReason` together: what is listed is not cancelled,
so that its poller can only have given up.  `FailedCreateIsClean` needs to know
that the answer "err" is given only by a job that has come to the end of a
failed start (`ErrorEndsStart`), where the start's own invariant says that
nothing is armed or open; a timeout says nothing of the kind.

**MapsCacheProofs**: `MapsTypeCorrect`, `EntriesNeverTooYoung`,
`FoundMappingsAreFresh`, `MissingIsConfirmed`, `ForcedListsAreCurrent`.
`MapsInv` adds to the properties what ties a call's instants together: it takes
the time when it begins, before it reads, and it reads before it stores; calls other than resolving are forced, and nothing is answered
before a resolving pass.  A forced pass sees only regions read after the call
began, which is why an address that is missing in it was missing then.

**HitPipelineProofs**: `PipelineTypeCorrect`, `NoSampleLost`, `HitsInOrder`,
`RingIsNewest`, `StreamsAccounted`, `PipelineImplementsFeed`.  `OrderKept` says
something of broadcast hits only; `PipelineInv` carries the order back through
the hit in the worker's hands to the queue (`RanksGrow`), ties the next number
to what has been sent (`Numbers`), and says that the ring is only touched when
its limit is positive.  The lemma behind `RingIsNewest` is that popping until
there is room and then pushing gives the newest part of the longer log
(`NewestOfAppend`).  For the refinement, `PushedStep` shows that a step of the
callback or the worker changes the log and the ring together or not at all:
when the ring is written, or, with a limit of 0, when the hit is numbered.  A
stream that subscribes or lags takes a position that `HitFeed` allows because
the log is never behind what has been broadcast.

**MemoryProofs**: `MemoryTypeCorrect`, `OnlyOwnRangeTouched`,
`NoStaleByteShown`, `ReadsAreTiled`.  `NoStaleByte` speaks of acknowledged
writes, and is not inductive: whether a byte may be overwritten
later is settled while the driver still copies.  `MemoryInv` says of every write,
from its first byte on, that the bytes it has copied are only replaced by calls
that had not been answered for good when it was sent (`WrittenFresh`).  That
holds because such an answer means that the closure is over, which is
`AnswersTruthful`; a timeout means nothing, hence the exception.  `ReadsAreTiled` is arithmetic about
`Rows` and `NextAddr`, for a last row of any length and a range that ends with
the address space.

**CommandLineProofs**: `NothingLeftBehind`.  `CliInv` needs less than `WatchInv`:
it follows the phases of the main thread and of the join task beside those of
the start and the poller.  The exit waits for a join task that has started, the
task ends after the poller, and the poller has then removed what was armed and
the driver did not refuse to remove, unless it unwound because standard output
was closed.

**WebPageProofs**: `OneStreamFeeds`, `ListShownInOrder`.  For the first, every
action that makes a stream live closes the one before (`ClosedStreams`), or is
the continuation of the one that `source` or `abort` names.  For the second,
`PageInv` ties the list to the server: the ring is at most one hit ahead of the
broadcast (`ServerOrder`), so that the hit after a stream's position may be on
the list, none later is, and once one is there twice not even that
(`ListOrdered`).  The lemmas `NewestInherits` and `AppendOrdered` say what the
cuts to the limits and the arrival of a hit do to an ordered list.

**SampleProofs**, the register filter: `FilterTypeCorrect`,
`ExactlyFiltersAccepted`, `FilterMeansItsText`.  `FilterInv` relates what the
parser has built to the tokens before its cursor.  It names two positions: the
first token of the current group (`g`) and of the current predicate (`f`); the
tokens from `f` on are the part of a predicate that fits the phase
(`ReadSoFar`), the pieces before `f` are predicates (`PredicatesBefore`), each
finished group selects what a piece between "or"s before `g` means
(`GroupsMean`), and the current one what those between `g` and `f` mean
(`GroupMeans`).  The lemmas are about `Pieces`: a pair is a piece if a cut or an
end is on each side and none within it (`PieceMembers`), what is behind the
cursor does not change the pieces before it, a cut adds one, and the pieces
between all connectives are those between "and"s within those between "or"s
(`PieceOfGroup`).  For the errors, `Refused` shows that a token that does not fit
spoils the piece it is in, whatever follows it: `NextCut` finds the end of that
piece in any continuation.

**SampleProofs**, the perf ring: `RingInvariant`, `UnreadNeverOverwritten`,
`SamplesDelivered`, `RingTypeCorrect`, `ReaderNeverPastHead`.  The properties are
not inductive.  `RingInv` says that the records written tile the positions up to
`data_head` without a gap (`Tiles`), that each is one of the kernel's records and
in the ring word by word unless it is behind the reader (`History`), that the
reader is at the start of one and the `data_head` it has loaded, however old, is
the start of this or a later one (`ReaderAt`), and that the callback has got what
the records before hold (`Handed`).  `Around` is the arithmetic of the ring: where
a position lies from `data_head`, going round, decides whether the kernel's
write hits it; since the kernel never fills the ring to the last word, it hits
nothing between `data_tail` and `data_head` (`RingWritten`).  `SampleRead` follows
`read_sample` through the words of a sample with and without a call chain and
registers.  `NeverPastHead` matters because the loop tests only whether position
and `data_head` differ.

Only model-checked: all liveness under fairness, which is outside the prover's
reach like `ENABLED`; and `SpacesOnlyBetweenWords`, which is about a recursive
tokenizer: what a recursive definition computes for every text is known by
induction over texts, which is out of reach too.  Every other invariant that a
run checks is proved, and the refinement of `HitFeed`; the two refuted
properties are not.

## 6. Not modelled

* The parsers of watch types, addresses and maps lines, JSON, SSE framing:
  conversions of text without state.  Their outcomes
  are inputs of the models (a request is valid or malformed).
* Several processes in the maps cache: their entries do not meet.
* Torn reads of a maps file while the target remaps (`maps.rs:255`): a read is
  one step.
* The text of a hit (`hit.rs`), backtraces, register values outside the filter.
* Weakly ordered memory in `perf.rs` (`perf.rs:116-139` on aarch64): accesses
  other than that of `data_head` keep the order of the program.
* The page's lists of breakpoints, processes and maps: each is replaced by
  whatever answer comes last (`app.js:140`), and nothing else depends on them.
* GET `/processes`: it reads `/proc` and filters text, and keeps no state; its
  job is one of the other jobs of `Server`.
* Driver calls for maps filters (`lk1337.rs:178-205`): nothing calls them.
* Poisoned mutexes: what runs under them is short operations on a map or a
  ring that do not panic.
* The register tables, the example target, the page's layout and styles.

## 7. State of the project

Done, in this order: `Blocking`, `Watch`, `Server`, `HitFeed` and
`HitPipeline`, `MapsCache`, `Memory`, `RegFilter`; proofs of the first three,
of `MapsCache` and of `HitPipeline`; then `CommandLine`, `PerfRing`, `WebPage`
and the tokenizer; the remaining safety invariants of `Server` and the proofs
of `Memory`, `CommandLine` and `WebPage`; last those of `RegFilter` and
`PerfRing`.  For these the tokenizer moved to `RegText`, and the records of the
ring became a history with their positions.

Left as a model: the hit worker composed with the maps cache.  The worker only
waits for the cache's answer, so a composition would add no interleaving that
`HitPipeline` (`MakeHit` may take any time) and `MapsCache` (callers at any
moment) do not have.
