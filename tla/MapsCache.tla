------------------------------ MODULE MapsCache ------------------------------
(***************************************************************************)
(* The cache of /proc/<pid>/maps (src/maps.rs).  The hit worker and any    *)
(* number of blocking jobs look addresses up in it at the same time.  A    *)
(* call takes the time once, looks at the cached entry under a mutex,      *)
(* reads the file without the mutex and takes the mutex again to store     *)
(* what it read; in between other calls may have stored something else and *)
(* the target may have remapped its memory.                                *)
(*                                                                         *)
(* Entries of different processes never meet, so the module models the     *)
(* entry of one process.  A layout says which module each address belongs  *)
(* to.  world[i] is the layout at instant i, Len(world) is the present,    *)
(* and a list of regions is represented by the instant it was read at: its *)
(* content is world at that instant.                                       *)
(***************************************************************************)
EXTENDS Integers, Sequences

CONSTANTS
  Callers,  \* the threads that use the cache
  Addrs,    \* addresses, ordered as the file orders them
  Modules,  \* path names of mappings
  Unmapped, \* stands for no mapping
  Ttl,      \* how long an entry is used (1 s)
  MaxTime   \* bound of the model: the last instant

ASSUME MapsAssumption ==
  /\ Addrs \subseteq Int
  /\ Unmapped \notin Modules
  /\ Ttl \in Nat \ {0}
  /\ MaxTime \in Nat \ {0}

VARIABLES
  world,   \* the layouts of the target so far, the present one last
  cache,   \* the cached entry, in a sequence of at most one
  pc,      \* where each caller is
  op,      \* the call it makes
  now,     \* the instant the call began, which regions_with is given
  force,   \* its force_refresh
  want,    \* the addresses still to be resolved
  module,  \* the module of a module+offset expression
  seen,    \* the regions in hand, by the instant they were read; 0 for none
  answer,  \* for each address, the regions it was found in; 0 for None
  failed   \* history: a read made by this call failed

vars == <<world, cache, pc, op, now, force, want, module, seen, answer, failed>>

Layouts == [Addrs -> Modules \cup {Unmapped}]
Entries == [loadedAt : Nat, readAt : Nat]
Clock == Len(world)
Mapped(i, a) == world[i][a] # Unmapped

Init ==
  /\ \E layout \in Layouts : world = <<layout>>
  /\ cache = <<>>
  /\ pc = [c \in Callers |-> "idle"]
  /\ op = [c \in Callers |-> "list"]
  /\ now = [c \in Callers |-> 1]
  /\ force = [c \in Callers |-> FALSE]
  /\ want = [c \in Callers |-> {}]
  /\ module \in [Callers -> Modules]
  /\ seen = [c \in Callers |-> 0]
  /\ answer = [c \in Callers |-> [a \in Addrs |-> 0]]
  /\ failed = [c \in Callers |-> FALSE]

\* Time passes, and the target may map and unmap as it likes.
Tick ==
  /\ Clock < MaxTime
  /\ \E layout \in Layouts : world' = Append(world, layout)
  /\ UNCHANGED <<cache, pc, op, now, force, want, module, seen, answer, failed>>
-----------------------------------------------------------------------------
(* The calls. *)

Free(c) == pc[c] \in {"idle", "done", "error"}

Call(c, operation, forced, addrs) ==
  /\ Free(c)
  /\ pc' = [pc EXCEPT ![c] = "check"]
  /\ op' = [op EXCEPT ![c] = operation]
  /\ now' = [now EXCEPT ![c] = Clock]
  /\ force' = [force EXCEPT ![c] = forced]
  /\ want' = [want EXCEPT ![c] = addrs]
  /\ seen' = [seen EXCEPT ![c] = 0]
  /\ answer' = [answer EXCEPT ![c] = [a \in Addrs |-> 0]]
  /\ failed' = [failed EXCEPT ![c] = FALSE]
  /\ UNCHANGED <<world, cache>>

\* list
List(c) == Call(c, "list", TRUE, {}) /\ UNCHANGED module

\* resolve_many_addresses; resolve is the case of one address.
Resolve(c, addrs) == Call(c, "resolve", FALSE, addrs) /\ UNCHANGED module

\* resolve_module_offset: the base of the module, from a fresh list.
ResolveModule(c, m) ==
  /\ Call(c, "module", TRUE, {})
  /\ module' = [module EXCEPT ![c] = m]

\* resolve_expression goes on with resolve: a lookup like any other, with a
\* time of its own and nothing left of the list the module was found in.
ResolveLocated(c) ==
  /\ pc[c] = "located"
  /\ pc' = [pc EXCEPT ![c] = "check"]
  /\ op' = [op EXCEPT ![c] = "resolve"]
  /\ now' = [now EXCEPT ![c] = Clock]
  /\ force' = [force EXCEPT ![c] = FALSE]
  /\ seen' = [seen EXCEPT ![c] = 0]
  /\ UNCHANGED <<world, cache, want, module, answer, failed>>
-----------------------------------------------------------------------------
(* What a call does with a list of regions, read at instant i. *)

Bases(i, m) == {a \in Addrs : world[i][a] = m}

Return(c, i) ==
  /\ pc' = [pc EXCEPT ![c] = "done"]
  /\ seen' = [seen EXCEPT ![c] = i]
  /\ UNCHANGED <<force, want, answer>>

\* find takes the first region of the module.  The offset of the expression
\* may lead to any address from its start on, or out of 64 bits: the error of
\* checked_add is reported like that of a module which is not there.
Locate(c, i) ==
  \/ /\ pc' = [pc EXCEPT ![c] = "error"]
     /\ UNCHANGED <<force, want, seen, answer>>
  \/ /\ \E a \in Bases(i, module[c]), target \in Addrs :
          /\ \A b \in Bases(i, module[c]) : a <= b
          /\ a <= target
          /\ want' = [want EXCEPT ![c] = {target}]
     /\ pc' = [pc EXCEPT ![c] = "located"]
     /\ seen' = [seen EXCEPT ![c] = i]
     /\ UNCHANGED <<force, answer>>

\* After the unforced pass, what is still missing is looked up once more.
NextPass(c, missing) ==
  /\ want' = [want EXCEPT ![c] = missing]
  /\ \/ /\ missing # {} /\ ~force[c]
        /\ force' = [force EXCEPT ![c] = TRUE]
        /\ pc' = [pc EXCEPT ![c] = "check"]
     \/ /\ missing = {} \/ force[c]
        /\ UNCHANGED force
        /\ pc' = [pc EXCEPT ![c] = "done"]

\* Faulty variant: the refresh is skipped when something was found.
LookUpOnce(c, i) ==
  LET hits == {a \in want[c] : Mapped(i, a)}
  IN  /\ answer' = [answer EXCEPT ![c] = [a \in Addrs |-> IF a \in hits THEN i ELSE @[a]]]
      /\ seen' = [seen EXCEPT ![c] = 0]
      /\ want' = [want EXCEPT ![c] = @ \ hits]
      /\ \/ /\ hits = {} /\ ~force[c]
            /\ force' = [force EXCEPT ![c] = TRUE]
            /\ pc' = [pc EXCEPT ![c] = "check"]
         \/ /\ hits # {} \/ force[c]
            /\ UNCHANGED force
            /\ pc' = [pc EXCEPT ![c] = "done"]

\* resolve_against_regions, and the merge of the second pass into the first.
LookUp(c, i) ==
  LET hits == {a \in want[c] : Mapped(i, a)}
  IN  /\ answer' = [answer EXCEPT ![c] = [a \in Addrs |-> IF a \in hits THEN i ELSE @[a]]]
      /\ seen' = [seen EXCEPT ![c] = 0]
      /\ NextPass(c, want[c] \ hits)

Regions(c, i) ==
  \/ op[c] = "list" /\ Return(c, i)
  \/ op[c] = "module" /\ Locate(c, i)
  \/ op[c] = "resolve" /\ LookUp(c, i)

\* resolve_cached turns an error into None, resolve_many_addresses into no
\* regions at all: both go on to the next pass.  The others report it.
NoRegions(c) ==
  \/ /\ op[c] # "resolve"
     /\ pc' = [pc EXCEPT ![c] = "error"]
     /\ UNCHANGED <<force, want>>
  \/ op[c] = "resolve" /\ NextPass(c, want[c])
-----------------------------------------------------------------------------
(* regions_with *)

Cached == cache[1]

\* Faulty variant: an entry is used for one instant too long.
StaleLater(c) == cache # <<>> => now[c] - Cached.loadedAt > Ttl

\* duration_since saturates, so an entry from the future is not stale.
Stale(c) == cache # <<>> => now[c] - Cached.loadedAt >= Ttl

\* Faulty variant: force_refresh is not looked at.
UseCachedAlways(c) ==
  /\ pc[c] = "check"
  /\ ~Stale(c)
  /\ Regions(c, Cached.readAt)
  /\ UNCHANGED <<world, cache, op, now, module, failed>>

UseCached(c) ==
  /\ pc[c] = "check"
  /\ ~force[c] /\ ~Stale(c)
  /\ Regions(c, Cached.readAt)
  /\ UNCHANGED <<world, cache, op, now, module, failed>>

MustRead(c) ==
  /\ pc[c] = "check"
  /\ force[c] \/ Stale(c)
  /\ pc' = [pc EXCEPT ![c] = "read"]
  /\ UNCHANGED <<world, cache, op, now, force, want, module, seen, answer, failed>>

\* read_maps, without the mutex.
ReadMaps(c) ==
  /\ pc[c] = "read"
  /\ pc' = [pc EXCEPT ![c] = "store"]
  /\ seen' = [seen EXCEPT ![c] = Clock]
  /\ UNCHANGED <<world, cache, op, now, force, want, module, answer, failed>>

\* The process is gone, or may not be read.
ReadFails(c) ==
  /\ pc[c] = "read"
  /\ failed' = [failed EXCEPT ![c] = TRUE]
  /\ NoRegions(c)
  /\ UNCHANGED <<world, cache, op, now, module, seen, answer>>

\* Faulty variant: the entry is dated when it is stored.
UpdateDatedLate(c) ==
  /\ force[c] \/ Stale(c)
  /\ cache' = <<[loadedAt |-> Clock, readAt |-> seen[c]]>>
  /\ Regions(c, seen[c])

\* The entry is dated with the instant the caller took before it read.
Update(c) ==
  /\ force[c] \/ Stale(c)
  /\ cache' = <<[loadedAt |-> now[c], readAt |-> seen[c]]>>
  /\ Regions(c, seen[c])

\* Somebody else has refreshed the entry: the caller uses that one.
Discard(c) ==
  /\ ~force[c] /\ ~Stale(c)
  /\ UNCHANGED cache
  /\ Regions(c, Cached.readAt)

Store(c) ==
  /\ pc[c] = "store"
  /\ Update(c) \/ Discard(c)
  /\ UNCHANGED <<world, op, now, module, failed>>
-----------------------------------------------------------------------------
Next ==
  \/ Tick
  \/ \E c \in Callers :
       \/ List(c)
       \/ \E addrs \in SUBSET Addrs \ {{}} : Resolve(c, addrs)
       \/ \E m \in Modules : ResolveModule(c, m)
       \/ ResolveLocated(c)
       \/ UseCached(c)
       \/ MustRead(c)
       \/ ReadMaps(c)
       \/ ReadFails(c)
       \/ Store(c)

Spec == Init /\ [][Next]_vars
-----------------------------------------------------------------------------
TypeOK ==
  /\ world \in Seq(Layouts) /\ Clock \in 1..MaxTime
  /\ cache \in Seq(Entries) /\ Len(cache) <= 1
  /\ pc \in [Callers -> {"idle", "check", "read", "store", "located", "done", "error"}]
  /\ op \in [Callers -> {"list", "resolve", "module"}]
  /\ now \in [Callers -> Nat]
  /\ force \in [Callers -> BOOLEAN]
  /\ want \in [Callers -> SUBSET Addrs]
  /\ module \in [Callers -> Modules]
  /\ seen \in [Callers -> Nat]
  /\ answer \in [Callers -> [Addrs -> Nat]]
  /\ failed \in [Callers -> BOOLEAN]

\* However the calls interleave, an entry is never dated later than the
\* moment its content was read, so its age is never underestimated.
EntriesAgeHonestly ==
  cache # <<>> => Cached.loadedAt <= Cached.readAt /\ Cached.readAt <= Clock

\* An address is only ever resolved to a mapping that the target had less
\* than Ttl before the lookup began, or during it.
FoundWasThere ==
  \A c \in Callers, a \in Addrs :
    answer[c][a] > 0 =>
      /\ now[c] - answer[c][a] < Ttl
      /\ answer[c][a] <= Clock
      /\ Mapped(answer[c][a], a)

\* A lookup that ends without a mapping for an address has not trusted an old
\* entry: the address was unmapped at some moment of the lookup itself, unless
\* the target's maps could not be read.
MissingWasMissing ==
  \A c \in Callers :
    pc[c] = "done" /\ op[c] = "resolve" =>
      \A a \in want[c] : \/ failed[c]
                         \/ \E i \in now[c]..Clock : ~Mapped(i, a)

\* GET maps and module+offset expressions are answered from a list that was
\* read after the request began, never from an older one of another caller.
ForcedIsCurrent ==
  \A c \in Callers :
    (pc[c] = "done" /\ op[c] = "list") \/ pc[c] = "located" => seen[c] >= now[c]
=============================================================================
