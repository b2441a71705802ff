--------------------------- MODULE MapsCacheProofs ---------------------------
(***************************************************************************)
(* Proofs about MapsCache: what the answers of the cache are worth, for    *)
(* any number of callers, addresses and modules and any life of an entry.  *)
(***************************************************************************)
EXTENDS MapsCache, TLAPS

\* The instants of a call are in order, and a list in hand is no older than
\* the instant that its entry will be dated with.
InstantsInOrder(c) ==
  /\ 1 <= now[c] /\ now[c] <= Clock
  /\ pc[c] = "store" => now[c] <= seen[c] /\ seen[c] <= Clock

\* Only resolving fills in answers, and everything else reads the file.
AnswersFresh(c) ==
  /\ op[c] # "resolve" => answer[c] = [a \in Addrs |-> 0]
  /\ pc[c] \in {"check", "read", "store"} /\ op[c] # "resolve" => force[c]
  /\ pc[c] = "located" => op[c] = "module"

FoundOK(c) ==
  \A a \in Addrs :
    answer[c][a] > 0 =>
      /\ now[c] - answer[c][a] < Ttl
      /\ answer[c][a] <= Clock
      /\ Mapped(answer[c][a], a)

MissingOK(c) ==
  pc[c] = "done" /\ op[c] = "resolve" =>
    \A a \in want[c] : \/ failed[c]
                       \/ \E i \in now[c]..Clock : ~Mapped(i, a)

ForcedOK(c) ==
  (pc[c] = "done" /\ op[c] = "list") \/ pc[c] = "located" => seen[c] >= now[c]

CallerOK(c) ==
  InstantsInOrder(c) /\ AnswersFresh(c) /\ FoundOK(c) /\ MissingOK(c) /\ ForcedOK(c)

EntryOK == cache # <<>> => 1 <= Cached.readAt

MapsInv ==
  TypeOK /\ EntryOK /\ EntriesAgeHonestly /\ \A c \in Callers : CallerOK(c)

callerVars(c) ==
  <<pc[c], op[c], now[c], force[c], want[c], module[c], seen[c], answer[c],
    failed[c]>>
-----------------------------------------------------------------------------
(* Types. *)

\* The first state is well typed.
LEMMA TypeInit == Init => TypeOK
BY MapsAssumption DEF Init, TypeOK, MapsAssumption, Layouts, Entries, Clock

\* There is an entry to be used when it is not stale.
LEMMA EntryType ==
  ASSUME TypeOK, cache # <<>>
  PROVE  Cached \in Entries /\ Cached.loadedAt \in Nat /\ Cached.readAt \in Nat
<1>1. cache \in Seq(Entries) /\ Len(cache) > 0
  BY DEF TypeOK
<1>2. cache[1] \in Entries
  BY <1>1
<1> QED BY <1>2 DEF Cached, Entries

\* What Regions changes keeps its type.
LEMMA RegionsType ==
  ASSUME TypeOK, NEW c \in Callers, NEW i \in Nat, Regions(c, i)
  PROVE  /\ pc' \in [Callers -> {"idle", "check", "read", "store", "located", "done", "error"}]
         /\ force' \in [Callers -> BOOLEAN]
         /\ want' \in [Callers -> SUBSET Addrs]
         /\ seen' \in [Callers -> Nat]
         /\ answer' \in [Callers -> [Addrs -> Nat]]
<1>1. CASE op[c] = "list" /\ Return(c, i)
  BY <1>1 DEF TypeOK, Return
<1>2. CASE op[c] = "module" /\ Locate(c, i)
  <2>1. CASE /\ pc' = [pc EXCEPT ![c] = "error"]
             /\ UNCHANGED <<force, want, seen, answer>>
    BY <2>1 DEF TypeOK
  <2>2. ASSUME NEW target \in Addrs,
               want' = [want EXCEPT ![c] = {target}],
               pc' = [pc EXCEPT ![c] = "located"],
               seen' = [seen EXCEPT ![c] = i],
               UNCHANGED <<force, answer>>
        PROVE  /\ pc' \in [Callers -> {"idle", "check", "read", "store", "located", "done", "error"}]
               /\ want' \in [Callers -> SUBSET Addrs]
               /\ seen' \in [Callers -> Nat]
               /\ UNCHANGED <<force, answer>>
    BY <2>2 DEF TypeOK
  <2> QED BY <1>2, <2>1, <2>2 DEF Locate, TypeOK
<1>3. CASE op[c] = "resolve" /\ LookUp(c, i)
  <2>1. /\ answer' = [answer EXCEPT ![c] =
                       [a \in Addrs |-> IF a \in {b \in want[c] : Mapped(i, b)} THEN i ELSE @[a]]]
        /\ seen' = [seen EXCEPT ![c] = 0]
        /\ NextPass(c, want[c] \ {b \in want[c] : Mapped(i, b)})
    BY <1>3 DEF LookUp
  <2>2. answer' \in [Callers -> [Addrs -> Nat]]
    BY <2>1 DEF TypeOK
  <2>3. seen' \in [Callers -> Nat]
    BY <2>1 DEF TypeOK
  <2>4. want[c] \ {b \in want[c] : Mapped(i, b)} \in SUBSET Addrs
    BY DEF TypeOK
  <2> QED BY <2>1, <2>2, <2>3, <2>4 DEF TypeOK, NextPass
<1> QED BY <1>1, <1>2, <1>3 DEF Regions
\* Steps keep the variables in their types.
LEMMA TypeStep ==
  ASSUME TypeOK, Next
  PROVE  TypeOK'
<1>1. CASE Tick
  <2>1. PICK layout \in Layouts : world' = Append(world, layout)
    BY <1>1 DEF Tick
  <2> QED BY <1>1, <2>1, MapsAssumption DEF Tick, TypeOK, Clock, MapsAssumption
<1>2. ASSUME NEW c \in Callers, NEW operation \in {"list", "resolve", "module"},
             NEW forced \in BOOLEAN, NEW addrs \in SUBSET Addrs,
             NEW m \in [Callers -> Modules],
             Call(c, operation, forced, addrs), module' = m
      PROVE  TypeOK'
  <2>1. Clock \in Nat
    BY DEF TypeOK, Clock
  <2>2. answer' \in [Callers -> [Addrs -> Nat]]
    BY <1>2 DEF TypeOK, Call
  <2> QED BY <1>2, <2>1, <2>2 DEF TypeOK, Call, Clock
<1>3. ASSUME NEW c \in Callers, List(c) PROVE TypeOK'
  BY <1>2, <1>3 DEF List, TypeOK
<1>4. ASSUME NEW c \in Callers, NEW addrs \in SUBSET Addrs, Resolve(c, addrs)
      PROVE  TypeOK'
  BY <1>2, <1>4 DEF Resolve, TypeOK
<1>5. ASSUME NEW c \in Callers, NEW m \in Modules, ResolveModule(c, m) PROVE TypeOK'
  <2>1. module' \in [Callers -> Modules]
    BY <1>5 DEF ResolveModule, TypeOK
  <2> QED BY <1>2, <1>5, <2>1 DEF ResolveModule
<1>6. ASSUME NEW c \in Callers, ResolveLocated(c) \/ MustRead(c) \/ ReadMaps(c)
      PROVE  TypeOK'
  <2>1. Clock \in Nat
    BY DEF TypeOK, Clock
  <2>2. CASE ResolveLocated(c)
    BY <2>1, <2>2 DEF ResolveLocated, TypeOK, Clock
  <2>3. CASE MustRead(c)
    BY <2>3 DEF MustRead, TypeOK, Clock
  <2>4. CASE ReadMaps(c)
    BY <2>1, <2>4 DEF ReadMaps, TypeOK, Clock
  <2> QED BY <1>6, <2>2, <2>3, <2>4
<1>7. ASSUME NEW c \in Callers, UseCached(c) PROVE TypeOK'
  <2>1. Cached.readAt \in Nat
    BY <1>7, EntryType DEF UseCached, Stale
  <2> QED BY <1>7, <2>1, RegionsType DEF UseCached, TypeOK, Clock
<1>8. ASSUME NEW c \in Callers, ReadFails(c) PROVE TypeOK'
  <2>1. /\ pc' \in [Callers -> {"idle", "check", "read", "store", "located", "done", "error"}]
        /\ force' \in [Callers -> BOOLEAN]
        /\ want' \in [Callers -> SUBSET Addrs]
    BY <1>8 DEF ReadFails, NoRegions, NextPass, TypeOK
  <2> QED BY <1>8, <2>1 DEF ReadFails, TypeOK, Clock
<1>9. ASSUME NEW c \in Callers, Store(c) PROVE TypeOK'
  <2>1. CASE Update(c)
    <3>1. seen[c] \in Nat /\ now[c] \in Nat
      BY DEF TypeOK
    <3>2. cache' \in Seq(Entries) /\ Len(cache') <= 1
      BY <2>1, <3>1 DEF Update, Entries
    <3> QED BY <1>9, <2>1, <3>1, <3>2, RegionsType DEF Store, Update, TypeOK, Clock
  <2>2. CASE Discard(c)
    <3>1. Cached.readAt \in Nat
      BY <2>2, EntryType DEF Discard, Stale
    <3> QED BY <1>9, <2>2, <3>1, RegionsType DEF Store, Discard, TypeOK, Clock
  <2> QED BY <1>9, <2>1, <2>2 DEF Store
<1> QED BY <1>1, <1>3, <1>4, <1>5, <1>6, <1>7, <1>8, <1>9 DEF Next-----------------------------------------------------------------------------
(* Callers. *)

\* Nothing has happened at the start.
LEMMA CallersInit == Init => EntryOK /\ EntriesAgeHonestly /\ \A c \in Callers : CallerOK(c)
BY DEF Init, EntryOK, EntriesAgeHonestly, CallerOK, InstantsInOrder, AnswersFresh,
       FoundOK, MissingOK, ForcedOK, Clock

\* What holds of a caller is not disturbed by the steps of others.
LEMMA OthersKeepCaller ==
  ASSUME NEW d \in Callers, CallerOK(d), UNCHANGED <<world, callerVars(d)>>
  PROVE  CallerOK(d)'
BY DEF callerVars, CallerOK, InstantsInOrder, AnswersFresh, FoundOK, MissingOK,
       ForcedOK, Clock, Mapped

\* A longer history keeps what was true of each instant.
LEMMA TimeKeepsCaller ==
  ASSUME TypeOK, NEW d \in Callers, CallerOK(d), Tick
  PROVE  CallerOK(d)'
<1>1. PICK layout \in Layouts : world' = Append(world, layout)
  BY DEF Tick
<1>2. /\ Clock \in Nat /\ Clock' = Clock + 1
      /\ \A i \in 1..Clock : world'[i] = world[i]
  BY <1>1 DEF TypeOK, Clock
<1>3. /\ now[d] \in Nat /\ seen[d] \in Nat
      /\ answer[d] \in [Addrs -> Nat]
  BY DEF TypeOK
<1>4. UNCHANGED <<pc, op, now, force, want, seen, answer, failed>>
  BY DEF Tick
<1>5. InstantsInOrder(d)' /\ AnswersFresh(d)' /\ ForcedOK(d)'
  BY <1>2, <1>3, <1>4 DEF CallerOK, InstantsInOrder, AnswersFresh, ForcedOK
<1>6. FoundOK(d)'
  <2> SUFFICES ASSUME NEW a \in Addrs, answer[d][a] > 0
               PROVE  /\ now[d] - answer[d][a] < Ttl
                      /\ answer[d][a] <= Clock'
                      /\ Mapped(answer[d][a], a)'
    BY <1>4 DEF FoundOK
  <2>1. answer[d][a] \in 1..Clock
    BY <1>2, <1>3 DEF CallerOK, FoundOK
  <2> QED BY <1>2, <1>4, <2>1 DEF CallerOK, FoundOK, Mapped
<1>7. MissingOK(d)'
  <2> SUFFICES ASSUME pc[d] = "done", op[d] = "resolve", NEW a \in want[d], ~failed[d]
               PROVE  \E i \in now[d]..Clock' : ~Mapped(i, a)'
    BY <1>4 DEF MissingOK
  <2>1. PICK i \in now[d]..Clock : ~Mapped(i, a)
    BY DEF CallerOK, MissingOK
  <2>2. i \in 1..Clock /\ i \in now[d]..Clock'
    BY <1>2, <1>3, <2>1 DEF CallerOK, InstantsInOrder
  <2> QED BY <1>2, <2>1, <2>2 DEF Mapped
<1> QED BY <1>5, <1>6, <1>7 DEF CallerOK

\* A call with no answers yet is sound.
LEMMA CallKeepsCaller ==
  ASSUME TypeOK, NEW c \in Callers, NEW operation \in {"list", "resolve", "module"},
         NEW forced \in BOOLEAN, NEW addrs, Call(c, operation, forced, addrs),
         operation # "resolve" => forced
  PROVE  CallerOK(c)'
<1>1. Clock \in Nat /\ 1 <= Clock /\ Clock' = Clock
  BY DEF TypeOK, Clock, Call
<1>2. /\ pc'[c] = "check" /\ op'[c] = operation /\ now'[c] = Clock
      /\ force'[c] = forced
      /\ answer'[c] = [a \in Addrs |-> 0]
  BY DEF Call, TypeOK
<1>3. InstantsInOrder(c)' /\ AnswersFresh(c)' /\ MissingOK(c)' /\ ForcedOK(c)'
  BY <1>1, <1>2 DEF InstantsInOrder, AnswersFresh, MissingOK, ForcedOK
<1>4. FoundOK(c)'
  BY <1>2 DEF FoundOK
<1> QED BY <1>3, <1>4 DEF CallerOK

\* A caller that obtains regions read at instant i makes the right use of
\* them if they are young enough and, when forced, read by this call.
LEMMA RegionsKeepCaller ==
  ASSUME TypeOK, NEW c \in Callers, CallerOK(c), NEW i \in 1..Clock, Regions(c, i),
         pc[c] \in {"check", "store"}, now[c] - i < Ttl, force[c] => now[c] <= i,
         UNCHANGED <<world, op, now, failed>>
  PROVE  CallerOK(c)'
<1>1. /\ Clock \in Nat /\ Clock' = Clock /\ i \in Nat
      /\ now[c] \in Nat /\ 1 <= now[c]
      /\ now[c] <= Clock
  BY DEF TypeOK, Clock, CallerOK, InstantsInOrder
<1>2. op[c] # "resolve" => force[c] /\ now[c] <= i
  BY <1>1 DEF CallerOK, AnswersFresh
<1>3. FoundOK(c)
  BY DEF CallerOK
<1>4. CASE op[c] = "list" /\ Return(c, i)
  <2>1. pc'[c] = "done" /\ seen'[c] = i /\ answer' = answer
    BY <1>4 DEF Return, TypeOK
  <2>2. InstantsInOrder(c)' /\ AnswersFresh(c)' /\ MissingOK(c)' /\ ForcedOK(c)'
    BY <1>1, <1>2, <1>4, <2>1
    DEF CallerOK, InstantsInOrder, AnswersFresh, MissingOK, ForcedOK
  <2>3. FoundOK(c)'
    BY <1>1, <1>3, <2>1 DEF FoundOK, Mapped
  <2> QED BY <2>2, <2>3 DEF CallerOK
<1>5. CASE op[c] = "module" /\ Locate(c, i)
  <2>1. /\ pc'[c] \in {"error", "located"} /\ answer' = answer
        /\ pc'[c] = "located" => seen'[c] = i
    BY <1>5, Zenon DEF Locate, TypeOK
  <2>2. InstantsInOrder(c)' /\ AnswersFresh(c)' /\ MissingOK(c)' /\ ForcedOK(c)'
    BY <1>1, <1>2, <1>5, <2>1
    DEF CallerOK, InstantsInOrder, AnswersFresh, MissingOK, ForcedOK
  <2>3. FoundOK(c)'
    BY <1>1, <1>3, <2>1 DEF FoundOK, Mapped
  <2> QED BY <2>2, <2>3 DEF CallerOK
<1>6. CASE op[c] = "resolve" /\ LookUp(c, i)
  <2> DEFINE hits == {a \in want[c] : Mapped(i, a)}
  <2>1. /\ answer'[c] = [a \in Addrs |-> IF a \in hits THEN i ELSE answer[c][a]]
        /\ want'[c] = want[c] \ hits
        /\ pc'[c] \in {"check", "done"}
        /\ pc'[c] = "done" => want[c] \ hits = {} \/ force[c]
    BY <1>6 DEF LookUp, NextPass, TypeOK
  <2>2. InstantsInOrder(c)' /\ AnswersFresh(c)' /\ ForcedOK(c)'
    BY <1>1, <1>6, <2>1 DEF InstantsInOrder, AnswersFresh, ForcedOK
  <2>3. FoundOK(c)'
    <3> SUFFICES ASSUME NEW a \in Addrs, answer'[c][a] > 0
                 PROVE  /\ now[c] - answer'[c][a] < Ttl
                        /\ answer'[c][a] <= Clock
                        /\ world'[answer'[c][a]][a] # Unmapped
      BY <1>1 DEF FoundOK, Mapped
    <3>1. CASE a \in hits
      BY <1>1, <2>1, <3>1 DEF Mapped
    <3>2. CASE a \notin hits
      BY <1>1, <1>3, <2>1, <3>2 DEF FoundOK, Mapped
    <3> QED BY <3>1, <3>2
  <2>4. MissingOK(c)'
    <3> SUFFICES ASSUME pc'[c] = "done", NEW a \in want[c] \ hits
                 PROVE  \E k \in now[c]..Clock : world[k][a] = Unmapped
      BY <1>1, <2>1 DEF MissingOK, Mapped
    <3>1. force[c]
      BY <2>1
    <3>2. i \in now[c]..Clock
      BY <1>1, <3>1
    <3> QED BY <3>2 DEF Mapped
  <2> QED BY <2>2, <2>3, <2>4 DEF CallerOK
<1> QED BY <1>4, <1>5, <1>6 DEF Regions
\* The steps of a caller keep what holds of it.
LEMMA CallerStep ==
  ASSUME MapsInv, NEW c \in Callers,
         \/ List(c)
         \/ \E addrs \in SUBSET Addrs \ {{}} : Resolve(c, addrs)
         \/ \E m \in Modules : ResolveModule(c, m)
         \/ ResolveLocated(c) \/ UseCached(c) \/ MustRead(c)
         \/ ReadMaps(c) \/ ReadFails(c) \/ Store(c)
  PROVE  CallerOK(c)'
<1>1. TypeOK /\ CallerOK(c)
  BY DEF MapsInv
<1>2. /\ Clock \in Nat /\ now[c] \in Nat /\ seen[c] \in Nat
      /\ 1 <= now[c] /\ now[c] <= Clock /\ Ttl \in Nat \ {0}
  BY <1>1, MapsAssumption DEF TypeOK, Clock, CallerOK, InstantsInOrder, MapsAssumption
<1>3. CASE \/ List(c) \/ \E addrs \in SUBSET Addrs \ {{}} : Resolve(c, addrs)
           \/ \E m \in Modules : ResolveModule(c, m)
  BY <1>1, <1>3, CallKeepsCaller DEF List, Resolve, ResolveModule
<1>4. CASE ResolveLocated(c)
  <2>1. /\ pc'[c] = "check" /\ op'[c] = "resolve" /\ now'[c] = Clock /\ Clock' = Clock
        /\ answer'[c] = [a \in Addrs |-> 0] /\ UNCHANGED world
    BY <1>1, <1>4
    DEF ResolveLocated, TypeOK, Clock, CallerOK, AnswersFresh
  <2>2. InstantsInOrder(c)' /\ AnswersFresh(c)' /\ MissingOK(c)' /\ ForcedOK(c)'
    BY <1>2, <2>1 DEF InstantsInOrder, AnswersFresh, MissingOK, ForcedOK
  <2>3. FoundOK(c)'
    BY <2>1 DEF FoundOK
  <2> QED BY <2>2, <2>3 DEF CallerOK
<1>5. CASE MustRead(c) \/ ReadMaps(c)
  <2>1. /\ pc[c] \in {"check", "read"} /\ pc'[c] \in {"read", "store"}
        /\ pc'[c] = "store" => seen'[c] = Clock
        /\ UNCHANGED <<world, op, now, force, want, answer, failed>>
    BY <1>1, <1>5 DEF MustRead, ReadMaps, TypeOK
  <2>2. InstantsInOrder(c)' /\ AnswersFresh(c)' /\ MissingOK(c)' /\ ForcedOK(c)'
    BY <1>1, <1>2, <2>1
    DEF CallerOK, InstantsInOrder, AnswersFresh, MissingOK, ForcedOK, Clock
  <2>3. FoundOK(c)'
    BY <1>1, <2>1 DEF CallerOK, FoundOK, Clock, Mapped
  <2> QED BY <2>2, <2>3 DEF CallerOK
<1>6. CASE ReadFails(c)
  <2>1. /\ pc[c] = "read" /\ failed'[c] = TRUE
        /\ UNCHANGED <<world, op, now, seen, answer>>
        /\ \/ op[c] # "resolve" /\ pc'[c] = "error" /\ force' = force
           \/ op[c] = "resolve" /\ pc'[c] \in {"check", "done"}
    BY <1>1, <1>6 DEF ReadFails, NoRegions, NextPass, TypeOK
  <2>2. InstantsInOrder(c)' /\ AnswersFresh(c)' /\ MissingOK(c)' /\ ForcedOK(c)'
    BY <1>1, <1>2, <2>1
    DEF CallerOK, InstantsInOrder, AnswersFresh, MissingOK, ForcedOK, Clock
  <2>3. FoundOK(c)'
    BY <1>1, <2>1 DEF CallerOK, FoundOK, Clock, Mapped
  <2> QED BY <2>2, <2>3 DEF CallerOK
<1>7. ASSUME ~Stale(c)
      PROVE  Cached.readAt \in 1..Clock /\ now[c] - Cached.readAt < Ttl
  <2>1. cache # <<>> /\ ~(now[c] - Cached.loadedAt >= Ttl)
    BY <1>7 DEF Stale
  <2>2. Cached.loadedAt \in Nat /\ Cached.readAt \in Nat
    BY <1>1, <2>1, EntryType
  <2>3. Cached.loadedAt <= Cached.readAt /\ Cached.readAt <= Clock /\ 1 <= Cached.readAt
    BY <2>1 DEF MapsInv, EntriesAgeHonestly, EntryOK
  <2> QED BY <1>2, <2>1, <2>2, <2>3
<1>8. CASE UseCached(c)
  BY <1>1, <1>7, <1>8, RegionsKeepCaller DEF UseCached
<1>9. CASE Store(c)
  <2>1. CASE Update(c)
    <3>1. now[c] <= seen[c] /\ seen[c] <= Clock
      BY <1>1, <1>9 DEF CallerOK, InstantsInOrder, Store
    <3>2. seen[c] \in 1..Clock /\ now[c] - seen[c] < Ttl
      BY <1>2, <3>1
    <3> QED BY <1>1, <1>9, <2>1, <3>1, <3>2, RegionsKeepCaller DEF Store, Update
  <2>2. CASE Discard(c)
    BY <1>1, <1>7, <1>9, <2>2, RegionsKeepCaller DEF Store, Discard
  <2> QED BY <1>9, <2>1, <2>2 DEF Store
<1> QED BY <1>3, <1>4, <1>5, <1>6, <1>8, <1>9

\* A step of one caller leaves the variables of the others alone.
LEMMA CallerStepIsOwn ==
  ASSUME TypeOK, NEW c \in Callers, NEW d \in Callers, c # d,
         \/ List(c)
         \/ \E addrs \in SUBSET Addrs \ {{}} : Resolve(c, addrs)
         \/ \E m \in Modules : ResolveModule(c, m)
         \/ ResolveLocated(c) \/ UseCached(c) \/ MustRead(c)
         \/ ReadMaps(c) \/ ReadFails(c) \/ Store(c)
  PROVE  UNCHANGED <<world, callerVars(d)>>
<1>1. ASSUME NEW i, Regions(c, i)
      PROVE  UNCHANGED <<pc[d], force[d], want[d], seen[d], answer[d]>>
  BY <1>1 DEF Regions, Return, Locate, LookUp, NextPass, TypeOK
<1>2. CASE \/ List(c) \/ \E addrs \in SUBSET Addrs \ {{}} : Resolve(c, addrs)
           \/ \E m \in Modules : ResolveModule(c, m)
  BY <1>2 DEF List, Resolve, ResolveModule, Call, TypeOK, callerVars
<1>3. CASE ResolveLocated(c) \/ MustRead(c) \/ ReadMaps(c)
  BY <1>3 DEF ResolveLocated, MustRead, ReadMaps, TypeOK, callerVars
<1>4. CASE ReadFails(c)
  BY <1>4 DEF ReadFails, NoRegions, NextPass, TypeOK, callerVars
<1>5. CASE UseCached(c)
  BY <1>1, <1>5 DEF UseCached, callerVars
<1>6. CASE Store(c)
  BY <1>1, <1>6 DEF Store, Update, Discard, callerVars
<1> QED BY <1>2, <1>3, <1>4, <1>5, <1>6-----------------------------------------------------------------------------
(* The invariant. *)

\* An entry is dated with an instant before its content was read, whoever
\* stores it.
LEMMA EntryStep == ASSUME MapsInv, [Next]_vars PROVE (EntryOK /\ EntriesAgeHonestly)'
<1>1. TypeOK /\ EntryOK /\ EntriesAgeHonestly
  BY DEF MapsInv
<1>2. Clock \in Nat /\ Clock' \in Nat /\ Clock <= Clock'
  <2>1. CASE Tick
    <3>1. PICK layout \in Layouts : world' = Append(world, layout)
      BY <2>1 DEF Tick
    <3> QED BY <1>1, <3>1 DEF TypeOK, Clock
  <2>2. CASE world' = world
    BY <1>1, <2>2 DEF TypeOK, Clock
  <2> QED
    BY <2>1, <2>2
    DEF Next, vars, List, Resolve, ResolveModule, Call, ResolveLocated, UseCached,
        MustRead, ReadMaps, ReadFails, Store
<1>3. CASE UNCHANGED cache
  <2>1. cache # <<>> => Cached.readAt \in Nat
    BY <1>1, EntryType
  <2> QED BY <1>1, <1>2, <1>3, <2>1 DEF EntryOK, EntriesAgeHonestly, Cached
<1>4. ASSUME NEW c \in Callers, Store(c), Update(c)
      PROVE  (EntryOK /\ EntriesAgeHonestly)'
  <2>1. /\ 1 <= now[c] /\ now[c] <= seen[c] /\ seen[c] <= Clock
        /\ now[c] \in Nat /\ seen[c] \in Nat
    BY <1>1, <1>4 DEF MapsInv, CallerOK, InstantsInOrder, TypeOK, Store
  <2>2. Cached' = [loadedAt |-> now[c], readAt |-> seen[c]] /\ Clock' = Clock
    BY <1>4 DEF Store, Update, Cached, Clock
  <2> QED BY <1>2, <2>1, <2>2 DEF EntryOK, EntriesAgeHonestly
<1> QED
  BY <1>3, <1>4
  DEF Next, vars, Tick, List, Resolve, ResolveModule, Call, ResolveLocated, UseCached,
      MustRead, ReadMaps, ReadFails, Store, Discard

\* MapsInv is inductive.
LEMMA MapsInvStep == MapsInv /\ [Next]_vars => MapsInv'
<1> SUFFICES ASSUME MapsInv, [Next]_vars PROVE MapsInv'
  OBVIOUS
<1>1. TypeOK /\ \A d \in Callers : CallerOK(d)
  BY DEF MapsInv
<1>2. TypeOK'
  <2>1. CASE UNCHANGED vars
    BY <1>1, <2>1 DEF vars, TypeOK, Clock
  <2> QED BY <1>1, <2>1, TypeStep
<1>3. ASSUME NEW d \in Callers PROVE CallerOK(d)'
  <2>1. CASE Tick
    BY <1>1, <2>1, TimeKeepsCaller
  <2>2. ASSUME NEW c \in Callers,
               \/ List(c)
               \/ \E addrs \in SUBSET Addrs \ {{}} : Resolve(c, addrs)
               \/ \E m \in Modules : ResolveModule(c, m)
               \/ ResolveLocated(c) \/ UseCached(c) \/ MustRead(c)
               \/ ReadMaps(c) \/ ReadFails(c) \/ Store(c)
        PROVE  CallerOK(d)'
    <3>1. CASE c = d
      BY <2>2, <3>1, CallerStep
    <3>2. CASE c # d
      <4>1. UNCHANGED <<world, callerVars(d)>>
        BY <1>1, <2>2, <3>2, CallerStepIsOwn
      <4> QED BY <1>1, <4>1, OthersKeepCaller
    <3> QED BY <3>1, <3>2
  <2>3. CASE UNCHANGED vars
    BY <1>1, <2>3, OthersKeepCaller DEF vars, callerVars
  <2> QED BY <2>1, <2>2, <2>3 DEF Next
<1> QED BY <1>2, <1>3, EntryStep DEF MapsInv

\* The cache is always in a state that MapsInv describes.
THEOREM MapsInvariant == Spec => []MapsInv
<1>1. Init => MapsInv
  BY TypeInit, CallersInit DEF MapsInv
<1> QED BY <1>1, MapsInvStep, PTL DEF Spec

\* The variables keep their types, and time its bound.
THEOREM MapsTypeCorrect == Spec => []TypeOK
<1>1. MapsInv => TypeOK
  BY DEF MapsInv
<1> QED BY <1>1, MapsInvariant, PTL

\* The age of an entry is never underestimated (maps.rs, regions_with).
THEOREM EntriesNeverTooYoung == Spec => []EntriesAgeHonestly
<1>1. MapsInv => EntriesAgeHonestly
  BY DEF MapsInv
<1> QED BY <1>1, MapsInvariant, PTL

\* No address is resolved to a mapping that is older than the cache promises
\* (maps.rs, resolve_many_addresses).
THEOREM FoundMappingsAreFresh == Spec => []FoundWasThere
<1>1. MapsInv => FoundWasThere
  BY DEF MapsInv, CallerOK, FoundOK, FoundWasThere
<1> QED BY <1>1, MapsInvariant, PTL

\* No address is called unmapped on the word of an old entry (maps.rs, the
\* second pass of resolve_many_addresses).
THEOREM MissingIsConfirmed == Spec => []MissingWasMissing
<1>1. MapsInv => MissingWasMissing
  BY DEF MapsInv, CallerOK, MissingOK, MissingWasMissing
<1> QED BY <1>1, MapsInvariant, PTL

\* A forced call is answered from a list read after it began (maps.rs,
\* regions_with and its force_refresh).
THEOREM ForcedListsAreCurrent == Spec => []ForcedIsCurrent
<1>1. MapsInv => ForcedIsCurrent
  BY DEF MapsInv, CallerOK, ForcedOK, ForcedIsCurrent
<1> QED BY <1>1, MapsInvariant, PTL
=============================================================================
