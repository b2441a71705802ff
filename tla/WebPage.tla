------------------------------- MODULE WebPage -------------------------------
(***************************************************************************)
(* The hit list of the page (src/pwatch-ui/app.js) beside a running        *)
(* server.  The page replaces its list by the answer of GET /hits, which   *)
(* it asks for when it connects, when the user refreshes and when the      *)
(* limit changes, and appends what /hits/stream brings.  It opens the      *)
(* stream as an EventSource once a connect has loaded everything; when     *)
(* that has not opened after two seconds, it reads the stream with fetch.  *)
(* Requests take their time, several may be on their way, and answers      *)
(* arrive in any order.                                                    *)
(*                                                                         *)
(* A hit is its number.  The server is push_hit of src/server.rs: a hit is *)
(* in the ring before it is broadcast.  The browser is external.           *)
(***************************************************************************)
EXTENDS Integers, Sequences

CONSTANTS
  Connects,     \* the calls of connect()
  Refreshes,    \* the other calls of loadHits()
  None,         \* null
  BufferLimit,  \* how many hits the server retains
  Limits,       \* the values of the page's limit
  MaxHits       \* bound of the model: hits of the server

ASSUME WebPageAssumption ==
  /\ None \notin Connects
  /\ BufferLimit \in Nat
  /\ Limits \subseteq Nat
  /\ MaxHits \in Nat

VARIABLES
  logged,    \* hits in the server's ring, of which the newest are retained
  sent,      \* hits that were broadcast
  limit,     \* els.hitLimit
  load,      \* load[c]: GET /hits of the call c
  wanted,    \* the limit it asked for
  answer,    \* the answer on its way
  promise,   \* promise[c]: refreshAll() as connect() c awaits it
  status,    \* els.status
  hits,      \* state.hits
  source,    \* state.eventSource, named by the connect that opened it
  abort,     \* state.streamAbort, of the fetch that reads instead
  timer,     \* state.streamReadyTimer
  stream,    \* stream[k][c]: the stream of kind k that connect c opened
  pos,       \* pos[k][c]: the last hit its subscription has gone past
  mixed      \* history: the list was loaded while a stream was subscribed

serverVars == <<logged, sent>>
loadVars == <<limit, load, wanted, answer>>
streamVars == <<source, abort, timer, stream>>
vars == <<serverVars, loadVars, promise, status, hits, streamVars, pos, mixed>>

Calls == Connects \cup Refreshes
Kinds == {"source", "fetch"}

\* The last n elements of s, or all of them.
Newest(s, n) == IF Len(s) <= n THEN s ELSE SubSeq(s, Len(s) - n + 1, Len(s))

\* Subscriptions the server has for this page.
Subscribed == {s \in Kinds \X Connects : stream[s[1]][s[2]] \in {"subscribed", "open"}}

Init ==
  /\ logged = 0
  /\ sent = 0
  /\ limit \in Limits
  /\ load = [c \in Calls |-> "none"]
  /\ wanted = [c \in Calls |-> 0]
  /\ answer = [c \in Calls |-> <<>>]
  /\ promise = [c \in Connects |-> "none"]
  /\ status = "disconnected"
  /\ hits = <<>>
  /\ source = None
  /\ abort = None
  /\ timer = None
  /\ stream = [k \in Kinds |-> [c \in Connects |-> "none"]]
  /\ pos = [k \in Kinds |-> [c \in Connects |-> 0]]
  /\ mixed = FALSE
-----------------------------------------------------------------------------
(* push_hit on the server. *)

PushHit ==
  /\ logged = sent
  /\ logged < MaxHits
  /\ logged' = logged + 1
  /\ UNCHANGED <<sent, loadVars, promise, status, hits, streamVars, pos, mixed>>

SendHit ==
  /\ sent < logged
  /\ sent' = sent + 1
  /\ UNCHANGED <<logged, loadVars, promise, status, hits, streamVars, pos, mixed>>
-----------------------------------------------------------------------------
(* loadHits *)

\* The request; the limit is the one of this moment.
Ask(c, n) ==
  /\ load[c] = "none"
  /\ load' = [load EXCEPT ![c] = "asked"]
  /\ wanted' = [wanted EXCEPT ![c] = n]
  /\ UNCHANGED answer

\* The refresh button, and a changed limit.
Refresh(r) ==
  /\ \E n \in Limits : limit' = n /\ Ask(r, n)
  /\ UNCHANGED <<serverVars, promise, status, hits, streamVars, pos, mixed>>

ServeHits(c) ==
  /\ load[c] = "asked"
  /\ load' = [load EXCEPT ![c] = "answered"]
  /\ answer' = [answer EXCEPT ![c] =
                  Newest(Newest([i \in 1..logged |-> i], BufferLimit), wanted[c])]
  /\ wanted' = [wanted EXCEPT ![c] = 0]
  /\ UNCHANGED <<serverVars, limit, promise, status, hits, streamVars, pos, mixed>>

\* The list becomes the answer, whatever the page has been told since.
ShowHits(c) ==
  /\ load[c] = "answered"
  /\ load' = [load EXCEPT ![c] = "shown"]
  /\ answer' = [answer EXCEPT ![c] = <<>>]
  /\ hits' = answer[c]
  /\ mixed' = (Subscribed # {})
  /\ UNCHANGED <<serverVars, limit, wanted, promise, status, streamVars, pos>>

\* 503, or no answer at all; api() throws.
LoadFails(c) ==
  /\ load[c] \in {"asked", "answered"}
  /\ load' = [load EXCEPT ![c] = "failed"]
  /\ answer' = [answer EXCEPT ![c] = <<>>]
  /\ wanted' = [wanted EXCEPT ![c] = 0]
  /\ UNCHANGED <<serverVars, limit, promise, status, hits, streamVars, pos, mixed>>

ClearHits ==
  /\ hits # <<>>
  /\ hits' = <<>>
  /\ mixed' = FALSE
  /\ UNCHANGED <<serverVars, loadVars, promise, status, streamVars, pos>>
-----------------------------------------------------------------------------
(* connect, openStream, closeStream *)

\* The streams after closeStream.
Closed ==
  [k \in Kinds |-> [c \in Connects |->
     IF c = (IF k = "source" THEN source ELSE abort) THEN "closed" ELSE stream[k][c]]]

\* connect() up to its await.
Connect(c) ==
  /\ Ask(c, limit)
  /\ promise' = [promise EXCEPT ![c] = "pending"]
  /\ status' = "connecting"
  /\ stream' = Closed
  /\ source' = None
  /\ abort' = None
  /\ timer' = None
  /\ UNCHANGED <<serverVars, limit, hits, pos, mixed>>

\* Faulty variant: the stream that is there is not closed first.
OpenStreamBeside(c) ==
  /\ promise[c] = "pending"
  /\ load[c] = "shown"
  /\ promise' = [promise EXCEPT ![c] = "kept"]
  /\ status' = "connected"
  /\ stream' = [stream EXCEPT !["source"][c] = "connecting"]
  /\ source' = c
  /\ timer' = c
  /\ UNCHANGED <<serverVars, loadVars, hits, abort, pos, mixed>>

\* refreshAll() has loaded everything: openStream() closes what another
\* connect may have opened meanwhile and starts an EventSource and the timer.
OpenStream(c) ==
  /\ promise[c] = "pending"
  /\ load[c] = "shown"
  /\ promise' = [promise EXCEPT ![c] = "kept"]
  /\ status' = "connected"
  /\ stream' = [Closed EXCEPT !["source"][c] = "connecting"]
  /\ source' = c
  /\ abort' = None
  /\ timer' = c
  /\ UNCHANGED <<serverVars, loadVars, hits, pos, mixed>>

\* One of the requests of refreshAll() has failed; the others go on.
ConnectFails(c) ==
  /\ promise[c] = "pending"
  /\ promise' = [promise EXCEPT ![c] = "broken"]
  /\ status' = "disconnected"
  /\ UNCHANGED <<serverVars, loadVars, hits, streamVars, pos, mixed>>
-----------------------------------------------------------------------------
(* The stream. *)

\* The handler of /hits/stream subscribes; the browser does not know yet.
Subscribe(k, c) ==
  /\ stream[k][c] = "connecting"
  /\ stream' = [stream EXCEPT ![k][c] = "subscribed"]
  /\ pos' = [pos EXCEPT ![k][c] = sent]
  /\ UNCHANGED <<serverVars, loadVars, promise, status, hits, source, abort, timer, mixed>>

\* The open event of the EventSource stops the timer; fetch() resolves.
Opened(k, c) ==
  /\ stream[k][c] = "subscribed"
  /\ stream' = [stream EXCEPT ![k][c] = "open"]
  /\ timer' = IF k = "source" THEN None ELSE timer
  /\ UNCHANGED <<serverVars, loadVars, promise, status, hits, source, abort, pos, mixed>>

\* Faulty variant: the EventSource is forgotten but not closed.
FallBackBeside ==
  /\ timer # None
  /\ timer' = None
  /\ source' = None
  /\ abort' = timer
  /\ stream' = [stream EXCEPT !["fetch"][timer] = "connecting"]
  /\ UNCHANGED <<serverVars, loadVars, promise, status, hits, pos, mixed>>

\* Faulty variant: the EventSource is given up for nothing.
FallBackToNothing ==
  /\ timer # None
  /\ source = timer
  /\ stream["source"][timer] # "open"
  /\ timer' = None
  /\ source' = None
  /\ stream' = [stream EXCEPT !["source"][timer] = "closed"]
  /\ UNCHANGED <<serverVars, loadVars, promise, status, hits, abort, pos, mixed>>

\* The timer fires before the EventSource has opened.
FallBack ==
  /\ timer # None
  /\ source = timer
  /\ stream["source"][timer] # "open"
  /\ timer' = None
  /\ source' = None
  /\ abort' = timer
  /\ stream' = [stream EXCEPT !["source"][timer] = "closed",
                              !["fetch"][timer] = "connecting"]
  /\ UNCHANGED <<serverVars, loadVars, promise, status, hits, pos, mixed>>

\* appendHit: the next hit of the subscription, and the list is trimmed.
AppendHit(k, c) ==
  /\ stream[k][c] = "open"
  /\ pos[k][c] < sent
  /\ pos' = [pos EXCEPT ![k][c] = @ + 1]
  /\ hits' = Newest(Append(hits, pos'[k][c]), limit)
  /\ UNCHANGED <<serverVars, loadVars, promise, status, streamVars, mixed>>

\* The server has moved a slow subscription forward.
Lag(k, c) ==
  /\ stream[k][c] = "open"
  /\ pos[k][c] < sent
  /\ pos' = [pos EXCEPT ![k][c] = @ + 1]
  /\ UNCHANGED <<serverVars, loadVars, promise, status, hits, streamVars, mixed>>

\* The connection breaks.  A browser opens an EventSource again, unless the
\* server has refused it; nobody reads a fetch again.
Break(k, c) ==
  /\ stream[k][c] \in {"connecting", "subscribed", "open"}
  /\ \/ stream' = [stream EXCEPT ![k][c] = "closed"]
     \/ /\ k = "source"
        /\ stream[k][c] # "connecting"
        /\ stream' = [stream EXCEPT ![k][c] = "connecting"]
  /\ UNCHANGED <<serverVars, loadVars, promise, status, hits, source, abort, timer, pos, mixed>>

Next ==
  \/ PushHit \/ SendHit \/ ClearHits \/ FallBack
  \/ \E r \in Refreshes : Refresh(r)
  \/ \E c \in Calls : ServeHits(c) \/ ShowHits(c) \/ LoadFails(c)
  \/ \E c \in Connects : Connect(c) \/ OpenStream(c) \/ ConnectFails(c)
  \/ \E k \in Kinds, c \in Connects :
       Subscribe(k, c) \/ Opened(k, c) \/ AppendHit(k, c) \/ Lag(k, c) \/ Break(k, c)

Spec == Init /\ [][Next]_vars

(***************************************************************************)
(* Fairness.  A fetch is answered or fails, and a timer fires.  Nothing is *)
(* assumed of an EventSource: that it may hang is why there is a timer.    *)
(***************************************************************************)
FairSpec ==
  /\ Spec
  /\ WF_vars(FallBack)
  /\ \A c \in Connects :
       WF_vars(Subscribe("fetch", c) \/ Opened("fetch", c) \/ Break("fetch", c))
-----------------------------------------------------------------------------
\* However connects, refreshes, the timer and broken connections interleave,
\* at most one stream is connected or being connected, and it is the one the
\* page would close: no hit arrives twice because of a forgotten stream.
OneFeed ==
  \A k \in Kinds, c \in Connects :
    stream[k][c] \in {"connecting", "subscribed", "open"} =>
      IF k = "source" THEN source = c /\ abort = None
                      ELSE abort = c /\ source = None

\* A list that was not loaded beside a subscribed stream is in order, and
\* shows at most one hit twice: the last one loaded, if it was in the ring
\* and not yet broadcast when the stream was subscribed.
ShownInOrder ==
  ~mixed =>
    /\ \A i \in 1..Len(hits) - 1 : hits[i] <= hits[i + 1]
    /\ \A i, j \in 1..Len(hits) - 1 :
         hits[i] = hits[i + 1] /\ hits[j] = hits[j + 1] => i = j

\* A page that says it is connected does not wait for an EventSource that
\* hangs: the stream opens, directly or by fetch, or it is seen to fail.
StreamSettles ==
  (timer # None) ~>
     \/ status # "connected"
     \/ \E k \in Kinds, c \in Connects : stream[k][c] = "open"
     \/ abort # None /\ stream["fetch"][abort] = "closed"
=============================================================================
