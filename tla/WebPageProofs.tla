---------------------------- MODULE WebPageProofs ----------------------------
(***************************************************************************)
(* Proofs about the page's hit list, for any number of connects and        *)
(* refreshes, any limits and any number of hits: one stream feeds the      *)
(* list, and a list that was not loaded beside a subscribed stream is in   *)
(* order.                                                                  *)
(***************************************************************************)
EXTENDS WebPage, SequenceTheorems, TLAPS

\* Properties of sequences of hits, all of which the end of a sequence
\* inherits.
InOrder(s) == \A i \in 1..(Len(s) - 1) : s[i] <= s[i + 1]
Increasing(s) == \A i \in 1..(Len(s) - 1) : s[i] < s[i + 1]
UpTo(s, n) == \A i \in 1..Len(s) : s[i] <= n

\* Where a hit is shown a second time.
Twice(s) == {i \in 1..(Len(s) - 1) : s[i] = s[i + 1]}
OnceTwice(s) == \A i, j \in Twice(s) : i = j

StreamStates == {"none", "connecting", "subscribed", "open", "closed"}

PageTypeOK ==
  /\ logged \in Nat /\ sent \in Nat
  /\ limit \in Limits
  /\ wanted \in [Calls -> Nat]
  /\ answer \in [Calls -> Seq(Nat)]
  /\ hits \in Seq(Nat)
  /\ stream \in [Kinds -> [Connects -> StreamStates]]
  /\ pos \in [Kinds -> [Connects -> Nat]]
  /\ mixed \in BOOLEAN

(***************************************************************************)
(* The inductive invariant of ShownInOrder.  A hit reaches the ring before *)
(* the streams, so what a page has loaded may be one hit ahead of what a   *)
(* stream subscribed then or later will bring: the hit after its position  *)
(* may be on the list already, no later one is, and once it is there twice *)
(* none is.                                                                *)
(***************************************************************************)
ServerOrder ==
  /\ logged = sent \/ logged = sent + 1
  /\ \A k \in Kinds, c \in Connects : pos[k][c] <= sent

AnswersOrdered == \A c \in Calls : Increasing(answer[c]) /\ UpTo(answer[c], logged)

ListOrdered ==
  ~mixed =>
    /\ InOrder(hits) /\ OnceTwice(hits)
    /\ UpTo(hits, logged)
    /\ Twice(hits) # {} => UpTo(hits, sent)
    /\ \A k \in Kinds, c \in Connects :
         stream[k][c] \in {"subscribed", "open"} =>
           /\ UpTo(hits, pos[k][c] + 1)
           /\ Twice(hits) # {} => UpTo(hits, pos[k][c])

PageInv ==
  /\ PageTypeOK
  /\ OneFeed
  /\ ServerOrder
  /\ AnswersOrdered
  /\ ListOrdered
-----------------------------------------------------------------------------
\* Newest leaves out the first d elements.
LEMMA NewestIsEnd ==
  ASSUME NEW s \in Seq(Nat), NEW n \in Nat
  PROVE  /\ Newest(s, n) \in Seq(Nat)
         /\ \E d \in Nat : /\ Len(s) = Len(Newest(s, n)) + d
                           /\ \A i \in 1..Len(Newest(s, n)) : Newest(s, n)[i] = s[i + d]
<1>1. Len(s) \in Nat
  BY LenProperties
<1>2. CASE Len(s) <= n
  <2>1. Newest(s, n) = s
    BY <1>2 DEF Newest
  <2> QED BY <1>1, <2>1
<1>3. CASE ~(Len(s) <= n)
  <2> DEFINE d == Len(s) - n
             t == SubSeq(s, d + 1, Len(s))
  <2>1. Newest(s, n) = t
    BY <1>1, <1>3 DEF Newest
  <2>2. d \in Nat /\ d + 1 \in 1..(Len(s) + 1) /\ d + 1 <= Len(s) + 1
    BY <1>1, <1>3
  <2>3. \A i \in (d + 1)..Len(s) : s[i] \in Nat
    BY <1>1, <2>2
  <2> HIDE DEF d
  <2>4. /\ t \in Seq(Nat)
        /\ Len(t) = IF d + 1 <= Len(s) THEN Len(s) - (d + 1) + 1 ELSE 0
        /\ \A i \in 1..(Len(s) - (d + 1) + 1) : t[i] = s[(d + 1) + i - 1]
    BY <1>1, <2>2, <2>3, SubSeqProperties
  <2>5. Len(t) = Len(s) - d
    BY <1>1, <2>2, <2>4
  <2>6. ASSUME NEW i \in 1..Len(t) PROVE t[i] = s[i + d]
    <3>1. i \in 1..(Len(s) - (d + 1) + 1) /\ (d + 1) + i - 1 = i + d
      BY <1>1, <2>2, <2>5
    <3> QED BY <2>4, <3>1
  <2> QED BY <1>1, <2>1, <2>2, <2>4, <2>5, <2>6
<1> QED BY <1>2, <1>3

\* So the newest hits of a list are ordered as the list was.
LEMMA NewestInherits ==
  ASSUME NEW s \in Seq(Nat), NEW n \in Nat
  PROVE  LET t == Newest(s, n)
         IN  /\ t \in Seq(Nat)
             /\ InOrder(s) => InOrder(t)
             /\ Increasing(s) => Increasing(t)
             /\ OnceTwice(s) => OnceTwice(t)
             /\ Twice(s) = {} => Twice(t) = {}
             /\ \A m : UpTo(s, m) => UpTo(t, m)
<1> DEFINE t == Newest(s, n)
<1>1. t \in Seq(Nat)
  BY NewestIsEnd
<1>2. PICK d \in Nat : Len(s) = Len(t) + d /\ \A i \in 1..Len(t) : t[i] = s[i + d]
  BY NewestIsEnd
<1> HIDE DEF t
<1>3. Len(s) \in Nat /\ Len(t) \in Nat
  BY <1>1, LenProperties
<1>4. \A i \in 1..(Len(t) - 1) : /\ i + d \in 1..(Len(s) - 1)
                                 /\ t[i] = s[i + d] /\ t[i + 1] = s[(i + d) + 1]
  <2> SUFFICES ASSUME NEW i \in 1..(Len(t) - 1)
               PROVE  /\ i + d \in 1..(Len(s) - 1)
                      /\ t[i] = s[i + d] /\ t[i + 1] = s[(i + d) + 1]
    OBVIOUS
  <2>1. i \in 1..Len(t) /\ i + 1 \in 1..Len(t) /\ (i + 1) + d = (i + d) + 1
    BY <1>3
  <2>2. t[i] = s[i + d] /\ t[i + 1] = s[(i + 1) + d]
    BY <1>2, <2>1
  <2>3. i + d \in 1..(Len(s) - 1)
    BY <1>2, <1>3
  <2> QED BY <2>1, <2>2, <2>3
<1>5. InOrder(s) => InOrder(t)
  BY <1>4 DEF InOrder
<1>6. Increasing(s) => Increasing(t)
  BY <1>4 DEF Increasing
<1>7. \A i \in Twice(t) : i \in Nat /\ i + d \in Twice(s)
  BY <1>3, <1>4 DEF Twice
<1>8. OnceTwice(s) => OnceTwice(t)
  <2> SUFFICES ASSUME OnceTwice(s), NEW i \in Twice(t), NEW j \in Twice(t) PROVE i = j
    BY DEF OnceTwice
  <2>1. i + d = j + d /\ i \in Nat /\ j \in Nat
    BY <1>7 DEF OnceTwice
  <2> QED BY <2>1
<1>9. ASSUME NEW m, UpTo(s, m) PROVE UpTo(t, m)
  <2> SUFFICES ASSUME NEW i \in 1..Len(t) PROVE t[i] <= m
    BY DEF UpTo
  <2>1. i + d \in 1..Len(s)
    BY <1>2, <1>3
  <2> QED BY <1>2, <1>9, <2>1 DEF UpTo
<1>10. Twice(s) = {} => Twice(t) = {}
  BY <1>7
<1> QED BY <1>1, <1>5, <1>6, <1>8, <1>9, <1>10 DEF t

\* A list without repetition is in order, and so is an empty one.
LEMMA IncreasingIsOrdered ==
  /\ <<>> \in Seq(Nat) /\ Increasing(<<>>) /\ InOrder(<<>>)
  /\ Twice(<<>>) = {} /\ OnceTwice(<<>>)
  /\ \A m : UpTo(<<>>, m)
  /\ \A s \in Seq(Nat) : Increasing(s) => InOrder(s) /\ Twice(s) = {} /\ OnceTwice(s)
<1>1. Increasing(<<>>) /\ \A m : UpTo(<<>>, m)
  BY DEF Increasing, UpTo
<1>2. ASSUME NEW s \in Seq(Nat), Increasing(s)
      PROVE  InOrder(s) /\ Twice(s) = {} /\ OnceTwice(s)
  <2>1. ASSUME NEW i \in 1..(Len(s) - 1) PROVE s[i] <= s[i + 1] /\ s[i] # s[i + 1]
    <3>1. i \in 1..Len(s) /\ i + 1 \in 1..Len(s)
      BY LenProperties
    <3>2. s[i] \in Nat /\ s[i + 1] \in Nat /\ s[i] < s[i + 1]
      BY <1>2, <3>1 DEF Increasing
    <3> QED BY <3>2
  <2> QED BY <2>1 DEF InOrder, Twice, OnceTwice
<1>3. <<>> \in Seq(Nat)
  OBVIOUS
<1>4. InOrder(<<>>) /\ Twice(<<>>) = {} /\ OnceTwice(<<>>)
  BY <1>1, <1>2, <1>3
<1> QED BY <1>1, <1>2, <1>3, <1>4

\* A hit that is not before any of the list goes to its end.
LEMMA AppendOrdered ==
  ASSUME NEW s \in Seq(Nat), NEW x \in Nat, InOrder(s), OnceTwice(s), UpTo(s, x),
         Twice(s) # {} => UpTo(s, x - 1)
  PROVE  LET t == Append(s, x)
         IN  t \in Seq(Nat) /\ InOrder(t) /\ OnceTwice(t) /\ UpTo(t, x)
<1> DEFINE t == Append(s, x)
<1>1. /\ t \in Seq(Nat) /\ Len(s) \in Nat /\ Len(t) = Len(s) + 1 /\ t[Len(s) + 1] = x
      /\ \A i \in 1..Len(s) : t[i] = s[i] /\ s[i] \in Nat
  BY LenProperties
<1> HIDE DEF t
<1>2. UpTo(t, x)
  BY <1>1 DEF UpTo
<1>3. InOrder(t)
  <2> SUFFICES ASSUME NEW i \in 1..(Len(t) - 1) PROVE t[i] <= t[i + 1]
    BY DEF InOrder
  <2>1. CASE i = Len(s)
    BY <1>1, <2>1 DEF UpTo
  <2>2. CASE i # Len(s)
    <3>1. i \in 1..(Len(s) - 1) /\ i \in 1..Len(s) /\ i + 1 \in 1..Len(s)
      BY <1>1, <2>2
    <3> QED BY <1>1, <3>1 DEF InOrder
  <2> QED BY <2>1, <2>2
<1>4. ASSUME NEW i \in Twice(t) PROVE i \in Twice(s) \/ (i = Len(s) /\ s[i] = x /\ i \in 1..Len(s))
  <2>1. i \in 1..Len(s) /\ t[i] = t[i + 1]
    BY <1>1 DEF Twice
  <2>2. CASE i = Len(s)
    BY <1>1, <2>1, <2>2
  <2>3. CASE i # Len(s)
    <3>1. i \in 1..(Len(s) - 1) /\ i + 1 \in 1..Len(s)
      BY <1>1, <2>1, <2>3
    <3> QED BY <1>1, <2>1, <3>1 DEF Twice
  <2> QED BY <2>2, <2>3
<1>5. OnceTwice(t)
  <2> SUFFICES ASSUME NEW i \in Twice(t), NEW j \in Twice(t) PROVE i = j
    BY DEF OnceTwice
  <2>1. CASE Twice(s) = {}
    BY <1>4, <2>1
  <2>2. CASE Twice(s) # {}
    <3>1. \A l \in 1..Len(s) : s[l] # x
      BY <1>1, <2>2 DEF UpTo
    <3> QED BY <1>4, <3>1 DEF OnceTwice
  <2> QED BY <2>1, <2>2
<1> QED BY <1>1, <1>2, <1>3, <1>5 DEF t
-----------------------------------------------------------------------------
\* closeStream closes every stream that is live.
LEMMA ClosedStreams ==
  ASSUME PageTypeOK, OneFeed
  PROVE  /\ Closed \in [Kinds -> [Connects -> StreamStates]]
         /\ \A k \in Kinds, c \in Connects :
              Closed[k][c] \notin {"connecting", "subscribed", "open"}
<1>1. \A k \in Kinds, c \in Connects :
        Closed[k][c] = IF c = (IF k = "source" THEN source ELSE abort) THEN "closed"
                       ELSE stream[k][c]
  BY DEF Closed
<1>2. Closed \in [Kinds -> [Connects -> StreamStates]]
  BY DEF Closed, PageTypeOK, StreamStates
<1>3. ASSUME NEW k \in Kinds, NEW c \in Connects
      PROVE  Closed[k][c] \notin {"connecting", "subscribed", "open"}
  BY <1>1 DEF OneFeed
<1> QED BY <1>2, <1>3

\* What the page, the browser and the server do, by what it can disturb:
\* the list, the streams, or neither.
Loading ==
  \/ \E r \in Refreshes : Refresh(r)
  \/ \E c \in Calls : ServeHits(c) \/ LoadFails(c)
  \/ \E c \in Connects : ConnectFails(c)

Listing ==
  \/ ClearHits
  \/ \E c \in Calls : ShowHits(c)
  \/ \E k \in Kinds, c \in Connects : AppendHit(k, c) \/ Lag(k, c)

Streaming ==
  \/ FallBack
  \/ \E c \in Connects : Connect(c) \/ OpenStream(c)
  \/ \E k \in Kinds, c \in Connects : Subscribe(k, c) \/ Opened(k, c) \/ Break(k, c)

Serving == PushHit \/ SendHit

\* That is all there is.
LEMMA StepsOfPage == Next => Loading \/ Listing \/ Streaming \/ Serving
BY DEF Next, Loading, Listing, Streaming, Serving

\* Requests and answers that do not reach the page.
LEMMA LoadingOK == ASSUME PageInv, Loading PROVE PageInv'
<1> USE DEF PageInv
<1>1. UNCHANGED <<logged, sent, hits, streamVars, pos, mixed>>
  BY DEF Loading, Refresh, ServeHits, LoadFails, ConnectFails, serverVars, loadVars
<1> DEFINE LoadsKept ==
             /\ limit' \in Limits /\ wanted' \in [Calls -> Nat]
             /\ answer' \in [Calls -> Seq(Nat)] /\ AnswersOrdered'
<1>2. LoadsKept
  <2>1. CASE \E r \in Refreshes : Refresh(r)
    <3>1. PICK r \in Refreshes, n \in Limits :
            limit' = n /\ wanted' = [wanted EXCEPT ![r] = n] /\ answer' = answer
      BY <2>1 DEF Refresh, Ask
    <3>2. r \in Calls /\ n \in Nat
      BY WebPageAssumption DEF Calls, WebPageAssumption
    <3> QED BY <1>1, <3>1, <3>2 DEF PageTypeOK, AnswersOrdered
  <2>2. ASSUME NEW c \in Calls, LoadFails(c) PROVE LoadsKept
    <3>1. /\ limit' = limit /\ wanted' = [wanted EXCEPT ![c] = 0]
          /\ answer' = [answer EXCEPT ![c] = <<>>]
      BY <2>2 DEF LoadFails
    <3> QED
      BY <1>1, <3>1, IncreasingIsOrdered DEF PageTypeOK, AnswersOrdered
  <2>3. ASSUME NEW c \in Calls, ServeHits(c) PROVE LoadsKept
    <3> DEFINE all == [i \in 1..logged |-> i]
               some == Newest(all, BufferLimit)
               few == Newest(some, wanted[c])
    <3>1. /\ limit' = limit /\ wanted' = [wanted EXCEPT ![c] = 0]
          /\ answer' = [answer EXCEPT ![c] = few]
      BY <2>3 DEF ServeHits
    <3>2. /\ logged \in Nat /\ BufferLimit \in Nat /\ wanted[c] \in Nat
      BY WebPageAssumption DEF PageTypeOK, WebPageAssumption
    <3>3. all \in Seq(Nat) /\ Increasing(all) /\ UpTo(all, logged)
      BY <3>2 DEF Increasing, UpTo
    <3> HIDE DEF all
    <3>4. some \in Seq(Nat) /\ Increasing(some) /\ UpTo(some, logged)
      BY <3>2, <3>3, NewestInherits
    <3> HIDE DEF some
    <3>5. few \in Seq(Nat) /\ Increasing(few) /\ UpTo(few, logged)
      BY <3>2, <3>4, NewestInherits
    <3> HIDE DEF few
    <3> QED BY <1>1, <3>1, <3>5 DEF PageTypeOK, AnswersOrdered
  <2>4. ASSUME NEW c \in Connects, ConnectFails(c) PROVE LoadsKept
    BY <1>1, <2>4 DEF ConnectFails, loadVars, PageTypeOK, AnswersOrdered
  <2> QED BY <2>1, <2>2, <2>3, <2>4 DEF Loading
<1>3. PageTypeOK'
  BY <1>1, <1>2 DEF PageTypeOK, streamVars
<1>4. OneFeed' /\ ServerOrder' /\ ListOrdered'
  BY <1>1 DEF OneFeed, ServerOrder, ListOrdered, streamVars
<1> QED BY <1>2, <1>3, <1>4

\* A new hit of the server: in its ring, and then on its way to the streams.
LEMMA ServingOK == ASSUME PageInv, Serving PROVE PageInv'
<1> USE DEF PageInv
<1>1. UNCHANGED <<loadVars, hits, streamVars, pos, mixed>>
  BY DEF Serving, PushHit, SendHit
<1>2. /\ logged \in Nat /\ sent \in Nat /\ logged' \in Nat /\ sent' \in Nat
      /\ logged <= logged' /\ sent <= sent'
      /\ logged' = sent' \/ logged' = sent' + 1
  BY DEF Serving, PushHit, SendHit, PageTypeOK, ServerOrder
<1>3. PageTypeOK'
  BY <1>1, <1>2 DEF PageTypeOK, loadVars, streamVars
<1>4. OneFeed'
  BY <1>1 DEF OneFeed, streamVars
<1>5. ServerOrder'
  <2> SUFFICES ASSUME NEW k \in Kinds, NEW c \in Connects PROVE pos[k][c] <= sent'
    BY <1>1, <1>2 DEF ServerOrder
  <2>1. pos[k][c] \in Nat /\ pos[k][c] <= sent
    BY DEF ServerOrder, PageTypeOK
  <2> QED BY <1>2, <2>1
<1>6. ASSUME NEW s \in Seq(Nat), NEW m \in Nat, NEW n \in Nat, m <= n, UpTo(s, m)
      PROVE  UpTo(s, n)
  BY <1>6 DEF UpTo
<1>7. AnswersOrdered'
  BY <1>1, <1>2, <1>6 DEF AnswersOrdered, PageTypeOK, loadVars
<1>8. ListOrdered'
  <2>1. UpTo(hits, logged) => UpTo(hits, logged')
    BY <1>2, <1>6 DEF PageTypeOK
  <2>2. UpTo(hits, sent) => UpTo(hits, sent')
    BY <1>2, <1>6 DEF PageTypeOK
  <2> QED BY <1>1, <2>1, <2>2 DEF ListOrdered, streamVars
<1> QED BY <1>3, <1>4, <1>5, <1>7, <1>8

\* The streams are closed, opened and given up, and some of them subscribe.
LEMMA StreamingOK == ASSUME PageInv, Streaming PROVE PageInv'
<1> USE DEF PageInv
<1> DEFINE StreamsKept ==
             /\ stream' \in [Kinds -> [Connects -> StreamStates]]
             /\ OneFeed'
             /\ \A k \in Kinds, c \in Connects :
                  stream'[k][c] \in {"subscribed", "open"} =>
                    stream[k][c] \in {"subscribed", "open"}
<1>1. UNCHANGED <<logged, sent, limit, answer, hits, mixed>>
  BY DEF Streaming, FallBack, Connect, OpenStream, Subscribe, Opened, Break, Ask,
         serverVars, loadVars
<1>2. wanted' \in [Calls -> Nat]
  <2>1. ASSUME NEW c \in Connects, Connect(c) PROVE wanted' \in [Calls -> Nat]
    <3>1. limit \in Nat
      BY WebPageAssumption DEF PageTypeOK, WebPageAssumption
    <3> QED BY <2>1, <3>1 DEF Connect, Ask, PageTypeOK
  <2>2. CASE ~ \E c \in Connects : Connect(c)
    BY <2>2
    DEF Streaming, FallBack, OpenStream, Subscribe, Opened, Break, loadVars, PageTypeOK
  <2> QED BY <2>1, <2>2
<1>3. AnswersOrdered'
  BY <1>1 DEF AnswersOrdered
<1>4. CASE StreamsKept /\ pos' = pos
  <2>1. PageTypeOK' /\ ServerOrder'
    BY <1>1, <1>2, <1>4 DEF PageTypeOK, ServerOrder
  <2>2. ListOrdered'
    BY <1>1, <1>4 DEF ListOrdered
  <2> QED BY <1>3, <1>4, <2>1, <2>2
<1>5. ASSUME NEW c \in Connects, Connect(c) \/ OpenStream(c) PROVE StreamsKept /\ pos' = pos
  <2>1. CASE Connect(c)
    <3>1. stream' = Closed /\ pos' = pos
      BY <2>1 DEF Connect
    <3> QED BY <3>1, ClosedStreams DEF OneFeed
  <2>2. CASE OpenStream(c)
    <3> DEFINE closed == Closed
    <3>1. /\ stream' = [closed EXCEPT !["source"][c] = "connecting"] /\ pos' = pos
          /\ source' = c /\ abort' = None
      BY <2>2 DEF OpenStream
    <3>2. /\ closed \in [Kinds -> [Connects -> StreamStates]]
          /\ \A k \in Kinds, d \in Connects :
               closed[k][d] \notin {"connecting", "subscribed", "open"}
      BY ClosedStreams
    <3> HIDE DEF closed
    <3>3. "source" \in Kinds /\ "connecting" \in StreamStates
      BY DEF Kinds, StreamStates
    <3>4. \A k \in Kinds, d \in Connects :
            stream'[k][d] = IF k = "source" /\ d = c THEN "connecting" ELSE closed[k][d]
      BY <3>1, <3>2, <3>3
    <3>5. OneFeed'
      BY <3>1, <3>2, <3>4 DEF OneFeed
    <3> QED BY <3>1, <3>2, <3>3, <3>4, <3>5
  <2> QED BY <1>5, <2>1, <2>2
<1>6. ASSUME FallBack PROVE StreamsKept /\ pos' = pos
  <2>1. /\ timer # None /\ source = timer /\ source' = None /\ abort' = timer /\ pos' = pos
        /\ stream' = [stream EXCEPT !["source"][timer] = "closed",
                                    !["fetch"][timer] = "connecting"]
    BY <1>6 DEF FallBack
  <2>2. /\ {"source", "fetch"} = Kinds /\ {"closed", "connecting"} \subseteq StreamStates
    BY DEF Kinds, StreamStates
  <2>3. stream' \in [Kinds -> [Connects -> StreamStates]]
    BY <2>1, <2>2 DEF PageTypeOK
  <2>4. \A k \in Kinds, d \in Connects :
          stream'[k][d] = IF d # timer THEN stream[k][d]
                          ELSE IF k = "source" THEN "closed" ELSE "connecting"
    BY <2>1, <2>2 DEF PageTypeOK
  <2>5. OneFeed'
    BY <2>1, <2>2, <2>4 DEF OneFeed
  <2> QED BY <2>1, <2>3, <2>4, <2>5
<1>7. ASSUME NEW k \in Kinds, NEW c \in Connects, Opened(k, c) \/ Break(k, c)
      PROVE  StreamsKept /\ pos' = pos
  <2>1. PICK new \in StreamStates :
          /\ stream[k][c] \in {"connecting", "subscribed", "open"}
          /\ stream' = [stream EXCEPT ![k][c] = new]
          /\ new = "open" => stream[k][c] = "subscribed"
          /\ new # "subscribed"
          /\ UNCHANGED <<source, abort, pos>>
    BY <1>7 DEF Opened, Break, StreamStates
  <2>2. \A l \in Kinds, d \in Connects :
          stream'[l][d] = IF l = k /\ d = c THEN new ELSE stream[l][d]
    BY <2>1 DEF PageTypeOK
  <2>3. OneFeed'
    BY <2>1, <2>2 DEF OneFeed
  <2> QED BY <2>1, <2>2, <2>3 DEF PageTypeOK
<1>8. ASSUME NEW k \in Kinds, NEW c \in Connects, Subscribe(k, c) PROVE PageInv'
  <2>1. /\ stream[k][c] = "connecting"
        /\ stream' = [stream EXCEPT ![k][c] = "subscribed"]
        /\ pos' = [pos EXCEPT ![k][c] = sent]
        /\ UNCHANGED <<source, abort>>
    BY <1>8 DEF Subscribe
  <2>2. \A l \in Kinds, d \in Connects :
          /\ stream'[l][d] = IF l = k /\ d = c THEN "subscribed" ELSE stream[l][d]
          /\ pos'[l][d] = IF l = k /\ d = c THEN sent ELSE pos[l][d]
    BY <2>1 DEF PageTypeOK
  <2>3. PageTypeOK'
    <3>1. "subscribed" \in StreamStates
      BY DEF StreamStates
    <3> QED BY <1>1, <1>2, <2>1, <3>1 DEF PageTypeOK
  <2>4. OneFeed'
    BY <2>1, <2>2 DEF OneFeed
  <2>5. ServerOrder'
    <3>1. sent <= sent
      BY DEF PageTypeOK
    <3> QED BY <1>1, <2>2, <3>1 DEF ServerOrder
  <2>6. ASSUME UpTo(hits, logged) PROVE UpTo(hits, sent + 1)
    BY <2>6 DEF UpTo, ServerOrder, PageTypeOK
  <2>7. ListOrdered'
    BY <1>1, <2>2, <2>6 DEF ListOrdered
  <2> QED BY <1>3, <2>3, <2>4, <2>5, <2>7
<1> QED BY <1>4, <1>5, <1>6, <1>7, <1>8 DEF Streaming

\* Two live streams would be one and the same.
LEMMA OneLive ==
  ASSUME OneFeed, NEW k \in Kinds, NEW c \in Connects, NEW l \in Kinds, NEW d \in Connects,
         stream[k][c] \in {"subscribed", "open"}, stream[l][d] \in {"subscribed", "open"}
  PROVE  k = l /\ c = d
BY WebPageAssumption DEF OneFeed, Kinds, WebPageAssumption

\* The list is loaded, cleared, or gets the next hit of a stream.
LEMMA ListingOK == ASSUME PageInv, Listing PROVE PageInv'
<1> USE DEF PageInv
<1>1. UNCHANGED <<logged, sent, limit, wanted, streamVars>>
  BY DEF Listing, ClearHits, ShowHits, AppendHit, Lag, serverVars, loadVars
<1>2. OneFeed'
  BY <1>1 DEF OneFeed, streamVars
<1>3. /\ <<>> \in Seq(Nat) /\ Increasing(<<>>) /\ InOrder(<<>>) /\ Twice(<<>>) = {}
      /\ OnceTwice(<<>>) /\ \A m : UpTo(<<>>, m)
  BY IncreasingIsOrdered
<1>4. CASE ClearHits
  <2>1. hits' = <<>> /\ mixed' = FALSE /\ UNCHANGED <<answer, pos>>
    BY <1>4 DEF ClearHits, loadVars
  <2>2. ServerOrder' /\ AnswersOrdered'
    BY <1>1, <2>1 DEF ServerOrder, AnswersOrdered
  <2>3. PageTypeOK'
    BY <1>1, <1>3, <2>1 DEF PageTypeOK, streamVars
  <2>4. ListOrdered'
    BY <1>3, <2>1 DEF ListOrdered
  <2> QED BY <1>2, <2>2, <2>3, <2>4
<1>5. ASSUME NEW c \in Calls, ShowHits(c) PROVE PageInv'
  <2>1. /\ hits' = answer[c] /\ mixed' = (Subscribed # {}) /\ pos' = pos
        /\ answer' = [answer EXCEPT ![c] = <<>>]
    BY <1>5 DEF ShowHits
  <2>2. answer[c] \in Seq(Nat) /\ Increasing(answer[c]) /\ UpTo(answer[c], logged)
    BY DEF PageTypeOK, AnswersOrdered
  <2>3. PageTypeOK' /\ ServerOrder' /\ AnswersOrdered'
    BY <1>1, <1>3, <2>1, <2>2 DEF PageTypeOK, ServerOrder, AnswersOrdered, streamVars
  <2>4. ASSUME ~mixed' PROVE \A k \in Kinds, d \in Connects :
                               stream[k][d] \notin {"subscribed", "open"}
    <3>1. \A p \in Kinds \X Connects : stream[p[1]][p[2]] \notin {"subscribed", "open"}
      BY <2>1, <2>4 DEF Subscribed
    <3>2. ASSUME NEW k \in Kinds, NEW d \in Connects
          PROVE  stream[k][d] \notin {"subscribed", "open"}
      <4>1. <<k, d>> \in Kinds \X Connects
        OBVIOUS
      <4> QED BY <3>1, <4>1
    <3> QED BY <3>2
  <2>5. ListOrdered'
    BY <1>1, <2>1, <2>2, <2>4, IncreasingIsOrdered DEF ListOrdered, streamVars
  <2> QED BY <1>2, <2>3, <2>5
<1>6. ASSUME NEW k \in Kinds, NEW c \in Connects, AppendHit(k, c) \/ Lag(k, c)
      PROVE  PageInv'
  <2> DEFINE x == pos[k][c] + 1
             longer == Append(hits, x)
  <2>1. /\ stream[k][c] = "open" /\ pos[k][c] < sent
        /\ pos' = [pos EXCEPT ![k][c] = x]
        /\ UNCHANGED <<answer, mixed>>
        /\ hits' = hits \/ hits' = Newest(longer, limit)
    <3>1. AppendHit(k, c) => pos'[k][c] = x
      BY DEF AppendHit, PageTypeOK
    <3> QED BY <1>6, <3>1 DEF AppendHit, Lag, loadVars
  <2>2. /\ pos[k][c] \in Nat /\ x \in Nat /\ sent \in Nat /\ logged \in Nat /\ x <= sent
        /\ sent <= logged
    BY <2>1 DEF PageTypeOK, ServerOrder
  <2>3. \A l \in Kinds, d \in Connects :
          pos'[l][d] = IF l = k /\ d = c THEN x ELSE pos[l][d]
    BY <2>1 DEF PageTypeOK
  <2>4. longer \in Seq(Nat) /\ limit \in Nat
    BY <2>2, WebPageAssumption DEF PageTypeOK, WebPageAssumption
  <2>5. hits' \in Seq(Nat)
    BY <2>1, <2>4, NewestInherits DEF PageTypeOK
  <2>6. PageTypeOK' /\ ServerOrder' /\ AnswersOrdered'
    <3>1. ServerOrder'
      BY <1>1, <2>2, <2>3 DEF ServerOrder
    <3> QED
      BY <1>1, <2>1, <2>2, <2>5, <3>1 DEF PageTypeOK, AnswersOrdered, streamVars
  <2>7. ASSUME ~mixed
        PROVE  InOrder(hits') /\ OnceTwice(hits') /\ UpTo(hits', x)
    <3>1. /\ InOrder(hits) /\ OnceTwice(hits) /\ UpTo(hits, x) /\ hits \in Seq(Nat)
          /\ Twice(hits) # {} => UpTo(hits, x - 1)
      <4>1. x - 1 = pos[k][c]
        BY <2>2
      <4> QED BY <2>1, <2>7, <4>1 DEF ListOrdered, PageTypeOK
    <3>2. InOrder(longer) /\ OnceTwice(longer) /\ UpTo(longer, x)
      BY <2>2, <3>1, AppendOrdered
    <3> QED BY <2>1, <2>4, <3>1, <3>2, NewestInherits
  <2>8. ASSUME NEW m \in Nat, x <= m, ~mixed PROVE UpTo(hits', m)
    <3>1. \A i \in 1..Len(hits') : hits'[i] \in Nat
      BY <2>5, LenProperties
    <3> QED BY <2>2, <2>7, <2>8, <3>1 DEF UpTo
  <2>9. ListOrdered'
    <3>1. ASSUME ~mixed, NEW l \in Kinds, NEW d \in Connects,
                 stream[l][d] \in {"subscribed", "open"}
          PROVE  UpTo(hits', pos'[l][d] + 1) /\ UpTo(hits', pos'[l][d])
      <4>1. pos'[l][d] = x
        BY <2>1, <2>3, <3>1, OneLive
      <4> QED BY <2>2, <2>8, <3>1, <4>1
    <3>2. ~mixed => UpTo(hits', logged) /\ UpTo(hits', sent)
      BY <2>2, <2>8
    <3> QED BY <1>1, <2>1, <2>7, <3>1, <3>2 DEF ListOrdered, streamVars
  <2> QED BY <1>2, <2>6, <2>9
<1> QED BY <1>4, <1>5, <1>6 DEF Listing
-----------------------------------------------------------------------------
\* The page starts disconnected and with an empty list.
LEMMA PageInitOK == Init => PageInv
<1> SUFFICES ASSUME Init PROVE PageInv
  OBVIOUS
<1>1. PageTypeOK
  <2>1. /\ stream \in [Kinds -> [Connects -> StreamStates]]
        /\ pos \in [Kinds -> [Connects -> Nat]]
    BY DEF Init, StreamStates
  <2>2. answer \in [Calls -> Seq(Nat)] /\ hits \in Seq(Nat) /\ wanted \in [Calls -> Nat]
    BY DEF Init
  <2> QED BY <2>1, <2>2 DEF Init, PageTypeOK
<1>2. OneFeed
  BY DEF Init, OneFeed
<1>3. ServerOrder
  BY DEF Init, ServerOrder
<1>4. AnswersOrdered
  BY IncreasingIsOrdered DEF Init, AnswersOrdered
<1>5. ListOrdered
  <2>1. hits = <<>> /\ \A k \in Kinds, c \in Connects : stream[k][c] = "none"
    BY DEF Init
  <2>2. /\ InOrder(hits) /\ OnceTwice(hits) /\ Twice(hits) = {}
        /\ UpTo(hits, logged)
    BY <2>1, IncreasingIsOrdered
  <2> QED BY <2>1, <2>2 DEF ListOrdered
<1> QED BY <1>1, <1>2, <1>3, <1>4, <1>5 DEF PageInv

\* No step of the page, the browser or the server breaks the invariant.
LEMMA PageStepOK == PageInv /\ [Next]_vars => PageInv'
<1> SUFFICES ASSUME PageInv, [Next]_vars PROVE PageInv'
  OBVIOUS
<1>1. CASE Next
  BY <1>1, StepsOfPage, LoadingOK, ListingOK, StreamingOK, ServingOK
<1>2. CASE UNCHANGED vars
  BY <1>2
  DEF vars, serverVars, loadVars, streamVars, PageInv, PageTypeOK, OneFeed, ServerOrder,
      AnswersOrdered, ListOrdered
<1> QED BY <1>1, <1>2

\* connect, openStream and the fallback: whatever overlaps, at most one
\* stream feeds the page, and it is the one that closeStream would close.
THEOREM OneStreamFeeds == Spec => []OneFeed
<1>1. PageInv => OneFeed
  BY DEF PageInv
<1> QED BY <1>1, PageInitOK, PageStepOK, PTL DEF Spec

\* loadHits and appendHit: a list that was not loaded beside a subscribed
\* stream is in order and has at most one hit twice, for every limit and
\* every number of reconnects, refreshes and hits.
THEOREM ListShownInOrder == Spec => []ShownInOrder
<1>1. PageInv => ShownInOrder
  <2> SUFFICES ASSUME PageInv, ~mixed
               PROVE  /\ \A i \in 1..Len(hits) - 1 : hits[i] <= hits[i + 1]
                      /\ \A i, j \in 1..Len(hits) - 1 :
                           hits[i] = hits[i + 1] /\ hits[j] = hits[j + 1] => i = j
    BY DEF ShownInOrder
  <2> QED BY DEF PageInv, ListOrdered, InOrder, OnceTwice, Twice
<1> QED BY <1>1, PageInitOK, PageStepOK, PTL DEF Spec
=============================================================================
