---------------------------- MODULE SampleProofs ----------------------------
(***************************************************************************)
(* Proofs about samples: which of them the register filter selects, for    *)
(* every register table, every input and every vector of registers; and    *)
(* that the reader of the perf ring hands over each one once and word for  *)
(* word, for every size of ring, register file and length of call chain.   *)
(***************************************************************************)
EXTENDS RegFilter, PerfRing, SequenceTheorems, FiniteSetTheorems,
        WellFoundedInduction, TLAPS

(***************************************************************************)
(* The pieces of a sequence between the members of a set.                  *)
(***************************************************************************)
IsPiece(s, lo, hi, cut, a, b) ==
  /\ a \in Int /\ b \in Int
  /\ lo <= a /\ a <= b + 1 /\ b <= hi
  /\ a = lo \/ s[a - 1] \in cut
  /\ b = hi \/ s[b + 1] \in cut
  /\ \A i \in a..b : s[i] \notin cut

\* A pair is a piece when there is an end or a cut on each of its sides and
\* no cut within it.
LEMMA PieceMembers ==
  ASSUME NEW s, NEW lo \in Int, NEW hi \in Int, NEW cut, lo <= hi + 2, NEW p
  PROVE  p \in Pieces(s, lo, hi, cut)
           <=> p = <<p[1], p[2]>> /\ IsPiece(s, lo, hi, cut, p[1], p[2])
<1> DEFINE stops == {i \in lo..hi : s[i] \in cut} \cup {lo - 1, hi + 1}
           gaps == {q \in stops \X stops :
                      q[1] < q[2] /\ stops \cap (q[1] + 1)..(q[2] - 1) = {}}
<1>1. Pieces(s, lo, hi, cut) = {<<q[1] + 1, q[2] - 1>> : q \in gaps}
  BY DEF Pieces
<1>2. \A x : x \in stops <=> x \in lo - 1..hi + 1 /\ (x = lo - 1 \/ x = hi + 1 \/ s[x] \in cut)
  OBVIOUS
<1> HIDE DEF stops
<1>3. ASSUME p \in Pieces(s, lo, hi, cut)
      PROVE  p = <<p[1], p[2]>> /\ IsPiece(s, lo, hi, cut, p[1], p[2])
  <2>1. PICK q \in gaps : p = <<q[1] + 1, q[2] - 1>>
    BY <1>1, <1>3
  <2>2. /\ q[1] \in stops /\ q[2] \in stops /\ q[1] < q[2]
        /\ \A i \in (q[1] + 1)..(q[2] - 1) : i \notin stops
    OBVIOUS
  <2> HIDE DEF gaps
  <2>3. p[1] = q[1] + 1 /\ p[2] = q[2] - 1 /\ p = <<p[1], p[2]>>
    BY <2>1
  <2>4. /\ q[1] \in Int /\ q[2] \in Int /\ lo - 1 <= q[1] /\ q[2] <= hi + 1
        /\ q[1] = lo - 1 \/ s[q[1]] \in cut
        /\ q[2] = hi + 1 \/ s[q[2]] \in cut
    BY <1>2, <2>2
  <2>5. \A i \in p[1]..p[2] : s[i] \notin cut
    BY <1>2, <2>2, <2>3, <2>4
  <2>6. p[1] - 1 = q[1] /\ p[2] + 1 = q[2]
    BY <2>3, <2>4
  <2> QED BY <2>2, <2>3, <2>4, <2>5, <2>6 DEF IsPiece
<1>4. ASSUME p = <<p[1], p[2]>>, IsPiece(s, lo, hi, cut, p[1], p[2])
      PROVE  p \in Pieces(s, lo, hi, cut)
  <2> DEFINE a == p[1] - 1
             b == p[2] + 1
             q == <<a, b>>
  <2>1. /\ p[1] \in Int /\ p[2] \in Int /\ lo - 1 <= a /\ a < b /\ b <= hi + 1
        /\ a = lo - 1 \/ s[a] \in cut
        /\ b = hi + 1 \/ s[b] \in cut
        /\ \A i \in p[1]..p[2] : s[i] \notin cut
    BY <1>4 DEF IsPiece
  <2>2. a \in stops /\ b \in stops
    BY <1>2, <2>1
  <2>3. \A i \in (a + 1)..(b - 1) : i \notin stops
    BY <1>2, <2>1
  <2>4. q[1] = a /\ q[2] = b /\ q \in gaps
    BY <2>1, <2>2, <2>3
  <2>5. p = <<q[1] + 1, q[2] - 1>>
    BY <1>4, <2>1, <2>4
  <2> QED BY <1>1, <2>4, <2>5
<1> QED BY <1>3, <1>4

\* A cut divides the pieces into those before it and those behind it.
LEMMA PiecesSplit ==
  ASSUME NEW s, NEW lo \in Int, NEW hi \in Int, NEW cut,
         NEW c \in lo..hi, s[c] \in cut
  PROVE  Pieces(s, lo, hi, cut) =
           Pieces(s, lo, c - 1, cut) \cup Pieces(s, c + 1, hi, cut)
<1>1. c \in Int /\ lo <= c /\ c <= hi
  OBVIOUS
<1>2. ASSUME NEW a, NEW b
      PROVE  IsPiece(s, lo, hi, cut, a, b) <=>
               IsPiece(s, lo, c - 1, cut, a, b) \/ IsPiece(s, c + 1, hi, cut, a, b)
  <2>1. IsPiece(s, lo, hi, cut, a, b) => b < c \/ a > c
    BY <1>1 DEF IsPiece
  <2>2. IsPiece(s, lo, hi, cut, a, b) /\ b < c => IsPiece(s, lo, c - 1, cut, a, b)
    BY <1>1 DEF IsPiece
  <2>3. IsPiece(s, lo, hi, cut, a, b) /\ a > c => IsPiece(s, c + 1, hi, cut, a, b)
    BY <1>1 DEF IsPiece
  <2>4. IsPiece(s, lo, c - 1, cut, a, b) => IsPiece(s, lo, hi, cut, a, b)
    BY <1>1 DEF IsPiece
  <2>5. IsPiece(s, c + 1, hi, cut, a, b) => IsPiece(s, lo, hi, cut, a, b)
    BY <1>1 DEF IsPiece
  <2> QED BY <2>1, <2>2, <2>3, <2>4, <2>5
<1>3. lo <= hi + 2 /\ lo <= (c - 1) + 2 /\ c + 1 <= hi + 2 /\ c - 1 \in Int /\ c + 1 \in Int
  BY <1>1
<1>4. ASSUME NEW p
      PROVE  p \in Pieces(s, lo, hi, cut) <=>
               p \in Pieces(s, lo, c - 1, cut) \/ p \in Pieces(s, c + 1, hi, cut)
  BY <1>1, <1>2, <1>3, PieceMembers
<1> QED BY <1>4

\* Without a cut there is one piece.
LEMMA PlainPiece ==
  ASSUME NEW s, NEW lo \in Int, NEW hi \in Int, NEW cut,
         lo <= hi + 1, \A i \in lo..hi : s[i] \notin cut
  PROVE  Pieces(s, lo, hi, cut) = {<<lo, hi>>}
<1>1. ASSUME NEW a, NEW b PROVE IsPiece(s, lo, hi, cut, a, b) <=> a = lo /\ b = hi
  BY DEF IsPiece
<1>2. ASSUME NEW p PROVE p \in Pieces(s, lo, hi, cut) <=> p = <<lo, hi>>
  BY <1>1, PieceMembers
<1> QED BY <1>2

\* There is none where there is no room for one.
LEMMA NoPiece ==
  ASSUME NEW s, NEW lo \in Int, NEW cut
  PROVE  Pieces(s, lo, lo - 2, cut) = {}
<1>1. ASSUME NEW a, NEW b PROVE ~IsPiece(s, lo, lo - 2, cut, a, b)
  BY DEF IsPiece
<1> QED BY <1>1, PieceMembers

\* The pieces of a part depend on that part only.
LEMMA PiecesAgree ==
  ASSUME NEW s, NEW t, NEW lo \in Int, NEW hi \in Int, NEW cut, lo <= hi + 2,
         \A i \in lo..hi : s[i] = t[i]
  PROVE  Pieces(s, lo, hi, cut) = Pieces(t, lo, hi, cut)
<1>1. ASSUME NEW a, NEW b
      PROVE  IsPiece(s, lo, hi, cut, a, b) => IsPiece(t, lo, hi, cut, a, b)
  BY DEF IsPiece
<1>2. ASSUME NEW a, NEW b
      PROVE  IsPiece(t, lo, hi, cut, a, b) => IsPiece(s, lo, hi, cut, a, b)
  BY DEF IsPiece
<1>3. ASSUME NEW p
      PROVE  p \in Pieces(s, lo, hi, cut) <=> p \in Pieces(t, lo, hi, cut)
  BY <1>1, <1>2, PieceMembers
<1> QED BY <1>3

\* From any position there is a next cut, or none before the end.
LEMMA NextCut ==
  ASSUME NEW s, NEW a \in Nat, NEW n \in Nat, NEW cut, a <= n + 1
  PROVE  \E h \in Int : /\ a <= h + 1 /\ h <= n
                        /\ h = n \/ s[h + 1] \in cut
                        /\ \A i \in a..h : s[i] \notin cut
<1> DEFINE C == {i \in a..n : s[i] \in cut}
<1>1. CASE C = {}
  <2>1. \A i \in a..n : s[i] \notin cut
    BY <1>1
  <2> QED BY <2>1
<1>2. CASE C # {}
  <2>1. C \subseteq Nat
    OBVIOUS
  <2>2. PICK c \in C : \A d \in C : ~(<<d, c>> \in OpToRel(<, Nat))
    BY <1>2, <2>1, NatLessThanWellFounded, WFMin, Zenon
  <2>3. \A d \in C : ~(d < c)
    BY <2>1, <2>2 DEF OpToRel
  <2>4. c \in a..n /\ s[c] \in cut
    OBVIOUS
  <2>5. \A i \in a..c - 1 : s[i] \notin cut
    BY <2>3, <2>4
  <2>6. a <= (c - 1) + 1 /\ c - 1 <= n /\ (c - 1) + 1 = c /\ c - 1 \in Int
    BY <2>4
  <2> QED BY <2>4, <2>5, <2>6
<1> QED BY <1>1, <1>2
-----------------------------------------------------------------------------
(***************************************************************************)
(* The inductive invariant of the parser.  Where it is in the input: its   *)
(* group began at g and its predicate at f, each at the start or behind a  *)
(* connective.  What it has read of the predicate is in pred; what is      *)
(* before f are predicates; and the groups it has built so far select what *)
(* the text before g means, and its group what the text from g means.      *)
(***************************************************************************)
FilterTypeOK ==
  /\ TypeOK
  /\ Len(tokens) = pos \/ Len(tokens) = pos - 1
  /\ ended => Len(tokens) = pos - 1

\* The part of the predicate that begins at f.
ReadSoFar(f) ==
  /\ phase = "reg" => f = pos
  /\ phase \in {"mask", "maskvalue", "op", "value"} =>
       f < pos /\ tokens[f] \in RegTokens /\ pred.reg = RegIndex[tokens[f]]
  /\ phase = "mask" => f = pos - 1
  /\ phase = "maskvalue" => f = pos - 2 /\ tokens[f + 1] = "&"
  /\ phase = "op" =>
       /\ f = pos - 3 /\ tokens[f + 1] = "&"
       /\ tokens[f + 2] \in ValueTokens /\ pred.mask = {ValueOf[tokens[f + 2]]}
  /\ phase = "value" =>
       /\ tokens[pos - 1] \in Operators /\ pred.op = tokens[pos - 1]
       /\ \/ f = pos - 2 /\ pred.mask = {}
          \/ /\ f = pos - 4 /\ tokens[f + 1] = "&"
             /\ tokens[f + 2] \in ValueTokens /\ pred.mask = {ValueOf[tokens[f + 2]]}
  /\ phase = "link" => IsPredicate(tokens, f, pos - 1)

InPlace(g, f) ==
  /\ 1 <= g /\ g <= f /\ f <= pos
  /\ g = 1 \/ tokens[g - 1] \in OrTokens
  /\ f = g \/ tokens[f - 1] \in AndTokens
  /\ \A i \in g..f - 1 : tokens[i] \notin OrTokens

PredicatesBefore(f) ==
  \A p \in Pieces(tokens, 1, f - 2, Connectives) : IsPredicate(tokens, p[1], p[2])

GroupsMean(g, regs) ==
  Matches(groups, regs) <=>
    \E p \in Pieces(tokens, 1, g - 2, OrTokens) :
      \A q \in Pieces(tokens, p[1], p[2], AndTokens) :
        PredicateHolds(tokens, q[1], q[2], regs)

GroupMeans(g, f, regs) ==
  (\A k \in 1..Len(group) : Satisfies(group[k], regs)) <=>
    \A q \in Pieces(tokens, g, IF phase = "link" THEN pos - 1 ELSE f - 2, AndTokens) :
      PredicateHolds(tokens, q[1], q[2], regs)

Reading(g, f) ==
  /\ ReadSoFar(f)
  /\ InPlace(g, f)
  /\ PredicatesBefore(f)
  /\ \A regs \in Samples : GroupsMean(g, regs) /\ GroupMeans(g, f, regs)

FilterInv ==
  /\ FilterTypeOK
  /\ IF phase \in {"ok", "error"} THEN AcceptsFilters /\ MatchesItsMeaning
     ELSE \E g, f \in 1..pos : Reading(g, f)

\* The phases in which the parser reads on.
Reads == phase \in {"reg", "mask", "maskvalue", "op", "value", "link"}

-----------------------------------------------------------------------------
\* The last piece of a part, when its start is known and no cut is in it.
LEMMA LastPiece ==
  ASSUME NEW s, NEW lo \in Int, NEW f \in Int, NEW h \in Int, NEW cut,
         lo <= f, f <= h + 1, f = lo \/ s[f - 1] \in cut,
         \A i \in f..h : s[i] \notin cut
  PROVE  Pieces(s, lo, h, cut) = Pieces(s, lo, f - 2, cut) \cup {<<f, h>>}
<1>1. CASE f = lo
  BY <1>1, NoPiece, PlainPiece
<1>2. CASE f # lo
  <2>1. f - 1 \in lo..h /\ s[f - 1] \in cut /\ (f - 1) - 1 = f - 2 /\ (f - 1) + 1 = f
    BY <1>2
  <2>2. Pieces(s, lo, h, cut) = Pieces(s, lo, f - 2, cut) \cup Pieces(s, f, h, cut)
    BY <2>1, PiecesSplit
  <2> QED BY <2>2, PlainPiece
<1> QED BY <1>1, <1>2

\* A piece of a piece, for two kinds of cuts, is a piece for both.
LEMMA PieceOfPiece ==
  ASSUME NEW s, NEW hi \in Int, 1 <= hi + 2, NEW p \in Pieces(s, 1, hi, OrTokens),
         NEW q \in Pieces(s, p[1], p[2], AndTokens)
  PROVE  q \in Pieces(s, 1, hi, Connectives)
<1>1. IsPiece(s, 1, hi, OrTokens, p[1], p[2])
  BY PieceMembers
<1>2. p[1] \in Int /\ p[2] \in Int /\ p[1] <= p[2] + 2
  BY <1>1 DEF IsPiece
<1>3. q = <<q[1], q[2]>> /\ IsPiece(s, p[1], p[2], AndTokens, q[1], q[2])
  BY <1>2, PieceMembers
<1>4. IsPiece(s, 1, hi, Connectives, q[1], q[2])
  <2>1. /\ q[1] \in Int /\ q[2] \in Int /\ p[1] <= q[1] /\ q[1] <= q[2] + 1 /\ q[2] <= p[2]
        /\ 1 <= p[1] /\ p[2] <= hi
    BY <1>1, <1>3 DEF IsPiece
  <2>2. q[1] = 1 \/ s[q[1] - 1] \in Connectives
    <3>1. CASE q[1] = p[1]
      BY <1>1, <3>1 DEF IsPiece, Connectives
    <3>2. CASE q[1] # p[1]
      BY <1>3, <3>2 DEF IsPiece, Connectives
    <3> QED BY <3>1, <3>2
  <2>3. q[2] = hi \/ s[q[2] + 1] \in Connectives
    <3>1. CASE q[2] = p[2]
      BY <1>1, <3>1 DEF IsPiece, Connectives
    <3>2. CASE q[2] # p[2]
      BY <1>3, <3>2 DEF IsPiece, Connectives
    <3> QED BY <3>1, <3>2
  <2>4. ASSUME NEW i \in q[1]..q[2] PROVE s[i] \notin Connectives
    <3>1. i \in p[1]..p[2]
      BY <1>2, <2>1
    <3>2. s[i] \notin OrTokens /\ s[i] \notin AndTokens
      BY <1>1, <1>3, <3>1 DEF IsPiece
    <3> QED BY <3>2 DEF Connectives
  <2> QED BY <1>2, <2>1, <2>2, <2>3, <2>4 DEF IsPiece
<1> QED BY <1>3, <1>4, PieceMembers

\* The same for the pieces of a part without the first kind of cut, which
\* begins with one or with the sequence.
LEMMA PieceOfGroup ==
  ASSUME NEW s, NEW g \in Int, NEW hi \in Int, 1 <= g, g <= hi + 2,
         g = 1 \/ s[g - 1] \in OrTokens, \A i \in g..hi : s[i] \notin OrTokens,
         NEW q \in Pieces(s, g, hi, AndTokens)
  PROVE  q \in Pieces(s, 1, hi, Connectives)
<1>1. q = <<q[1], q[2]>> /\ IsPiece(s, g, hi, AndTokens, q[1], q[2])
  BY PieceMembers
<1>2. IsPiece(s, 1, hi, Connectives, q[1], q[2])
  BY <1>1 DEF IsPiece, Connectives
<1> QED BY <1>1, <1>2, PieceMembers

\* There is no connective in a predicate.
LEMMA PredicatePlain ==
  ASSUME NEW s, NEW f \in Int, NEW h \in Int, IsPredicate(s, f, h)
  PROVE  h \in {f + 2, f + 4} /\ \A i \in f..h : s[i] \notin Connectives
<1>1. CASE h = f + 2
  <2>1. f..h = {f, f + 1, f + 2} /\ h - 1 = f + 1
    BY <1>1
  <2> QED BY <1>1, <2>1, FilterAssumption DEF IsPredicate, FilterAssumption
<1>2. CASE h = f + 4
  <2>1. f..h = {f, f + 1, f + 2, f + 3, f + 4} /\ h - 1 = f + 3 /\ h - f = 4
    BY <1>2
  <2> QED BY <1>2, <2>1, FilterAssumption DEF IsPredicate, FilterAssumption
<1> QED BY <1>1, <1>2 DEF IsPredicate

\* What a predicate is and means depends on its own tokens only.
LEMMA PredicateAgrees ==
  ASSUME NEW s, NEW t, NEW f \in Int, NEW h \in Int, IsPredicate(s, f, h),
         \A i \in f..h : s[i] = t[i]
  PROVE  /\ IsPredicate(t, f, h)
         /\ \A regs : PredicateHolds(s, f, h, regs) <=> PredicateHolds(t, f, h, regs)
<1>1. h - f \in {2, 4}
  BY DEF IsPredicate
<1>2. /\ s[f] = t[f] /\ s[h] = t[h] /\ s[h - 1] = t[h - 1]
      /\ s[f + 1] = t[f + 1] /\ s[f + 2] = t[f + 2]
  BY <1>1
<1> QED BY <1>1, <1>2 DEF IsPredicate, PredicateHolds

\* The predicate that the parser has built means what its tokens mean.
LEMMA PredicateMeans ==
  ASSUME NEW s, NEW f \in Int, NEW h \in Int, IsPredicate(s, f, h),
         NEW p, p.reg = RegIndex[s[f]], p.op = s[h - 1], p.value = ValueOf[s[h]],
         p.mask = IF h - f = 4 THEN {ValueOf[s[f + 2]]} ELSE {},
         NEW regs \in Samples
  PROVE  Satisfies(p, regs) <=> PredicateHolds(s, f, h, regs)
<1>1. regs \in Seq(Nat) /\ RegIndex[s[f]] \in Nat \ {0}
  BY FilterAssumption DEF FilterAssumption, IsPredicate
<1>2. p.reg \in DOMAIN regs <=> RegIndex[s[f]] <= Len(regs)
  BY <1>1, LenProperties
<1>3. CASE h - f = 4
  <2>1. p.mask # {} /\ (CHOOSE m \in p.mask : TRUE) = ValueOf[s[f + 2]]
    BY <1>3
  <2> QED BY <1>2, <1>3, <2>1 DEF Satisfies, PredicateHolds
<1>4. CASE h - f # 4
  <2>1. p.mask = {}
    BY <1>4
  <2> QED BY <1>2, <1>4, <2>1 DEF Satisfies, PredicateHolds
<1> QED BY <1>3, <1>4
-----------------------------------------------------------------------------
\* Where the parser is, nothing that it has read of its predicate is a
\* connective.
LEMMA ReadPlain ==
  ASSUME FilterTypeOK, Reads, NEW f \in 1..pos, ReadSoFar(f)
  PROVE  \A i \in f..pos - 1 : tokens[i] \notin Connectives
<1> USE FilterAssumption DEF FilterAssumption
<1>1. pos \in Nat
  BY DEF FilterTypeOK, TypeOK
<1>2. CASE phase = "reg"
  BY <1>1, <1>2 DEF ReadSoFar
<1>3. CASE phase = "mask"
  BY <1>1, <1>3 DEF ReadSoFar
<1>4. CASE phase = "maskvalue"
  <2>1. f..pos - 1 = {f, f + 1}
    BY <1>1, <1>4 DEF ReadSoFar
  <2> QED BY <1>4, <2>1 DEF ReadSoFar
<1>5. CASE phase = "op"
  <2>1. f..pos - 1 = {f, f + 1, f + 2}
    BY <1>1, <1>5 DEF ReadSoFar
  <2> QED BY <1>5, <2>1 DEF ReadSoFar
<1>6. CASE phase = "value" /\ f = pos - 2
  <2>1. f..pos - 1 = {f, pos - 1}
    BY <1>1, <1>6
  <2> QED BY <1>6, <2>1 DEF ReadSoFar
<1>7. CASE phase = "value" /\ f # pos - 2
  <2>1. f = pos - 4 /\ f..pos - 1 = {f, f + 1, f + 2, pos - 1}
    BY <1>1, <1>7 DEF ReadSoFar
  <2> QED BY <1>7, <2>1 DEF ReadSoFar
<1>8. CASE phase = "link"
  BY <1>1, <1>8, PredicatePlain DEF ReadSoFar
<1> QED BY <1>2, <1>3, <1>4, <1>5, <1>6, <1>7, <1>8 DEF Reads

\* Every piece up to the group's last one is a predicate.
LEMMA PiecesRead ==
  ASSUME FilterTypeOK, Reads, NEW f \in 1..pos, NEW g \in 1..f, Reading(g, f)
  PROVE  \A p \in Pieces(tokens, 1, IF phase = "link" THEN pos - 1 ELSE f - 2, Connectives) :
           IsPredicate(tokens, p[1], p[2])
<1>1. CASE phase # "link"
  BY <1>1 DEF Reading, PredicatesBefore
<1>2. CASE phase = "link"
  <2>1. f \in Int /\ pos - 1 \in Int /\ 1 <= f /\ f <= (pos - 1) + 1
    BY DEF FilterTypeOK, TypeOK
  <2>2. f = 1 \/ tokens[f - 1] \in Connectives
    BY DEF Reading, InPlace, Connectives
  <2>3. \A i \in f..pos - 1 : tokens[i] \notin Connectives
    BY ReadPlain DEF Reading
  <2>4. Pieces(tokens, 1, pos - 1, Connectives) =
          Pieces(tokens, 1, f - 2, Connectives) \cup {<<f, pos - 1>>}
    BY <2>1, <2>2, <2>3, LastPiece
  <2>5. IsPredicate(tokens, f, pos - 1)
    BY <1>2 DEF Reading, ReadSoFar
  <2> QED BY <1>2, <2>4, <2>5 DEF Reading, PredicatesBefore
<1> QED BY <1>1, <1>2

\* A token that is one of the input's is at the cursor, and the last one.
LEMMA PeekIs ==
  ASSUME FilterTypeOK, Peek \in Tokens
  PROVE  pos = Len(tokens) /\ Peek = tokens[pos] /\ ~ended
BY FilterAssumption DEF FilterTypeOK, TypeOK, Peek, FilterAssumption

\* The empty input.
LEMMA FilterInitOK == Init => FilterInv
<1> SUFFICES ASSUME Init PROVE FilterInv
  OBVIOUS
<1>1. /\ tokens = <<>> /\ ended = FALSE /\ pos = 1 /\ phase = "reg" /\ group = <<>>
      /\ groups = <<>> /\ pred = Blank
  BY DEF Init
<1>2. Len(tokens) = 0 /\ tokens \in Seq(Tokens) /\ Len(group) = 0
  BY <1>1
<1>3. pred \in Partial
  BY <1>1 DEF Partial, Blank
<1>4. FilterTypeOK
  <2>1. group \in Seq(Predicates) /\ groups \in Seq(Seq(Predicates) \ {<<>>})
    BY <1>1
  <2>2. phase \in DOMAIN Expected /\ phase # "link" /\ ended \in BOOLEAN
    BY <1>1 DEF Expected
  <2>3. Len(tokens) <= MaxTokens /\ pos \in 1..(Len(tokens) + 1)
    BY <1>1, <1>2, FilterAssumption DEF FilterAssumption
  <2>4. TypeOK
    BY <1>2, <1>3, <2>1, <2>2, <2>3 DEF TypeOK
  <2> QED BY <1>1, <1>2, <2>4 DEF FilterTypeOK
<1>5. \A cut : Pieces(tokens, 1, -1, cut) = {}
  BY NoPiece
<1>6. Reading(1, 1)
  <2>1. ReadSoFar(1) /\ InPlace(1, 1)
    BY <1>1 DEF ReadSoFar, InPlace
  <2>2. 1 - 2 = -1
    OBVIOUS
  <2>3. PredicatesBefore(1)
    BY <1>5, <2>2 DEF PredicatesBefore
  <2>4. ASSUME NEW regs \in Samples PROVE GroupsMean(1, regs) /\ GroupMeans(1, 1, regs)
    BY <1>1, <1>2, <1>5, <2>2 DEF GroupsMean, GroupMeans, Matches
  <2> QED BY <2>1, <2>3, <2>4 DEF Reading
<1> QED BY <1>1, <1>4, <1>6 DEF FilterInv

\* The next token comes when the cursor is behind the last one.
LEMMA ArriveOK == ASSUME FilterInv, NEW x \in Tokens, Arrive(x) PROVE FilterInv'
<1>1. /\ Reads /\ ~ended /\ tokens' = Append(tokens, x)
      /\ UNCHANGED <<ended, pos, phase, pred, group, groups>>
  BY DEF Arrive, FilterInv, FilterTypeOK, TypeOK, Expected, Reads
<1>2. /\ FilterTypeOK /\ pos \in Nat /\ Len(tokens) \in Nat /\ tokens \in Seq(Tokens)
      /\ Len(tokens) = pos - 1 /\ Len(tokens) + 1 <= MaxTokens
  BY FilterAssumption DEF Arrive, FilterInv, FilterTypeOK, TypeOK, FilterAssumption
<1>3. /\ tokens' \in Seq(Tokens) /\ Len(tokens') = pos
      /\ \A i \in 1..pos - 1 : tokens[i] = tokens'[i]
  BY <1>1, <1>2, AppendProperties
<1>4. FilterTypeOK'
  BY <1>1, <1>2, <1>3 DEF FilterTypeOK, TypeOK, Partial
<1>5. PICK g \in 1..pos, f \in 1..pos : Reading(g, f)
  BY <1>1 DEF FilterInv, Reads
<1>6. g \in 1..f /\ f \in Int /\ g \in Int
  BY <1>2, <1>5 DEF Reading, InPlace
<1> DEFINE last == IF phase = "link" THEN pos - 1 ELSE f - 2
<1>7. \A p \in Pieces(tokens, 1, last, Connectives) : IsPredicate(tokens, p[1], p[2])
  BY <1>1, <1>2, <1>5, <1>6, PiecesRead
<1>8. last \in Int /\ f - 2 <= last /\ last <= pos - 1 /\ g <= last + 2
  BY <1>1, <1>2, <1>5, <1>6 DEF Reads
<1>9. ReadSoFar(f)'
  <2>1. phase = "link" => IsPredicate(tokens', f, pos - 1)
    <3>1. phase = "link" => IsPredicate(tokens, f, pos - 1)
      BY <1>5 DEF Reading, ReadSoFar
    <3>2. \A i \in f..pos - 1 : tokens[i] = tokens'[i]
      BY <1>3, <1>6
    <3> QED BY <1>2, <1>6, <3>1, <3>2, PredicateAgrees
  <2>2. phase \in {"mask", "maskvalue", "op", "value"} => tokens'[f] = tokens[f]
    BY <1>2, <1>3, <1>5, <1>6 DEF Reading, ReadSoFar
  <2>3. phase = "maskvalue" => tokens'[f + 1] = tokens[f + 1]
    BY <1>2, <1>3, <1>5, <1>6 DEF Reading, ReadSoFar
  <2>4. phase = "op" => tokens'[f + 1] = tokens[f + 1] /\ tokens'[f + 2] = tokens[f + 2]
    BY <1>2, <1>3, <1>5, <1>6 DEF Reading, ReadSoFar
  <2>5. phase = "value" => tokens'[pos - 1] = tokens[pos - 1]
    BY <1>2, <1>3, <1>5, <1>6 DEF Reading, ReadSoFar
  <2>6. phase = "value" /\ f = pos - 4 =>
          tokens'[f + 1] = tokens[f + 1] /\ tokens'[f + 2] = tokens[f + 2]
    BY <1>2, <1>3, <1>5, <1>6 DEF Reading, ReadSoFar
  <2> QED BY <1>1, <1>5, <2>1, <2>2, <2>3, <2>4, <2>5, <2>6 DEF Reading, ReadSoFar
<1>10. InPlace(g, f)'
  <2>1. g # 1 => tokens'[g - 1] = tokens[g - 1]
    BY <1>2, <1>3, <1>5, <1>6
  <2>2. f # g => tokens'[f - 1] = tokens[f - 1]
    BY <1>2, <1>3, <1>5, <1>6
  <2>3. \A i \in g..f - 1 : tokens'[i] = tokens[i]
    BY <1>2, <1>3, <1>5, <1>6
  <2> QED BY <1>1, <1>5, <2>1, <2>2, <2>3 DEF Reading, InPlace
<1>11. ASSUME NEW lo \in Int, NEW hi \in Int, NEW cut, 1 <= lo, lo <= hi + 2, hi <= pos - 1
       PROVE  Pieces(tokens, lo, hi, cut) = Pieces(tokens', lo, hi, cut)
  <2>1. \A i \in lo..hi : tokens[i] = tokens'[i]
    BY <1>2, <1>3, <1>11
  <2> QED BY <1>11, <2>1, PiecesAgree
<1>12. ASSUME NEW hi \in Int, -1 <= hi, hi <= last, NEW p \in Pieces(tokens, 1, hi, Connectives),
              IsPredicate(tokens, p[1], p[2])
       PROVE  /\ IsPredicate(tokens', p[1], p[2])
              /\ \A regs : PredicateHolds(tokens, p[1], p[2], regs)
                             <=> PredicateHolds(tokens', p[1], p[2], regs)
  <2>1. IsPiece(tokens, 1, hi, Connectives, p[1], p[2])
    BY <1>12, PieceMembers
  <2>2. p[1] \in Int /\ p[2] \in Int /\ \A i \in p[1]..p[2] : tokens[i] = tokens'[i]
    BY <1>2, <1>3, <1>8, <1>12, <2>1 DEF IsPiece
  <2> QED BY <1>12, <2>2, PredicateAgrees
<1>13. PredicatesBefore(f)'
  <2>1. ASSUME NEW p \in Pieces(tokens', 1, f - 2, Connectives)
        PROVE  IsPredicate(tokens', p[1], p[2])
    <3>1. p \in Pieces(tokens, 1, f - 2, Connectives)
      BY <1>2, <1>6, <1>8, <1>11, <2>1
    <3>2. IsPredicate(tokens, p[1], p[2])
      BY <1>5, <3>1 DEF Reading, PredicatesBefore
    <3> QED BY <1>6, <1>8, <1>12, <3>1, <3>2
  <2> QED BY <2>1 DEF PredicatesBefore
<1>14. Pieces(tokens, 1, g - 2, Connectives) \subseteq Pieces(tokens, 1, last, Connectives)
  <2>1. CASE g = 1
    <3>1. Pieces(tokens, 1, 1 - 2, Connectives) = {}
      BY NoPiece
    <3> QED BY <2>1, <3>1
  <2>2. CASE g # 1
    <3>1. g - 1 \in Int /\ (g - 1) - 1 = g - 2 /\ tokens[g - 1] \in Connectives
      BY <1>5, <1>6, <2>2 DEF Reading, InPlace, Connectives
    <3>2. CASE g - 1 \in 1..last
      BY <1>8, <3>1, <3>2, PiecesSplit
    <3>3. CASE g - 1 \notin 1..last
      <4>1. g - 2 = last
        BY <1>6, <1>8, <2>2, <3>3
      <4> QED BY <4>1
    <3> QED BY <3>2, <3>3
  <2> QED BY <2>1, <2>2
<1>15. ASSUME NEW regs \in Samples PROVE GroupsMean(g, regs)'
  <2>1. g - 2 \in Int /\ 1 <= (g - 2) + 2 /\ g - 2 <= pos - 1
    BY <1>2, <1>6
  <2>2. Pieces(tokens, 1, g - 2, OrTokens) = Pieces(tokens', 1, g - 2, OrTokens)
    BY <1>11, <2>1
  <2>3. ASSUME NEW p \in Pieces(tokens, 1, g - 2, OrTokens)
        PROVE  /\ Pieces(tokens, p[1], p[2], AndTokens) = Pieces(tokens', p[1], p[2], AndTokens)
               /\ \A q \in Pieces(tokens, p[1], p[2], AndTokens) :
                    PredicateHolds(tokens, q[1], q[2], regs)
                      <=> PredicateHolds(tokens', q[1], q[2], regs)
    <3>1. IsPiece(tokens, 1, g - 2, OrTokens, p[1], p[2])
      BY <2>1, <2>3, PieceMembers
    <3>2. /\ p[1] \in Int /\ p[2] \in Int /\ 1 <= p[1] /\ p[1] <= p[2] + 2
          /\ p[2] <= pos - 1
      BY <1>2, <2>1, <3>1 DEF IsPiece
    <3>3. ASSUME NEW q \in Pieces(tokens, p[1], p[2], AndTokens)
          PROVE  PredicateHolds(tokens, q[1], q[2], regs)
                   <=> PredicateHolds(tokens', q[1], q[2], regs)
      <4>1. q \in Pieces(tokens, 1, last, Connectives)
        BY <1>14, <2>1, <2>3, <3>3, PieceOfPiece
      <4> QED BY <1>6, <1>7, <1>8, <1>12, <4>1
    <3> QED BY <1>11, <3>2, <3>3
  <2>4. (\E p \in Pieces(tokens, 1, g - 2, OrTokens) :
           \A q \in Pieces(tokens, p[1], p[2], AndTokens) :
             PredicateHolds(tokens, q[1], q[2], regs))
        <=> (\E p \in Pieces(tokens', 1, g - 2, OrTokens) :
               \A q \in Pieces(tokens', p[1], p[2], AndTokens) :
                 PredicateHolds(tokens', q[1], q[2], regs))
    BY <2>2, <2>3
  <2>5. GroupsMean(g, regs)
    BY <1>5 DEF Reading
  <2> QED BY <1>1, <2>4, <2>5 DEF GroupsMean
<1>16. ASSUME NEW regs \in Samples PROVE GroupMeans(g, f, regs)'
  <2>1. Pieces(tokens, g, last, AndTokens) = Pieces(tokens', g, last, AndTokens)
    BY <1>6, <1>8, <1>11
  <2>2. \A i \in g..last : tokens[i] \notin OrTokens
    <3>1. \A i \in g..f - 1 : tokens[i] \notin OrTokens
      BY <1>5 DEF Reading, InPlace
    <3>2. \A i \in f..pos - 1 : tokens[i] \notin OrTokens
      BY <1>1, <1>2, <1>5, ReadPlain DEF Reading, Connectives
    <3>3. \A i \in g..last : i \in g..f - 1 \/ i \in f..pos - 1
      BY <1>2, <1>6, <1>8
    <3> QED BY <3>1, <3>2, <3>3
  <2>3. ASSUME NEW q \in Pieces(tokens, g, last, AndTokens)
        PROVE  PredicateHolds(tokens, q[1], q[2], regs)
                 <=> PredicateHolds(tokens', q[1], q[2], regs)
    <3>1. 1 <= g /\ (g = 1 \/ tokens[g - 1] \in OrTokens)
      BY <1>5 DEF Reading, InPlace
    <3>2. q \in Pieces(tokens, 1, last, Connectives)
      BY <1>6, <1>8, <2>2, <2>3, <3>1, PieceOfGroup
    <3> QED BY <1>6, <1>7, <1>8, <1>12, <3>2
  <2>4. (\A k \in 1..Len(group) : Satisfies(group[k], regs)) <=>
          \A q \in Pieces(tokens, g, last, AndTokens) : PredicateHolds(tokens, q[1], q[2], regs)
    BY <1>5 DEF Reading, GroupMeans
  <2>5. (\A k \in 1..Len(group') : Satisfies(group'[k], regs)) <=>
          \A q \in Pieces(tokens', g, last, AndTokens) : PredicateHolds(tokens', q[1], q[2], regs)
    BY <1>1, <2>1, <2>3, <2>4
  <2> QED BY <1>1, <2>5 DEF GroupMeans
<1>17. Reading(g, f)'
  BY <1>9, <1>10, <1>13, <1>15, <1>16 DEF Reading
<1> QED BY <1>1, <1>4, <1>17 DEF FilterInv, Reads

\* The end of the input changes nothing else.
LEMMA EndOfInputOK == ASSUME FilterInv, EndOfInput PROVE FilterInv'
<1>1. /\ Reads /\ ended' = TRUE /\ UNCHANGED <<tokens, pos, phase, pred, group, groups>>
  BY DEF EndOfInput, FilterInv, FilterTypeOK, TypeOK, Expected, Reads
<1>2. FilterTypeOK'
  BY <1>1 DEF EndOfInput, FilterInv, FilterTypeOK, TypeOK, Partial
<1>3. PICK g \in 1..pos, f \in 1..pos : Reading(g, f)
  BY <1>1 DEF FilterInv, Reads
<1>4. Reading(g, f)'
  BY <1>1, <1>3
  DEF Reading, ReadSoFar, InPlace, PredicatesBefore, GroupsMean, GroupMeans, Matches
<1> QED BY <1>1, <1>2, <1>4 DEF FilterInv, Reads

\* What the steps within a predicate leave alone.
LEMMA ReadsOn ==
  ASSUME FilterInv, Reads, phase # "link", phase' \in {"mask", "maskvalue", "op", "value"},
         pos' = pos + 1, UNCHANGED <<tokens, ended, group, groups>>, FilterTypeOK',
         NEW g \in 1..pos, NEW f \in 1..pos, Reading(g, f), ReadSoFar(f)'
  PROVE  FilterInv'
<1>1. pos \in Nat
  BY DEF FilterInv, FilterTypeOK, TypeOK
<1>2. InPlace(g, f)'
  BY <1>1 DEF Reading, InPlace
<1>3. PredicatesBefore(f)'
  BY DEF Reading, PredicatesBefore
<1>4. ASSUME NEW regs \in Samples PROVE GroupsMean(g, regs)' /\ GroupMeans(g, f, regs)'
  BY DEF Reading, GroupsMean, GroupMeans, Matches
<1>5. Reading(g, f)'
  BY <1>2, <1>3, <1>4 DEF Reading
<1>6. g \in 1..pos' /\ f \in 1..pos'
  BY <1>1
<1> QED BY <1>5, <1>6 DEF FilterInv

\* A token of the input that the parser expects, and the cursor behind it.
LEMMA ConsumeOK ==
  ASSUME FilterInv, NEW from, NEW to, Consume(from, to), Peek \in Tokens
  PROVE  /\ pos \in Nat /\ pos = Len(tokens) /\ Peek = tokens[pos] /\ ~ended
         /\ phase \in from /\ pos' = pos + 1 /\ phase' = to /\ UNCHANGED <<tokens, ended>>
<1>1. FilterTypeOK
  BY DEF FilterInv
<1>2. pos \in Nat
  BY <1>1 DEF FilterTypeOK, TypeOK
<1> QED BY <1>1, <1>2, PeekIs DEF Consume

\* The register.
LEMMA TakeRegOK == ASSUME FilterInv, TakeReg PROVE FilterInv'
<1>1. /\ pos \in Nat /\ pos = Len(tokens) /\ Peek = tokens[pos] /\ ~ended
      /\ phase = "reg" /\ pos' = pos + 1 /\ phase' = "mask"
      /\ UNCHANGED <<tokens, ended, group, groups>>
  BY ConsumeOK DEF TakeReg, Tokens
<1>2. Peek \in RegTokens /\ pred' = [Blank EXCEPT !.reg = RegIndex[Peek]]
  BY DEF TakeReg
<1>3. pred' = [reg |-> RegIndex[Peek], mask |-> {}, op |-> None, value |-> 0]
  BY <1>2 DEF Blank
<1>4. pred' \in Partial'
  <2>1. Partial' = [reg : {RegIndex[t] : t \in RegTokens}, mask : {{}}, op : {None}, value : {0}]
    BY <1>1 DEF Partial
  <2>2. RegIndex[Peek] \in {RegIndex[t] : t \in RegTokens}
    BY <1>2
  <2> QED BY <1>3, <2>1, <2>2
<1>5. FilterTypeOK'
  BY <1>1, <1>4 DEF FilterInv, FilterTypeOK, TypeOK, Expected
<1>6. PICK g \in 1..pos, f \in 1..pos : Reading(g, f)
  BY <1>1 DEF FilterInv
<1>7. ReadSoFar(f)'
  BY <1>1, <1>2, <1>3, <1>6 DEF Reading, ReadSoFar
<1> QED BY <1>1, <1>5, <1>6, <1>7, ReadsOn DEF Reads

\* The sign of a mask.
LEMMA ConsumeMaskOK == ASSUME FilterInv, ConsumeMask PROVE FilterInv'
<1>1. /\ pos \in Nat /\ pos = Len(tokens) /\ Peek = tokens[pos] /\ ~ended
      /\ phase = "mask" /\ pos' = pos + 1 /\ phase' = "maskvalue"
      /\ UNCHANGED <<tokens, ended, pred, group, groups>>
  BY ConsumeOK DEF ConsumeMask, Tokens
<1>2. Peek = "&"
  BY DEF ConsumeMask
<1>3. pred \in Partial /\ Partial' = Partial
  BY <1>1 DEF FilterInv, FilterTypeOK, TypeOK, Partial
<1>4. FilterTypeOK'
  BY <1>1, <1>3 DEF FilterInv, FilterTypeOK, TypeOK, Expected
<1>5. PICK g \in 1..pos, f \in 1..pos : Reading(g, f)
  BY <1>1 DEF FilterInv
<1>6. ReadSoFar(f)'
  <2>1. f = pos - 1 /\ tokens[f] \in RegTokens /\ pred.reg = RegIndex[tokens[f]]
    BY <1>1, <1>5 DEF Reading, ReadSoFar
  <2>2. pos \in Nat /\ f = pos - 1 /\ pos' = pos + 1
    BY <1>1, <2>1
  <2>3. f + 1 = pos /\ f = pos' - 2 /\ f < pos'
    BY <2>2
  <2>4. tokens'[f + 1] = "&"
    BY <1>1, <1>2, <2>3
  <2> QED BY <1>1, <2>1, <2>3, <2>4 DEF ReadSoFar
<1> QED BY <1>1, <1>4, <1>5, <1>6, ReadsOn DEF Reads

\* The mask.
LEMMA TakeMaskValueOK == ASSUME FilterInv, TakeMaskValue PROVE FilterInv'
<1>1. /\ pos \in Nat /\ pos = Len(tokens) /\ Peek = tokens[pos] /\ ~ended
      /\ phase = "maskvalue" /\ pos' = pos + 1 /\ phase' = "op"
      /\ UNCHANGED <<tokens, ended, group, groups>>
  BY ConsumeOK DEF TakeMaskValue, Tokens
<1>2. Peek \in ValueTokens /\ pred' = [pred EXCEPT !.mask = {ValueOf[Peek]}]
  BY DEF TakeMaskValue
<1>3. pred \in Partial
  BY <1>1 DEF FilterInv, FilterTypeOK, TypeOK
<1>4. pred' \in Partial' /\ pred'.reg = pred.reg /\ pred'.mask = {ValueOf[Peek]}
  BY <1>1, <1>2, <1>3 DEF Partial, Masks
<1>5. FilterTypeOK'
  BY <1>1, <1>4 DEF FilterInv, FilterTypeOK, TypeOK, Expected
<1>6. PICK g \in 1..pos, f \in 1..pos : Reading(g, f)
  BY <1>1 DEF FilterInv
<1>7. ReadSoFar(f)'
  BY <1>1, <1>2, <1>4, <1>6 DEF Reading, ReadSoFar
<1> QED BY <1>1, <1>5, <1>6, <1>7, ReadsOn DEF Reads

\* The operator, behind the register or behind its mask.
LEMMA TakeOperatorOK == ASSUME FilterInv, TakeOperator PROVE FilterInv'
<1>1. /\ pos \in Nat /\ pos = Len(tokens) /\ Peek = tokens[pos] /\ ~ended
      /\ phase \in {"mask", "op"} /\ pos' = pos + 1 /\ phase' = "value"
      /\ UNCHANGED <<tokens, ended, group, groups>>
  BY ConsumeOK DEF TakeOperator, Tokens
<1>2. Peek \in Operators /\ pred' = [pred EXCEPT !.op = Peek]
  BY DEF TakeOperator
<1>3. pred \in Partial
  BY <1>1 DEF FilterInv, FilterTypeOK, TypeOK
<1>4. /\ pred' \in Partial' /\ pred'.reg = pred.reg /\ pred'.mask = pred.mask
      /\ pred'.op = Peek /\ phase = "mask" => pred.mask = {}
  BY <1>1, <1>2, <1>3 DEF Partial, Masks
<1>5. FilterTypeOK'
  BY <1>1, <1>4 DEF FilterInv, FilterTypeOK, TypeOK, Expected
<1>6. PICK g \in 1..pos, f \in 1..pos : Reading(g, f)
  BY <1>1 DEF FilterInv
<1>7. ReadSoFar(f)'
  BY <1>1, <1>2, <1>4, <1>6 DEF Reading, ReadSoFar
<1> QED BY <1>1, <1>5, <1>6, <1>7, ReadsOn DEF Reads

\* The value ends a predicate, which joins its group.
LEMMA TakeValueOK == ASSUME FilterInv, TakeValue PROVE FilterInv'
<1> DEFINE new == [pred EXCEPT !.value = ValueOf[Peek]]
<1>1. /\ pos \in Nat /\ pos = Len(tokens) /\ Peek = tokens[pos] /\ ~ended
      /\ phase = "value" /\ pos' = pos + 1 /\ phase' = "link"
      /\ UNCHANGED <<tokens, ended>>
  BY ConsumeOK DEF TakeValue, Tokens
<1>2. /\ Peek \in ValueTokens /\ group' = Append(group, new) /\ pred' = Blank
      /\ groups' = groups
  BY DEF TakeValue
<1>3. pred \in Partial /\ group \in Seq(Predicates) /\ FilterTypeOK
  BY <1>1 DEF FilterInv, FilterTypeOK, TypeOK
<1>4. /\ new \in Predicates /\ new.reg = pred.reg /\ new.mask = pred.mask
      /\ new.op = pred.op /\ new.value = ValueOf[Peek]
  <2>1. pred \in [reg : {RegIndex[t] : t \in RegTokens}, mask : Masks, op : Operators, value : {0}]
    BY <1>1, <1>3 DEF Partial
  <2>2. ValueOf[Peek] \in {ValueOf[t] : t \in ValueTokens}
    BY <1>2
  <2> QED BY <2>1, <2>2 DEF Predicates
<1> HIDE DEF new
<1>5. /\ Len(group) \in Nat /\ Len(group') = Len(group) + 1 /\ group' \in Seq(Predicates)
      /\ group' # <<>>
      /\ \A k \in 1..Len(group) : group'[k] = group[k]
      /\ group'[Len(group) + 1] = new
  BY <1>2, <1>3, <1>4, AppendProperties, LenProperties
<1>6. pred' \in Partial'
  BY <1>1, <1>2 DEF Partial, Blank
<1>7. FilterTypeOK'
  BY <1>1, <1>2, <1>3, <1>5, <1>6 DEF FilterTypeOK, TypeOK, Expected
<1>8. PICK g \in 1..pos, f \in 1..pos : Reading(g, f)
  BY <1>1 DEF FilterInv
<1>9. /\ g \in Int /\ f \in Int /\ g <= f /\ f <= pos - 2
      /\ tokens[f] \in RegTokens /\ pred.reg = RegIndex[tokens[f]]
      /\ tokens[pos - 1] \in Operators /\ pred.op = tokens[pos - 1]
      /\ \/ f = pos - 2 /\ pred.mask = {}
         \/ /\ f = pos - 4 /\ tokens[f + 1] = "&"
            /\ tokens[f + 2] \in ValueTokens /\ pred.mask = {ValueOf[tokens[f + 2]]}
  BY <1>1, <1>8 DEF Reading, ReadSoFar, InPlace
<1>10. IsPredicate(tokens, f, pos)
  BY <1>1, <1>2, <1>9 DEF IsPredicate
<1>11. ReadSoFar(f)'
  <2>1. pos' - 1 = pos
    BY <1>1
  <2> QED BY <1>1, <1>10, <2>1 DEF ReadSoFar
<1>12. InPlace(g, f)' /\ PredicatesBefore(f)'
  BY <1>1, <1>8 DEF Reading, InPlace, PredicatesBefore
<1>13. ASSUME NEW regs \in Samples PROVE GroupsMean(g, regs)'
  BY <1>1, <1>2, <1>8 DEF Reading, GroupsMean, Matches
<1>14. ASSUME NEW regs \in Samples PROVE GroupMeans(g, f, regs)'
  <2>1. Satisfies(new, regs) <=> PredicateHolds(tokens, f, pos, regs)
    <3>1. new.mask = IF pos - f = 4 THEN {ValueOf[tokens[f + 2]]} ELSE {}
      <4>1. pos \in Nat /\ f \in Int /\ new.mask = pred.mask
        BY <1>1, <1>4, <1>9
      <4>2. CASE f = pos - 2 /\ pred.mask = {}
        <5>1. pos - f # 4
          BY <4>1, <4>2
        <5> QED BY <4>1, <4>2, <5>1
      <4>3. CASE f = pos - 4 /\ pred.mask = {ValueOf[tokens[f + 2]]}
        <5>1. pos - f = 4
          BY <4>1, <4>3
        <5> QED BY <4>1, <4>3, <5>1
      <4> QED BY <1>9, <4>2, <4>3
    <3>2. /\ new.reg = RegIndex[tokens[f]] /\ new.op = tokens[pos - 1]
          /\ new.value = ValueOf[tokens[pos]]
      BY <1>1, <1>4, <1>9
    <3>3. f \in Int /\ pos \in Int
      BY <1>1, <1>9
    <3> QED BY <1>10, <3>1, <3>2, <3>3, PredicateMeans
  <2>2. (\A k \in 1..Len(group') : Satisfies(group'[k], regs)) <=>
          (\A k \in 1..Len(group) : Satisfies(group[k], regs)) /\ Satisfies(new, regs)
    <3>1. \A k \in 1..Len(group') : k \in 1..Len(group) \/ k = Len(group) + 1
      BY <1>5
    <3>2. Len(group) + 1 \in 1..Len(group') /\ \A k \in 1..Len(group) : k \in 1..Len(group')
      BY <1>5
    <3> QED BY <1>5, <3>1, <3>2
  <2>3. Pieces(tokens, g, pos, AndTokens) =
          Pieces(tokens, g, f - 2, AndTokens) \cup {<<f, pos>>}
    <3>1. \A i \in f..pos : tokens[i] \notin AndTokens
      BY <1>1, <1>9, <1>10, PredicatePlain DEF Connectives
    <3>2. f = g \/ tokens[f - 1] \in AndTokens
      BY <1>8 DEF Reading, InPlace
    <3>3. g \in Int /\ f \in Int /\ pos \in Int /\ g <= f /\ f <= pos + 1
      BY <1>1, <1>9
    <3>4. ASSUME NEW lo \in Int, NEW a \in Int, NEW h \in Int, lo <= a, a <= h + 1,
                 a = lo \/ tokens[a - 1] \in AndTokens,
                 \A i \in a..h : tokens[i] \notin AndTokens
          PROVE  Pieces(tokens, lo, h, AndTokens) =
                   Pieces(tokens, lo, a - 2, AndTokens) \cup {<<a, h>>}
      BY <3>4, LastPiece
    <3> QED BY <3>1, <3>2, <3>3, <3>4
  <2>4. (\A q \in Pieces(tokens, g, pos, AndTokens) : PredicateHolds(tokens, q[1], q[2], regs))
          <=> /\ \A q \in Pieces(tokens, g, f - 2, AndTokens) :
                   PredicateHolds(tokens, q[1], q[2], regs)
              /\ PredicateHolds(tokens, f, pos, regs)
    <3>1. \A q : q \in Pieces(tokens, g, pos, AndTokens) <=>
                   q \in Pieces(tokens, g, f - 2, AndTokens) \/ q = <<f, pos>>
      BY <2>3
    <3>2. <<f, pos>>[1] = f /\ <<f, pos>>[2] = pos
      OBVIOUS
    <3> QED BY <3>1, <3>2
  <2>5. (\A k \in 1..Len(group) : Satisfies(group[k], regs)) <=>
          \A q \in Pieces(tokens, g, f - 2, AndTokens) : PredicateHolds(tokens, q[1], q[2], regs)
    BY <1>1, <1>8 DEF Reading, GroupMeans
  <2>6. pos' - 1 = pos
    BY <1>1
  <2> QED BY <1>1, <2>1, <2>2, <2>4, <2>5, <2>6 DEF GroupMeans
<1>15. Reading(g, f)' /\ g \in 1..pos' /\ f \in 1..pos'
  BY <1>1, <1>11, <1>12, <1>13, <1>14 DEF Reading
<1> QED BY <1>1, <1>7, <1>15 DEF FilterInv

\* The group that has been read is the last one of the text read.
LEMMA GroupEnds ==
  ASSUME FilterTypeOK, phase = "link", NEW g \in 1..pos, NEW f \in 1..pos, Reading(g, f),
         NEW regs \in Samples
  PROVE  Matches(Append(groups, group), regs) <=>
           \E p \in Pieces(tokens, 1, pos - 1, OrTokens) :
             \A q \in Pieces(tokens, p[1], p[2], AndTokens) :
               PredicateHolds(tokens, q[1], q[2], regs)
<1>1. pos \in Nat /\ groups \in Seq(Seq(Predicates) \ {<<>>}) /\ group \in Seq(Predicates)
      /\ group # <<>>
  BY DEF FilterTypeOK, TypeOK
<1> DEFINE new == Append(groups, group)
<1>2. /\ Len(groups) \in Nat /\ DOMAIN groups = 1..Len(groups)
      /\ DOMAIN new = 1..(Len(groups) + 1)
      /\ \A i \in 1..Len(groups) : new[i] = groups[i]
      /\ new[Len(groups) + 1] = group /\ DOMAIN group = 1..Len(group)
  BY <1>1, AppendProperties, LenProperties
<1> HIDE DEF new
<1>3. Matches(new, regs) <=>
        Matches(groups, regs) \/ \A k \in 1..Len(group) : Satisfies(group[k], regs)
  <2>1. \A i : i \in DOMAIN new <=> i \in DOMAIN groups \/ i = Len(groups) + 1
    BY <1>2
  <2> QED BY <1>2, <2>1 DEF Matches
<1>4. g \in Int /\ g <= f /\ f <= pos /\ f \in Int
  BY <1>1 DEF Reading, InPlace
<1>5. \A i \in g..pos - 1 : tokens[i] \notin OrTokens
  <2>1. \A i \in g..f - 1 : tokens[i] \notin OrTokens
    BY DEF Reading, InPlace
  <2>2. \A i \in f..pos - 1 : tokens[i] \notin OrTokens
    BY ReadPlain DEF Reading, Reads, Connectives
  <2>3. \A i \in g..pos - 1 : i \in g..f - 1 \/ i \in f..pos - 1
    BY <1>1, <1>4
  <2> QED BY <2>1, <2>2, <2>3
<1>6. Pieces(tokens, 1, pos - 1, OrTokens) =
        Pieces(tokens, 1, g - 2, OrTokens) \cup {<<g, pos - 1>>}
  <2>1. g = 1 \/ tokens[g - 1] \in OrTokens
    BY DEF Reading, InPlace
  <2>2. pos - 1 \in Int /\ 1 <= g /\ g <= (pos - 1) + 1
    BY <1>1, <1>4
  <2> QED BY <1>4, <1>5, <2>1, <2>2, LastPiece
<1>7. <<g, pos - 1>>[1] = g /\ <<g, pos - 1>>[2] = pos - 1
  OBVIOUS
<1>8. GroupsMean(g, regs) /\ GroupMeans(g, f, regs)
  BY DEF Reading
<1> QED BY <1>3, <1>6, <1>7, <1>8 DEF new, GroupsMean, GroupMeans

\* An "and" ends the predicate but not its group.
LEMMA ConsumeAndOK == ASSUME FilterInv, ConsumeAnd PROVE FilterInv'
<1>1. /\ pos \in Nat /\ pos = Len(tokens) /\ Peek = tokens[pos] /\ ~ended
      /\ phase = "link" /\ pos' = pos + 1 /\ phase' = "reg"
      /\ UNCHANGED <<tokens, ended, pred, group, groups>>
  BY ConsumeOK DEF ConsumeAnd, Tokens, Connectives
<1>2. tokens[pos] \in AndTokens /\ tokens[pos] \notin OrTokens
  BY <1>1, FilterAssumption DEF ConsumeAnd, FilterAssumption
<1>3. FilterTypeOK /\ pred \in Partial /\ Partial' = Partial
  BY <1>1 DEF FilterInv, FilterTypeOK, TypeOK, Partial
<1>4. FilterTypeOK'
  BY <1>1, <1>3 DEF FilterTypeOK, TypeOK, Expected
<1>5. PICK g \in 1..pos, f \in 1..pos : Reading(g, f)
  BY <1>1 DEF FilterInv
<1> PICK next \in Nat : next = pos + 1
  BY <1>1
<1>6. /\ next \in 1..pos' /\ g \in 1..pos' /\ next - 2 = pos - 1 /\ next - 1 = pos
      /\ g \in Int /\ f \in Int /\ 1 <= g /\ g <= f /\ g <= next
  BY <1>1, <1>5 DEF Reading, InPlace
<1>7. ReadSoFar(next)'
  BY <1>1 DEF ReadSoFar
<1>8. InPlace(g, next)'
  <2>1. ASSUME NEW i \in g..next - 1 PROVE tokens[i] \notin OrTokens
    <3>1. i \in g..f - 1 \/ i \in f..pos - 1 \/ i = pos
      BY <1>1, <1>6
    <3>2. \A j \in f..pos - 1 : tokens[j] \notin OrTokens
      BY <1>1, <1>3, <1>5, ReadPlain DEF Reading, Reads, Connectives
    <3> QED BY <1>2, <1>5, <3>1, <3>2 DEF Reading, InPlace
  <2>2. next <= pos'
    BY <1>1, <1>6
  <2> QED BY <1>1, <1>2, <1>5, <1>6, <2>1, <2>2 DEF Reading, InPlace
<1>9. PredicatesBefore(next)'
  <2>1. g \in 1..f
    BY <1>6
  <2> QED BY <1>1, <1>3, <1>5, <1>6, <2>1, PiecesRead DEF PredicatesBefore, Reads
<1>10. ASSUME NEW regs \in Samples PROVE GroupsMean(g, regs)' /\ GroupMeans(g, next, regs)'
  BY <1>1, <1>5, <1>6 DEF Reading, GroupsMean, GroupMeans, Matches
<1>11. Reading(g, next)'
  BY <1>7, <1>8, <1>9, <1>10 DEF Reading
<1> QED BY <1>1, <1>4, <1>6, <1>11 DEF FilterInv

\* An "or" ends the group too.
LEMMA ConsumeOrOK == ASSUME FilterInv, ConsumeOr PROVE FilterInv'
<1>1. /\ pos \in Nat /\ pos = Len(tokens) /\ Peek = tokens[pos] /\ ~ended
      /\ phase = "link" /\ pos' = pos + 1 /\ phase' = "reg"
      /\ UNCHANGED <<tokens, ended>>
  BY ConsumeOK DEF ConsumeOr, Tokens, Connectives
<1>2. /\ tokens[pos] \in OrTokens
      /\ groups' = Append(groups, group) /\ group' = <<>> /\ pred' = pred
  BY <1>1 DEF ConsumeOr
<1>3. /\ FilterTypeOK /\ pred \in Partial /\ Partial' = Partial
      /\ groups \in Seq(Seq(Predicates) \ {<<>>}) /\ group \in Seq(Predicates) \ {<<>>}
  BY <1>1, <1>2 DEF FilterInv, FilterTypeOK, TypeOK, Partial
<1>4. FilterTypeOK'
  <2>1. groups' \in Seq(Seq(Predicates) \ {<<>>}) /\ group' \in Seq(Predicates)
    BY <1>2, <1>3, AppendProperties
  <2> QED BY <1>1, <1>2, <1>3, <2>1 DEF FilterTypeOK, TypeOK, Expected
<1>5. PICK g \in 1..pos, f \in 1..pos : Reading(g, f)
  BY <1>1 DEF FilterInv
<1> PICK next \in Nat : next = pos + 1
  BY <1>1
<1>6. /\ next \in 1..pos' /\ next - 2 = pos - 1 /\ next - 1 = pos /\ next \in Int
      /\ g \in Int /\ f \in Int /\ g \in 1..f
  BY <1>1, <1>5 DEF Reading, InPlace
<1>7. ReadSoFar(next)'
  BY <1>1 DEF ReadSoFar
<1>8. InPlace(next, next)'
  <2>1. next..next - 1 = {} /\ 1 <= next /\ next <= pos'
    BY <1>1, <1>6
  <2> QED BY <1>1, <1>2, <1>6, <2>1 DEF InPlace
<1>9. PredicatesBefore(next)'
  BY <1>1, <1>3, <1>5, <1>6, PiecesRead DEF PredicatesBefore, Reads
<1>10. ASSUME NEW regs \in Samples PROVE GroupsMean(next, regs)' /\ GroupMeans(next, next, regs)'
  <2>1. GroupsMean(next, regs)'
    BY <1>1, <1>2, <1>3, <1>5, <1>6, GroupEnds DEF GroupsMean
  <2>2. Pieces(tokens, next, next - 2, AndTokens) = {}
    BY <1>6, NoPiece
  <2>3. Len(group') = 0
    BY <1>2
  <2> QED BY <1>1, <2>1, <2>2, <2>3 DEF GroupMeans
<1>11. Reading(next, next)'
  BY <1>7, <1>8, <1>9, <1>10 DEF Reading
<1> QED BY <1>1, <1>4, <1>6, <1>11 DEF FilterInv

\* At the end of the input the text read is the filter.
LEMMA FinishOK == ASSUME FilterInv, Finish PROVE FilterInv'
<1>1. /\ phase = "link" /\ phase' = "ok" /\ Peek = None
      /\ groups' = Append(groups, group) /\ group' = <<>>
      /\ UNCHANGED <<tokens, ended, pos, pred>>
  BY DEF Finish
<1>2. /\ FilterTypeOK /\ pred \in Partial /\ Partial' = Partial /\ pos \in Nat
      /\ groups \in Seq(Seq(Predicates) \ {<<>>}) /\ group \in Seq(Predicates) \ {<<>>}
  <2>1. FilterTypeOK
    BY DEF FilterInv
  <2>2. pred \in Partial /\ Partial' = Partial
    BY <1>1, <2>1 DEF FilterTypeOK, TypeOK, Partial
  <2> QED BY <1>1, <2>1, <2>2 DEF FilterTypeOK, TypeOK
<1>3. Len(tokens) = pos - 1
  BY <1>1, <1>2, FilterAssumption DEF FilterTypeOK, TypeOK, Peek, FilterAssumption
<1>4. FilterTypeOK'
  <2>1. groups' \in Seq(Seq(Predicates) \ {<<>>}) /\ group' \in Seq(Predicates)
    BY <1>1, <1>2, AppendProperties
  <2> QED BY <1>1, <1>2, <2>1 DEF FilterTypeOK, TypeOK
<1>5. PICK g \in 1..pos, f \in 1..pos : Reading(g, f)
  BY <1>1 DEF FilterInv
<1>6. AcceptsFilters'
  <2>1. g \in 1..f
    BY <1>2, <1>5 DEF Reading, InPlace
  <2> QED BY <1>1, <1>2, <1>3, <1>5, <2>1, PiecesRead DEF AcceptsFilters, IsFilter, Reads
<1>7. MatchesItsMeaning'
  <2>1. ASSUME NEW regs \in Samples PROVE Matches(groups', regs) <=> Meaning(tokens, regs)
    BY <1>1, <1>2, <1>3, <1>5, GroupEnds DEF Meaning
  <2>2. ASSUME NEW regs \in Samples PROVE Matches(groups', regs) = Meaning(tokens', regs)
    BY <1>1, <2>1 DEF Matches, Meaning
  <2> QED BY <2>2 DEF MatchesItsMeaning
<1> QED BY <1>1, <1>4, <1>6, <1>7 DEF FilterInv

\* Nothing that goes on with a token that the parser does not expect, or
\* ends where it expects one, is a filter.
LEMMA Refused ==
  ASSUME FilterTypeOK, Reads, NEW g \in 1..pos, NEW f \in 1..pos, Reading(g, f),
         NEW s, Len(s) \in Nat, pos <= Len(s) + 1, \A i \in 1..pos - 1 : s[i] = tokens[i],
         pos <= Len(s) => s[pos] \notin Expected[phase],
         phase = "link" => pos <= Len(s)
  PROVE  ~IsFilter(s)
<1> SUFFICES ASSUME IsFilter(s) PROVE FALSE
  OBVIOUS
<1> DEFINE n == Len(s)
<1>1. pos \in Nat /\ f \in Nat /\ 1 <= f /\ f <= pos
  BY DEF FilterTypeOK, TypeOK
<1>2. PICK h \in Int : /\ pos <= h + 1 /\ h <= n
                       /\ h = n \/ s[h + 1] \in Connectives
                       /\ \A i \in pos..h : s[i] \notin Connectives
  BY <1>1, NextCut
<1>3. IsPiece(s, 1, n, Connectives, f, h)
  <2>1. f = 1 \/ s[f - 1] \in Connectives
    <3>1. f = 1 \/ tokens[f - 1] \in Connectives
      BY DEF Reading, InPlace, Connectives
    <3>2. f # 1 => f - 1 \in 1..pos - 1
      BY <1>1
    <3> QED BY <3>1, <3>2
  <2>2. ASSUME NEW i \in f..h PROVE s[i] \notin Connectives
    <3>1. i \in f..pos - 1 \/ i \in pos..h
      BY <1>1, <1>2
    <3>2. ASSUME i \in f..pos - 1 PROVE s[i] \notin Connectives
      <4>1. i \in 1..pos - 1
        BY <1>1, <3>2
      <4> QED BY <3>2, <4>1, ReadPlain DEF Reading
    <3> QED BY <1>2, <3>1, <3>2
  <2>3. f <= h + 1 /\ f \in Int
    BY <1>1, <1>2
  <2> QED BY <1>1, <1>2, <2>1, <2>2, <2>3 DEF IsPiece
<1>4. <<f, h>>[1] = f /\ <<f, h>>[2] = h /\ 1 <= n + 2 /\ n \in Int
  OBVIOUS
<1>5. IsPredicate(s, f, h)
  <2>1. <<f, h>> \in Pieces(s, 1, n, Connectives)
    BY <1>3, <1>4, PieceMembers
  <2> QED BY <1>4, <2>1 DEF IsFilter
<1>6. /\ h = f + 2 \/ h = f + 4
      /\ s[f] \in RegTokens /\ s[h - 1] \in Operators /\ s[h] \in ValueTokens
      /\ h = f + 4 => s[f + 1] = "&" /\ s[f + 2] \in ValueTokens
  BY <1>1, <1>5 DEF IsPredicate
<1>7. s[f + 1] = "&" <=> h = f + 4
  <2>1. h = f + 2 => h - 1 = f + 1
    BY <1>1
  <2>2. f + 2 # f + 4
    BY <1>1
  <2> QED BY <1>6, <2>1, <2>2, FilterAssumption DEF FilterAssumption
<1>8. pos <= h => s[pos] \notin Expected[phase]
  BY <1>1, <1>2
<1>9. ReadSoFar(f)
  BY DEF Reading
<1> HIDE DEF n
<1>10. CASE phase = "reg"
  <2>1. f = pos /\ pos <= h
    BY <1>1, <1>6, <1>9, <1>10 DEF ReadSoFar
  <2> QED BY <1>6, <1>8, <1>10, <2>1 DEF Expected
<1>11. CASE phase = "mask"
  <2>1. f + 1 = pos /\ pos <= h /\ (h = f + 2 => h - 1 = pos)
    BY <1>1, <1>6, <1>9, <1>11 DEF ReadSoFar
  <2> QED BY <1>6, <1>8, <1>11, <2>1 DEF Expected
<1>12. CASE phase = "maskvalue"
  <2>1. f + 2 = pos /\ f + 1 \in 1..pos - 1 /\ tokens[f + 1] = "&"
    BY <1>1, <1>9, <1>12 DEF ReadSoFar
  <2>2. h = f + 4
    BY <1>7, <2>1
  <2>3. pos <= h
    BY <1>1, <2>1, <2>2
  <2> QED BY <1>6, <1>8, <1>12, <2>1, <2>2, <2>3 DEF Expected
<1>13. CASE phase = "op"
  <2>1. f + 3 = pos /\ f + 1 \in 1..pos - 1 /\ tokens[f + 1] = "&"
    BY <1>1, <1>9, <1>13 DEF ReadSoFar
  <2>2. h = f + 4
    BY <1>7, <2>1
  <2>3. h - 1 = pos /\ pos <= h
    BY <1>1, <2>1, <2>2
  <2> QED BY <1>6, <1>8, <1>13, <2>3 DEF Expected
<1>14. CASE phase = "value"
  <2>1. h = pos
    <3>1. CASE f = pos - 2
      <4>1. f + 1 = pos - 1 /\ f + 1 \in 1..pos - 1 /\ f + 2 = pos
        BY <1>1, <3>1
      <4>2. tokens[f + 1] \in Operators
        BY <1>9, <1>14, <4>1 DEF ReadSoFar
      <4>3. s[f + 1] # "&"
        BY <4>1, <4>2, FilterAssumption DEF FilterAssumption
      <4> QED BY <1>6, <1>7, <4>1, <4>3
    <3>2. CASE f # pos - 2
      <4>1. f = pos - 4 /\ tokens[f + 1] = "&"
        BY <1>9, <1>14, <3>2 DEF ReadSoFar
      <4>2. f + 1 \in 1..pos - 1 /\ f + 4 = pos
        BY <1>1, <4>1
      <4> QED BY <1>7, <4>1, <4>2
    <3> QED BY <3>1, <3>2
  <2>2. pos <= h
    BY <1>1, <2>1
  <2> QED BY <1>6, <1>8, <1>14, <2>1, <2>2 DEF Expected
<1>15. CASE phase = "link"
  <2>1. h # pos - 1
    <3>1. s[pos] \notin Connectives /\ pos <= n
      BY <1>15 DEF Expected, n
    <3>2. h = pos - 1 => h + 1 = pos /\ h # n
      BY <1>1, <1>4, <3>1 DEF n
    <3> QED BY <1>2, <3>1, <3>2
  <2>2. IsPredicate(tokens, f, pos - 1)
    BY <1>9, <1>15 DEF ReadSoFar
  <2>3. IsPredicate(s, f, pos - 1)
    <3>1. \A i \in f..pos - 1 : tokens[i] = s[i]
      BY <1>1
    <3> QED BY <1>1, <2>2, <3>1, PredicateAgrees
  <2>4. pos - 1 = f + 2 \/ pos - 1 = f + 4
    BY <1>1, <2>3 DEF IsPredicate
  <2>5. pos - 1 = f + 2 /\ h = f + 4
    BY <1>1, <1>2, <1>6, <2>1, <2>4
  <2>6. (pos - 1) - 1 = f + 1
    BY <1>1, <2>5
  <2>7. s[f + 1] \in Operators
    BY <2>3, <2>6 DEF IsPredicate
  <2> QED BY <1>7, <2>5, <2>7, FilterAssumption DEF FilterAssumption
<1> QED BY <1>10, <1>11, <1>12, <1>13, <1>14, <1>15 DEF Reads

\* The parser fails only where no filter can go on.
LEMMA FailOK == ASSUME FilterInv, Fail PROVE FilterInv'
<1>1. /\ Reads /\ phase \in DOMAIN Expected /\ Seen /\ Peek \notin Expected[phase]
      /\ phase' = "error" /\ UNCHANGED <<tokens, ended, pos, pred, group, groups>>
  BY DEF Fail, Expected, Reads
<1>2. /\ FilterTypeOK /\ tokens \in Seq(Tokens) /\ Len(tokens) \in Nat /\ pos \in Nat
      /\ pos <= Len(tokens) + 1
  BY DEF FilterInv, FilterTypeOK, TypeOK
<1>3. FilterTypeOK'
  BY <1>1, <1>2 DEF FilterTypeOK, TypeOK
<1>4. PICK g \in 1..pos, f \in 1..pos : Reading(g, f)
  BY <1>1 DEF FilterInv, Reads
<1>5. CASE ended
  <2>1. Peek = None /\ Len(tokens) = pos - 1 /\ ~(pos <= Len(tokens))
    BY <1>2, <1>5 DEF FilterTypeOK, Peek
  <2>2. phase # "link"
    BY <1>1, <2>1 DEF Expected
  <2>3. ~IsFilter(tokens)
    BY <1>1, <1>2, <1>4, <2>1, <2>2, Refused
  <2> QED BY <1>1, <1>3, <1>5, <2>3 DEF FilterInv, AcceptsFilters, MatchesItsMeaning
<1>6. CASE ~ended
  <2>1. pos <= Len(tokens) /\ Peek = tokens[pos]
    BY <1>1, <1>6 DEF Seen, Peek
  <2>2. ASSUME NEW rest \in Completions PROVE ~IsFilter(tokens \o rest)
    <3> DEFINE s == tokens \o rest
    <3>1. rest \in Seq(Tokens)
      BY FilterAssumption DEF FilterAssumption
    <3>2. /\ Len(rest) \in Nat /\ Len(s) = Len(tokens) + Len(rest)
          /\ \A i \in 1..Len(tokens) : s[i] = tokens[i]
      BY <1>2, <3>1, ConcatProperties, LenProperties
    <3> HIDE DEF s
    <3>3. /\ Len(s) \in Nat /\ pos <= Len(s) /\ pos <= Len(s) + 1
          /\ pos \in 1..Len(tokens) /\ \A i \in 1..pos - 1 : i \in 1..Len(tokens)
      BY <1>2, <2>1, <3>2 DEF FilterTypeOK, TypeOK
    <3>4. s[pos] \notin Expected[phase] /\ \A i \in 1..pos - 1 : s[i] = tokens[i]
      BY <1>1, <2>1, <3>2, <3>3
    <3>5. ~IsFilter(s)
      BY <1>1, <1>2, <1>4, <3>3, <3>4, Refused
    <3> QED BY <3>5 DEF s
  <2> QED BY <1>1, <1>3, <1>6, <2>2 DEF FilterInv, AcceptsFilters, MatchesItsMeaning
<1> QED BY <1>5, <1>6

\* A stuttering step changes nothing.
LEMMA FilterStutterOK == ASSUME FilterInv, UNCHANGED vars PROVE FilterInv'
<1>1. FilterTypeOK'
  BY DEF FilterInv, FilterTypeOK, TypeOK, Partial, vars
<1>2. CASE phase \in {"ok", "error"}
  BY <1>1, <1>2
  DEF FilterInv, AcceptsFilters, MatchesItsMeaning, IsFilter, Meaning, Matches, vars
<1>3. CASE phase \notin {"ok", "error"}
  <2>1. PICK g \in 1..pos, f \in 1..pos : Reading(g, f)
    BY <1>3 DEF FilterInv
  <2>2. Reading(g, f)'
    BY <2>1
    DEF Reading, ReadSoFar, InPlace, PredicatesBefore, GroupsMean, GroupMeans, Matches, vars
  <2> QED BY <1>1, <1>3, <2>2 DEF FilterInv, vars
<1> QED BY <1>2, <1>3

\* Every step of the parser keeps the invariant.
LEMMA FilterStepOK == FilterInv /\ [Next]_vars => FilterInv'
<1> SUFFICES ASSUME FilterInv, [Next]_vars PROVE FilterInv'
  OBVIOUS
<1>1. ASSUME NEW x \in Tokens, Arrive(x) PROVE FilterInv'
  BY <1>1, ArriveOK
<1>2. CASE EndOfInput
  BY <1>2, EndOfInputOK
<1>3. CASE TakeReg
  BY <1>3, TakeRegOK
<1>4. CASE ConsumeMask
  BY <1>4, ConsumeMaskOK
<1>5. CASE TakeMaskValue
  BY <1>5, TakeMaskValueOK
<1>6. CASE TakeOperator
  BY <1>6, TakeOperatorOK
<1>7. CASE TakeValue
  BY <1>7, TakeValueOK
<1>8. CASE ConsumeAnd
  BY <1>8, ConsumeAndOK
<1>9. CASE ConsumeOr
  BY <1>9, ConsumeOrOK
<1>10. CASE Finish
  BY <1>10, FinishOK
<1>11. CASE Fail
  BY <1>11, FailOK
<1>12. CASE UNCHANGED vars
  BY <1>12, FilterStutterOK
<1> QED
  BY <1>1, <1>2, <1>3, <1>4, <1>5, <1>6, <1>7, <1>8, <1>9, <1>10, <1>11, <1>12 DEF Next

\* The inductive invariant of the parser.
THEOREM FilterInvariant == Spec => []FilterInv
<1>1. FilterInv /\ [Next]_vars => FilterInv'
  BY FilterStepOK
<1> QED BY FilterInitOK, <1>1, PTL DEF Spec

\* TypeOK: a predicate is pushed complete, and no group that parse_filter
\* keeps is empty.
THEOREM FilterTypeCorrect == Spec => []TypeOK
<1>1. FilterInv => TypeOK
  BY DEF FilterInv, FilterTypeOK
<1> QED BY FilterInvariant, <1>1, PTL

\* AcceptsFilters: parse accepts filters only, and refuses only what no
\* filter begins with, whatever the register table and the bound.
THEOREM ExactlyFiltersAccepted == Spec => []AcceptsFilters
<1>1. FilterInv => AcceptsFilters
  BY DEF FilterInv, AcceptsFilters
<1> QED BY FilterInvariant, <1>1, PTL

\* MatchesItsMeaning: the groups that parse_filter has built select the
\* samples that the text means when it is cut at its "or"s and "and"s.
THEOREM FilterMeansItsText == Spec => []MatchesItsMeaning
<1>1. FilterInv => MatchesItsMeaning
  BY DEF FilterInv, MatchesItsMeaning
<1> QED BY FilterInvariant, <1>1, PTL
-----------------------------------------------------------------------------
(***************************************************************************)
(* The reader of the perf ring.                                            *)
(***************************************************************************)

\* A remainder is what is left beside a multiple.
LEMMA Remainder ==
  ASSUME NEW D \in Nat \ {0}, NEW q \in Int, NEW d \in 0..D - 1
  PROVE  (D * q + d) % D = d
<1> DEFINE n == D * q + d
           r == n % D
           k == n \div D
<1>1. n \in Int /\ k \in Int /\ r \in 0..D - 1 /\ n = D * k + r
  OBVIOUS
<1> HIDE DEF r, k
<1>2. D * (q - k) = r - d
  BY <1>1
<1>3. q - k = 0
  <2>1. CASE q - k >= 1
    <3>1. D * (q - k) >= D
      BY <1>1, <2>1
    <3> QED BY <1>1, <1>2, <3>1
  <2>2. CASE q - k <= -1
    <3>1. D * (q - k) <= -D
      BY <1>1, <2>2
    <3> QED BY <1>1, <1>2, <3>1
  <2> QED BY <1>1, <2>1, <2>2
<1>4. r = d
  BY <1>1, <1>2, <1>3
<1> QED BY <1>4 DEF r

\* The distance of two positions around the ring.
LEMMA Around ==
  ASSUME NEW D \in Nat \ {0}, NEW p \in Nat, NEW h \in Nat
  PROVE  /\ p >= h /\ p < h + D => ((p % D) - h) % D = p - h
         /\ p < h /\ h <= p + D => ((p % D) - h) % D = p - h + D
<1> DEFINE r == p % D
           k == p \div D
<1>1. r \in 0..D - 1 /\ k \in Int /\ p = D * k + r
  OBVIOUS
<1> HIDE DEF r, k
<1>2. ASSUME p >= h, p < h + D PROVE (r - h) % D = p - h
  <2>1. p - h \in 0..D - 1 /\ -k \in Int
    BY <1>1, <1>2
  <2>2. r - h = D * (-k) + (p - h)
    BY <1>1
  <2> QED BY <2>1, <2>2, Remainder
<1>3. ASSUME p < h, h <= p + D PROVE (r - h) % D = p - h + D
  <2>1. p - h + D \in 0..D - 1 /\ -k - 1 \in Int
    BY <1>1, <1>3
  <2>2. r - h = D * (-k - 1) + (p - h + D)
    BY <1>1
  <2> QED BY <2>1, <2>2, Remainder
<1> QED BY <1>2, <1>3 DEF r

\* What the kernel writes, read back at each position.
LEMMA RingWritten ==
  ASSUME NEW words \in Seq(Nat), head \in Nat, NEW from \in Nat, from <= head,
         head + Len(words) - from < DataSize, Write(words), NEW p \in Nat
  PROVE  /\ from <= p /\ p < head => ring'[p % DataSize] = ring[p % DataSize]
         /\ head <= p /\ p < head + Len(words) =>
              ring'[p % DataSize] = words[p - head + 1]
<1>1. DataSize \in Nat \ {0}
  BY RingAssumption DEF RingAssumption
<1> DEFINE i == p % DataSize
           k == (i - head) % DataSize
<1>2. i \in 0..DataSize - 1 /\ Len(words) \in Nat
  BY <1>1
<1>3. ring'[i] = IF k < Len(words) THEN words[k + 1] ELSE ring[i]
  BY <1>2 DEF Write
<1> HIDE DEF i
<1>4. ASSUME from <= p, p < head PROVE ~(k < Len(words))
  <2>1. p < head /\ head <= p + DataSize
    BY <1>1, <1>2, <1>4
  <2>2. k = p - head + DataSize
    BY <1>1, <2>1, Around DEF i
  <2> HIDE DEF k
  <2> QED BY <1>1, <1>2, <1>4, <2>2
<1>5. ASSUME head <= p, p < head + Len(words) PROVE k = p - head
  <2>1. p >= head /\ p < head + DataSize
    BY <1>1, <1>2, <1>5
  <2> QED BY <1>1, <2>1, Around DEF i
<1> HIDE DEF k
<1>6. ASSUME head <= p, p < head + Len(words) PROVE k < Len(words) /\ k + 1 = p - head + 1
  BY <1>2, <1>5, <1>6
<1> QED BY <1>3, <1>4, <1>6 DEF i

\* What the kernel writes.
RecordKinds ==
  {Sample(id, chain, abi) : id \in Nat, chain \in Nat, abi \in {0, 1}}
    \cup {Lost(n) : n \in Nat} \cup {Throttle(n) : n \in Nat}

IsRecord(w) == w \in RecordKinds

\* The words of a sample.
LEMMA SampleWords ==
  ASSUME backtrace \in BOOLEAN, NEW id \in Nat, NEW chain \in Nat, NEW abi \in {0, 1}
  PROVE  LET w == Sample(id, chain, abi)
             a == IF backtrace THEN 4 + chain ELSE 3
         IN /\ w \in Seq(Nat)
            /\ Len(w) = a + (IF abi = 0 THEN 0 ELSE Regs)
            /\ w[1] = HeaderWord(SAMPLE, Len(w))
            /\ w[2] = id /\ w[a] = abi
            /\ backtrace => w[3] = chain
<1> DEFINE calls == IF backtrace THEN <<chain>> \o Words(chain, id) ELSE <<>>
           user == <<abi>> \o (IF abi = 0 THEN <<>> ELSE Words(Regs, id))
           rest == calls \o user
           body == <<id>> \o rest
           c == IF backtrace THEN 1 + chain ELSE 0
           r == IF abi = 0 THEN 0 ELSE Regs
<1>1. ASSUME NEW n \in Nat
      PROVE  /\ Words(n, id) \in Seq(Nat) /\ Len(Words(n, id)) = n
             /\ \A i \in 1..n : Words(n, id)[i] = id
  BY DEF Words
<1>2. Regs \in Nat /\ c \in Nat /\ r \in Nat
  BY RingAssumption DEF RingAssumption
<1>3. /\ calls \in Seq(Nat) /\ Len(calls) = c
      /\ backtrace => calls[1] = chain /\ \A i \in 1..chain : calls[1 + i] = id
  <2>1. CASE backtrace
    <3>1. <<chain>> \in Seq(Nat) /\ Len(<<chain>>) = 1 /\ <<chain>>[1] = chain
      OBVIOUS
    <3>2. Words(chain, id) \in Seq(Nat) /\ Len(Words(chain, id)) = chain
      BY <1>1
    <3>3. /\ calls \in Seq(Nat) /\ Len(calls) = 1 + chain
          /\ \A i \in 1..1 + chain :
               calls[i] = IF i <= 1 THEN <<chain>>[i] ELSE Words(chain, id)[i - 1]
      BY <2>1, <3>1, <3>2, ConcatProperties
    <3>4. calls[1] = chain
      BY <3>1, <3>3
    <3>5. ASSUME NEW i \in 1..chain PROVE calls[1 + i] = id
      <4>1. 1 + i \in 1..1 + chain /\ ~(1 + i <= 1) /\ (1 + i) - 1 = i
        OBVIOUS
      <4> QED BY <1>1, <3>3, <4>1
    <3> QED BY <2>1, <3>3, <3>4, <3>5
  <2>2. CASE ~backtrace
    BY <2>2
  <2> QED BY <2>1, <2>2
<1>4. /\ user \in Seq(Nat) /\ Len(user) = 1 + r /\ user[1] = abi
      /\ abi # 0 => \A i \in 1..Regs : user[1 + i] = id
  <2>1. CASE abi # 0
    <3>1. <<abi>> \in Seq(Nat) /\ Len(<<abi>>) = 1 /\ <<abi>>[1] = abi
      OBVIOUS
    <3>2. Words(Regs, id) \in Seq(Nat) /\ Len(Words(Regs, id)) = Regs
      BY <1>1, <1>2
    <3>3. /\ user \in Seq(Nat) /\ Len(user) = 1 + Regs
          /\ \A i \in 1..1 + Regs :
               user[i] = IF i <= 1 THEN <<abi>>[i] ELSE Words(Regs, id)[i - 1]
      BY <2>1, <3>1, <3>2, ConcatProperties
    <3>4. user[1] = abi
      BY <1>2, <3>1, <3>3
    <3>5. ASSUME NEW i \in 1..Regs PROVE user[1 + i] = id
      <4>1. 1 + i \in 1..1 + Regs /\ ~(1 + i <= 1) /\ (1 + i) - 1 = i
        BY <1>2
      <4> QED BY <1>1, <1>2, <3>3, <4>1
    <3> QED BY <2>1, <3>3, <3>4, <3>5
  <2>2. CASE abi = 0
    <3>1. user = <<abi>>
      BY <2>2
    <3> QED BY <2>2, <3>1
  <2> QED BY <2>1, <2>2
<1> HIDE DEF calls, user
<1>5. /\ rest \in Seq(Nat) /\ Len(rest) = c + 1 + r
      /\ \A i \in 1..c + 1 + r : rest[i] = IF i <= c THEN calls[i] ELSE user[i - c]
  <2>1. /\ rest \in Seq(Nat) /\ Len(rest) = Len(calls) + Len(user)
        /\ \A i \in 1..Len(calls) + Len(user) :
             rest[i] = IF i <= Len(calls) THEN calls[i] ELSE user[i - Len(calls)]
    BY <1>3, <1>4, ConcatProperties
  <2>2. Len(calls) = c /\ Len(calls) + Len(user) = c + 1 + r
    BY <1>2, <1>3, <1>4
  <2> QED BY <2>1, <2>2
<1> HIDE DEF rest
<1>6. /\ body \in Seq(Nat) /\ Len(body) = c + 2 + r /\ body[1] = id
      /\ \A i \in 1..c + 1 + r : body[1 + i] = rest[i]
  <2>1. <<id>> \in Seq(Nat) /\ Len(<<id>>) = 1 /\ <<id>>[1] = id
    OBVIOUS
  <2> DEFINE head1 == <<id>>
  <2> HIDE DEF head1
  <2>2. /\ body \in Seq(Nat) /\ Len(body) = 1 + (c + 1 + r)
        /\ \A i \in 1..1 + (c + 1 + r) : body[i] = IF i <= 1 THEN head1[i] ELSE rest[i - 1]
    <3>1. body = head1 \o rest /\ head1 \in Seq(Nat) /\ Len(head1) = 1
      BY <2>1 DEF head1
    <3>2. /\ body \in Seq(Nat) /\ Len(body) = Len(head1) + Len(rest)
          /\ \A i \in 1..Len(head1) + Len(rest) :
               body[i] = IF i <= Len(head1) THEN head1[i] ELSE rest[i - Len(head1)]
      BY <1>5, <3>1, ConcatProperties
    <3> QED BY <1>5, <3>1, <3>2
  <2>3. ASSUME NEW i \in 1..c + 1 + r PROVE body[1 + i] = rest[i]
    <3>1. 1 + i \in 1..1 + (c + 1 + r) /\ ~(1 + i <= 1) /\ (1 + i) - 1 = i
      BY <1>2
    <3> QED BY <2>2, <3>1
  <2> QED BY <1>2, <2>1, <2>2, <2>3 DEF head1
<1> HIDE DEF body
<1> DEFINE first == <<HeaderWord(SAMPLE, 1 + Len(body))>>
           w == first \o body
<1>7. w = Sample(id, chain, abi)
  <2>1. <<id>> \in Seq(Nat)
    OBVIOUS
  <2>2. <<id>> \o calls \o user = body
    BY <1>3, <1>4, <2>1, ConcatAssociative DEF body, rest
  <2>3. Sample(id, chain, abi) = <<HeaderWord(SAMPLE, 1 + Len(<<id>> \o calls \o user))>>
                                   \o (<<id>> \o calls \o user)
    BY Zenon DEF Sample, calls, user
  <2> QED BY <2>2, <2>3
<1>8. HeaderWord(SAMPLE, 1 + Len(body)) \in Nat
  BY <1>2, <1>6 DEF HeaderWord, SAMPLE
<1>9. /\ w \in Seq(Nat) /\ Len(w) = c + 3 + r
      /\ w[1] = HeaderWord(SAMPLE, 1 + Len(body))
      /\ \A i \in 1..c + 2 + r : w[1 + i] = body[i]
  <2>1. first \in Seq(Nat) /\ Len(first) = 1 /\ first[1] = HeaderWord(SAMPLE, 1 + Len(body))
    BY <1>8
  <2> HIDE DEF first
  <2>2. /\ w \in Seq(Nat) /\ Len(w) = 1 + (c + 2 + r)
        /\ \A i \in 1..1 + (c + 2 + r) : w[i] = IF i <= 1 THEN first[i] ELSE body[i - 1]
    <3>1. /\ w \in Seq(Nat) /\ Len(w) = Len(first) + Len(body)
          /\ \A i \in 1..Len(first) + Len(body) :
               w[i] = IF i <= Len(first) THEN first[i] ELSE body[i - Len(first)]
      BY <1>6, <2>1, ConcatProperties
    <3> QED BY <1>6, <2>1, <3>1
  <2> HIDE DEF w
  <2>3. ASSUME NEW i \in 1..c + 2 + r PROVE w[1 + i] = body[i]
    <3>1. 1 + i \in 1..1 + (c + 2 + r) /\ ~(1 + i <= 1) /\ (1 + i) - 1 = i
      BY <1>2
    <3> QED BY <2>2, <3>1
  <2>4. 1 \in 1..1 + (c + 2 + r) /\ 1 + (c + 2 + r) = c + 3 + r
    BY <1>2
  <2>5. w[1] = HeaderWord(SAMPLE, 1 + Len(body))
    BY <1>2, <2>1, <2>2, <2>4
  <2> QED BY <2>2, <2>3, <2>4, <2>5
<1> HIDE DEF w
<1>10. ASSUME NEW i \in 1..c + 1 + r PROVE w[2 + i] = IF i <= c THEN calls[i] ELSE user[i - c]
  <2>1. 1 + i \in 1..c + 2 + r /\ 1 + (1 + i) = 2 + i
    BY <1>2
  <2> QED BY <1>5, <1>6, <1>9, <2>1
<1> DEFINE a == IF backtrace THEN 4 + chain ELSE 3
<1>11. a = 2 + (c + 1) /\ Len(w) = a + r /\ 1 + Len(body) = Len(w)
  BY <1>2, <1>6, <1>9
<1>12. w[2] = id
  BY <1>2, <1>6, <1>9
<1>13. w[a] = abi
  <2>1. c + 1 \in 1..c + 1 + r /\ ~(c + 1 <= c) /\ (c + 1) - c = 1
    BY <1>2
  <2> QED BY <1>4, <1>10, <1>11, <2>1
<1>14. ASSUME backtrace PROVE w[3] = chain
  <2>1. c = 1 + chain
    BY <1>14
  <2>2. 1 \in 1..c + 1 + r /\ 1 <= c /\ 2 + 1 = 3
    BY <1>2, <2>1
  <2>3. ASSUME NEW i \in 1..chain PROVE w[3 + i] = id
    <3>1. 1 + i \in 1..c + 1 + r /\ 1 + i <= c /\ 2 + (1 + i) = 3 + i
      BY <1>2, <2>1
    <3> QED BY <1>3, <1>10, <1>14, <3>1
  <2> QED BY <1>3, <1>10, <1>14, <2>2, <2>3
<1> QED BY <1>7, <1>9, <1>11, <1>12, <1>13, <1>14

\* What the reader can tell from the header of a record.
LEMMA RecordWords ==
  ASSUME backtrace \in BOOLEAN, NEW w, IsRecord(w)
  PROVE  /\ w \in Seq(Nat) /\ Len(w) \in Nat \ {0} /\ HeaderSize(w[1]) = Len(w)
         /\ HeaderType(w[1]) = SAMPLE =>
              \E id \in Nat, chain \in Nat, abi \in {0, 1} : w = Sample(id, chain, abi)
<1>1. ASSUME NEW type \in {LOST, SAMPLE, THROTTLE}, NEW len \in Nat
      PROVE  /\ HeaderWord(type, len) \in Nat
             /\ HeaderType(HeaderWord(type, len)) = type
             /\ HeaderSize(HeaderWord(type, len)) = len
  BY DEF HeaderWord, HeaderType, HeaderSize, LOST, SAMPLE, THROTTLE
<1>2. ASSUME NEW id \in Nat, NEW chain \in Nat, NEW abi \in {0, 1}, w = Sample(id, chain, abi)
      PROVE  w \in Seq(Nat) /\ Len(w) \in Nat \ {0} /\ HeaderSize(w[1]) = Len(w)
  <2>1. /\ w \in Seq(Nat) /\ w[1] = HeaderWord(SAMPLE, Len(w))
        /\ Len(w) = (IF backtrace THEN 4 + chain ELSE 3) + (IF abi = 0 THEN 0 ELSE Regs)
    BY <1>2, SampleWords
  <2>2. Len(w) \in Nat \ {0}
    BY <2>1, RingAssumption DEF RingAssumption
  <2> QED BY <1>1, <2>1, <2>2
<1>3. ASSUME NEW n \in Nat, w = Lost(n)
      PROVE  /\ w \in Seq(Nat) /\ Len(w) \in Nat \ {0} /\ HeaderSize(w[1]) = Len(w)
             /\ HeaderType(w[1]) # SAMPLE
  <2>1. w = <<HeaderWord(LOST, 3), 0, n>> /\ HeaderWord(LOST, 3) \in Nat
    BY <1>1, <1>3 DEF Lost
  <2>2. w \in Seq(Nat) /\ Len(w) = 3 /\ w[1] = HeaderWord(LOST, 3)
    BY <2>1
  <2> QED BY <1>1, <2>2 DEF LOST, SAMPLE
<1>4. ASSUME NEW n \in Nat, w = Throttle(n)
      PROVE  /\ w \in Seq(Nat) /\ Len(w) \in Nat \ {0} /\ HeaderSize(w[1]) = Len(w)
             /\ HeaderType(w[1]) # SAMPLE
  <2>1. w = <<HeaderWord(THROTTLE, 2), n>> /\ HeaderWord(THROTTLE, 2) \in Nat
    BY <1>1, <1>4 DEF Throttle
  <2>2. w \in Seq(Nat) /\ Len(w) = 2 /\ w[1] = HeaderWord(THROTTLE, 2)
    BY <2>1
  <2> QED BY <1>1, <2>2 DEF THROTTLE, SAMPLE
<1>5. CASE \E id \in Nat, chain \in Nat, abi \in {0, 1} : w = Sample(id, chain, abi)
  BY <1>2, <1>5
<1>6. CASE \E n \in Nat : w = Lost(n) \/ w = Throttle(n)
  BY <1>3, <1>4, <1>6
<1> QED BY <1>5, <1>6 DEF IsRecord, RecordKinds
-----------------------------------------------------------------------------
(***************************************************************************)
(* The history of the ring: records w, behind each other up to h.          *)
(***************************************************************************)
Records == [at : Nat, words : Seq(Nat)]

StartOf(w, h, k) == IF k <= Len(w) THEN w[k].at ELSE h

Tiles(w, h) ==
  /\ \A k \in 1..Len(w) : StartOf(w, h, k + 1) = w[k].at + Len(w[k].words)
  /\ \A j, k \in 1..Len(w) + 1 : j < k => StartOf(w, h, j) < StartOf(w, h, k)

\* The words of a record are in the ring.
InRing(rec, rg) ==
  \A i \in 1..Len(rec.words) : rg[(rec.at + i - 1) % DataSize] = rec.words[i]

History(w, h, rg, from) ==
  /\ w \in Seq(Records) /\ h \in Nat
  /\ Tiles(w, h)
  /\ \A k \in 1..Len(w) : /\ IsRecord(w[k].words)
                          /\ w[k].at >= from => InRing(w[k], rg)

\* One more record.
LEMMA HistoryGrows ==
  ASSUME NEW w, NEW h, NEW rg, NEW from, History(w, h, rg, from), backtrace \in BOOLEAN,
         NEW words, IsRecord(words), InRing([at |-> h, words |-> words], rg)
  PROVE  LET v == Append(w, [at |-> h, words |-> words])
         IN  /\ History(v, h + Len(words), rg, from)
             /\ Len(v) = Len(w) + 1
             /\ \A k \in 1..Len(w) : v[k] = w[k]
             /\ \A k \in 1..Len(w) + 1 : StartOf(v, h + Len(words), k) = StartOf(w, h, k)
<1> DEFINE rec == [at |-> h, words |-> words]
           v == Append(w, rec)
           e == h + Len(words)
<1>1. /\ w \in Seq(Records) /\ h \in Nat /\ Len(w) \in Nat
      /\ words \in Seq(Nat) /\ Len(words) \in Nat \ {0}
  BY RecordWords DEF History
<1>2. rec \in Records /\ rec.at = h /\ rec.words = words
  BY <1>1 DEF Records
<1>3. /\ v \in Seq(Records) /\ Len(v) = Len(w) + 1 /\ v[Len(w) + 1] = rec
      /\ \A k \in 1..Len(w) : v[k] = w[k]
  BY <1>1, <1>2, AppendProperties
<1> HIDE DEF v, rec
<1>4. e \in Nat /\ h < e
  BY <1>1
<1> HIDE DEF e
<1>5. ASSUME NEW k \in 1..Len(w) + 1 PROVE StartOf(v, e, k) = StartOf(w, h, k)
  <2>1. CASE k = Len(w) + 1
    BY <1>1, <1>2, <1>3, <2>1 DEF StartOf
  <2>2. CASE k \in 1..Len(w)
    BY <1>1, <1>3, <2>2 DEF StartOf
  <2> QED BY <1>1, <2>1, <2>2
<1>6. StartOf(v, e, Len(v) + 1) = e /\ StartOf(w, h, Len(w) + 1) = h
  BY <1>1, <1>3 DEF StartOf
<1>7. ASSUME NEW k \in 1..Len(v)
      PROVE  StartOf(v, e, k + 1) = v[k].at + Len(v[k].words)
  <2>1. CASE k = Len(w) + 1
    BY <1>2, <1>3, <1>6, <2>1 DEF e
  <2>2. CASE k \in 1..Len(w)
    <3>1. k + 1 \in 1..Len(w) + 1
      BY <1>1, <2>2
    <3>2. StartOf(w, h, k + 1) = w[k].at + Len(w[k].words)
      BY <2>2 DEF History, Tiles
    <3> QED BY <1>3, <1>5, <2>2, <3>1, <3>2
  <2> QED BY <1>1, <1>3, <2>1, <2>2
<1>8. ASSUME NEW j \in 1..Len(v) + 1, NEW k \in 1..Len(v) + 1, j < k
      PROVE  StartOf(v, e, j) < StartOf(v, e, k)
  <2>1. j \in 1..Len(w) + 1 /\ (k \in 1..Len(w) + 1 \/ k = Len(v) + 1)
    <3>1. Len(w) \in Nat /\ Len(v) = Len(w) + 1
      BY <1>1, <1>3
    <3> QED BY <1>8, <3>1
  <2>2. CASE k \in 1..Len(w) + 1
    <3>1. StartOf(w, h, j) < StartOf(w, h, k)
      BY <1>8, <2>1, <2>2 DEF History, Tiles
    <3> QED BY <1>5, <2>1, <2>2, <3>1
  <2>3. CASE k = Len(v) + 1
    <3>1. StartOf(w, h, j) = h \/ StartOf(w, h, j) < h
      <4>1. CASE j = Len(w) + 1
        BY <1>6, <4>1
      <4>2. CASE j # Len(w) + 1
        <5>1. Len(w) + 1 \in 1..Len(w) + 1 /\ j < Len(w) + 1
          BY <1>1, <2>1, <4>2
        <5> QED BY <1>6, <2>1, <5>1 DEF History, Tiles
      <4> QED BY <4>1, <4>2
    <3>2. StartOf(w, h, j) \in Nat
      <4>1. CASE j = Len(w) + 1
        BY <1>1, <1>6, <4>1
      <4>2. CASE j \in 1..Len(w)
        <5>1. w[j] \in Records
          BY <1>1, <4>2
        <5>2. StartOf(w, h, j) = w[j].at
          BY <1>1, <4>2 DEF StartOf
        <5> QED BY <5>1, <5>2 DEF Records
      <4>3. Len(w) \in Nat /\ j \in 1..Len(w) + 1
        BY <1>1, <2>1
      <4>4. j = Len(w) + 1 \/ j \in 1..Len(w)
        BY <4>3
      <4> QED BY <4>1, <4>2, <4>4
    <3> QED BY <1>1, <1>4, <1>5, <1>6, <2>1, <2>3, <3>1, <3>2
  <2> QED BY <2>1, <2>2, <2>3
<1>9. ASSUME NEW k \in 1..Len(v)
      PROVE  IsRecord(v[k].words) /\ (v[k].at >= from => InRing(v[k], rg))
  <2>1. CASE k = Len(w) + 1
    BY <1>2, <1>3, <2>1 DEF rec
  <2>2. CASE k \in 1..Len(w)
    BY <1>3, <2>2 DEF History
  <2> QED BY <1>1, <1>3, <2>1, <2>2
<1>10. History(v, e, rg, from)
  BY <1>3, <1>4, <1>7, <1>8, <1>9 DEF History, Tiles
<1> QED BY <1>3, <1>5, <1>10 DEF v, e, rec
-----------------------------------------------------------------------------
(***************************************************************************)
(* The inductive invariant of the ring.  Records tile it without gaps; the *)
(* reader is at the start of one, knows of data_head where a later one     *)
(* starts, and has given back the room before its own; and the callback    *)
(* has got what the records behind the reader hold for it.                 *)
(***************************************************************************)
Given == {SampleOf(w) : w \in Seq(Nat)}

RingTypeOK ==
  /\ backtrace \in BOOLEAN
  /\ tail = read /\ read \in Nat /\ head \in Nat /\ loaded \in Nat /\ size \in Nat
  /\ lost \in Nat /\ emits \in Nat
  /\ samples \in Seq(Given)

Handed(n) ==
  /\ Len(samples) = Rank(n)
  /\ \A j \in 1..n :
       HasRegs(written[j].words) => samples[Rank(j)] = SampleOf(written[j].words)

ReaderAt(k, m) ==
  /\ read = Start(k) /\ loaded = Start(m) /\ k <= m
  /\ reader = "advance" => k < m /\ size = Len(written[k].words)
  /\ Handed(IF reader = "advance" THEN k ELSE k - 1)

RingInv ==
  /\ RingTypeOK
  /\ History(written, head, ring, read)
  /\ read <= head /\ head - read < DataSize
  /\ \E k, m \in 1..Len(written) + 1 : ReaderAt(k, m)
-----------------------------------------------------------------------------
\* One record more to count.
LEMMA RankNext ==
  ASSUME NEW k \in Nat \ {0}
  PROVE  /\ Rank(k - 1) \in Nat
         /\ Rank(k) = Rank(k - 1) + (IF HasRegs(written[k].words) THEN 1 ELSE 0)
<1> DEFINE S(n) == {j \in 1..n : HasRegs(written[j].words)}
<1>1. IsFiniteSet(S(k - 1))
  <2>1. IsFiniteSet(1..k - 1)
    BY FS_Interval
  <2> QED BY <2>1, FS_Subset
<1>2. S(k) = IF HasRegs(written[k].words) THEN S(k - 1) \cup {k} ELSE S(k - 1)
  <2>1. \A j : j \in 1..k <=> j \in 1..k - 1 \/ j = k
    OBVIOUS
  <2> QED BY <2>1
<1>3. k \notin S(k - 1)
  OBVIOUS
<1>4. Rank(k) = Cardinality(S(k)) /\ Rank(k - 1) = Cardinality(S(k - 1))
  BY DEF Rank
<1> HIDE DEF S
<1>5. Cardinality(S(k - 1)) \in Nat
  BY <1>1, FS_CardinalityType
<1>6. Cardinality(S(k - 1) \cup {k}) = Cardinality(S(k - 1)) + 1
  BY <1>1, <1>3, FS_AddElement
<1> QED BY <1>2, <1>4, <1>5, <1>6

\* The rank of a record among those up to a later one.
LEMMA RankWithin ==
  ASSUME NEW k \in Nat, NEW j \in 1..k
  PROVE  /\ Rank(j) \in Nat /\ Rank(k) \in Nat /\ Rank(j) <= Rank(k)
         /\ HasRegs(written[j].words) => Rank(j) >= 1
<1> DEFINE S(n) == {i \in 1..n : HasRegs(written[i].words)}
<1>1. IsFiniteSet(S(k)) /\ IsFiniteSet(S(j)) /\ S(j) \subseteq S(k)
  <2>1. IsFiniteSet(1..k) /\ S(k) \subseteq 1..k /\ S(j) \subseteq S(k)
    BY FS_Interval
  <2> QED BY <2>1, FS_Subset
<1>2. Rank(k) = Cardinality(S(k)) /\ Rank(j) = Cardinality(S(j))
  BY DEF Rank
<1>3. HasRegs(written[j].words) => S(j) # {}
  <2>1. j \in 1..j
    OBVIOUS
  <2> QED BY <2>1
<1> HIDE DEF S
<1>4. Cardinality(S(k)) \in Nat /\ Cardinality(S(j)) \in Nat
      /\ Cardinality(S(j)) <= Cardinality(S(k))
  BY <1>1, FS_CardinalityType, FS_Subset
<1>5. S(j) # {} => Cardinality(S(j)) # 0
  BY <1>1, FS_EmptySet
<1> QED BY <1>2, <1>3, <1>4, <1>5

\* What has been handed over stays so while the history only grows.
LEMMA HandedKept ==
  ASSUME NEW n \in Nat, Handed(n), \A j \in 1..n : written'[j] = written[j],
         UNCHANGED <<backtrace, samples>>
  PROVE  Handed(n)'
<1>1. ASSUME NEW j \in 1..n
      PROVE  /\ HasRegs(written[j].words)' <=> HasRegs(written[j].words)
             /\ SampleOf(written[j].words)' = SampleOf(written[j].words)
  BY DEF HasRegs, SampleOf
<1>2. ASSUME NEW k \in 0..n PROVE Rank(k)' = Rank(k)
  <2>1. \A j \in 1..k : j \in 1..n
    OBVIOUS
  <2>2. {j \in 1..k : HasRegs(written[j].words)}' = {j \in 1..k : HasRegs(written[j].words)}
    BY <1>1, <2>1
  <2> QED BY <2>2 DEF Rank
<1>3. ASSUME NEW j \in 1..n, HasRegs(written[j].words)'
      PROVE  (samples[Rank(j)] = SampleOf(written[j].words))'
  <2>1. Rank(j)' = Rank(j)
    BY <1>2
  <2> QED BY <1>1, <1>3, <2>1 DEF Handed
<1>4. Rank(n)' = Rank(n)
  BY <1>2
<1> QED BY <1>3, <1>4 DEF Handed

\* The reader looks at data_head again, or waits, and others do what does not
\* touch the ring.
LEMMA ReaderWaits ==
  ASSUME RingInv, UNCHANGED <<backtrace, ring, head, tail, written, read, size, samples>>,
         lost' \in Nat, emits' \in Nat, loaded' \in {loaded, head},
         reader = "advance" => reader' = reader /\ loaded' = loaded,
         reader # "advance" => reader' # "advance"
  PROVE  RingInv'
<1>1. RingTypeOK' /\ (read <= head /\ head - read < DataSize)'
  BY DEF RingInv, RingTypeOK, Given, SampleOf
<1>2. History(written, head, ring, read)'
  <2>1. RecordKinds' = RecordKinds
    BY DEF RecordKinds, Sample
  <2>2. History(written, head, ring, read)
    BY DEF RingInv
  <2> QED BY <2>1, <2>2 DEF History, Tiles, StartOf, InRing, IsRecord
<1>3. PICK k \in 1..Len(written) + 1, m \in 1..Len(written) + 1 : ReaderAt(k, m)
  BY DEF RingInv
<1>4. Len(written) \in Nat
  BY DEF RingInv, History
<1>5. PICK n \in 1..Len(written) + 1 :
        k <= n /\ loaded' = Start(n) /\ (reader = "advance" => n = m)
  <2>1. CASE loaded' = loaded
    BY <1>3, <2>1 DEF ReaderAt
  <2>2. CASE loaded' = head /\ reader # "advance"
    <3>1. Len(written) + 1 \in 1..Len(written) + 1 /\ k <= Len(written) + 1
      BY <1>4
    <3>2. Start(Len(written) + 1) = head
      BY <1>4 DEF Start
    <3> QED BY <2>2, <3>1, <3>2
  <2> QED BY <2>1, <2>2
<1>6. ReaderAt(k, n)'
  <2>1. Start(k)' = Start(k) /\ Start(n)' = Start(n)
    BY DEF Start
  <2>2. ASSUME NEW i \in Nat, Handed(i) PROVE Handed(i)'
    BY <2>2, HandedKept
  <2>3. k \in Nat /\ k - 1 \in Nat
    BY <1>4
  <2> QED BY <1>3, <1>5, <2>1, <2>2, <2>3 DEF ReaderAt
<1> QED BY <1>1, <1>2, <1>6 DEF RingInv

\* Every record is between positions, and ends where data_head was or before.
LEMMA EndsWithin ==
  ASSUME NEW w, NEW h, NEW rg, NEW from, History(w, h, rg, from), backtrace \in BOOLEAN
  PROVE  /\ Len(w) \in Nat /\ h \in Nat
         /\ \A k \in 1..Len(w) + 1 : StartOf(w, h, k) \in Nat /\ StartOf(w, h, k) <= h
         /\ \A k \in 1..Len(w) :
              /\ w[k].at \in Nat /\ w[k].words \in Seq(Nat) /\ Len(w[k].words) \in Nat \ {0}
              /\ StartOf(w, h, k) = w[k].at /\ w[k].at + Len(w[k].words) <= h
<1>1. Len(w) \in Nat /\ h \in Nat /\ w \in Seq(Records) /\ Tiles(w, h)
  BY DEF History
<1>2. ASSUME NEW k \in 1..Len(w)
      PROVE  /\ w[k].at \in Nat /\ w[k].words \in Seq(Nat) /\ Len(w[k].words) \in Nat \ {0}
             /\ StartOf(w, h, k) = w[k].at
  <2>1. w[k] \in Records
    BY <1>1
  <2>2. w[k].words \in Seq(Nat) /\ Len(w[k].words) \in Nat \ {0}
    BY RecordWords DEF History
  <2>3. StartOf(w, h, k) = w[k].at
    BY <1>1 DEF StartOf
  <2> QED BY <2>1, <2>2, <2>3 DEF Records
<1>3. StartOf(w, h, Len(w) + 1) = h
  BY <1>1 DEF StartOf
<1>4. ASSUME NEW k \in 1..Len(w) + 1 PROVE StartOf(w, h, k) \in Nat /\ StartOf(w, h, k) <= h
  <2>1. CASE k = Len(w) + 1
    BY <1>1, <1>3, <2>1
  <2>2. CASE k \in 1..Len(w)
    <3>1. Len(w) + 1 \in 1..Len(w) + 1 /\ k < Len(w) + 1
      BY <1>1, <2>2
    <3>2. StartOf(w, h, k) < StartOf(w, h, Len(w) + 1)
      BY <1>1, <3>1 DEF Tiles
    <3> QED BY <1>1, <1>2, <1>3, <2>2, <3>2
  <2>3. Len(w) \in Nat
    BY <1>1
  <2>4. k = Len(w) + 1 \/ k \in 1..Len(w)
    BY <2>3
  <2> QED BY <2>1, <2>2, <2>4
<1>5. ASSUME NEW k \in 1..Len(w) PROVE w[k].at + Len(w[k].words) <= h
  <2>1. StartOf(w, h, k + 1) = w[k].at + Len(w[k].words)
    BY <1>1 DEF Tiles
  <2>2. Len(w) \in Nat
    BY <1>1
  <2>3. k + 1 \in 1..Len(w) + 1
    BY <2>2
  <2> QED BY <1>4, <2>1, <2>3
<1> QED BY <1>1, <1>2, <1>4, <1>5

\* What a step of the kernel does to the history and to the ring.
LEMMA KernelWrites ==
  ASSUME RingInv, NEW record, IsRecord(record),
         NEW behind, behind = (IF lost > 0 THEN Lost(lost) ELSE <<>>),
         Fits(behind \o record), Write(behind \o record),
         written' = written \o (IF lost > 0 THEN Written(head, behind) ELSE <<>>)
                      \o Written(head + Len(behind), record)
  PROVE  /\ History(written', head', ring', read)
         /\ Len(written') \in Nat /\ Len(written) <= Len(written')
         /\ \A k \in 1..Len(written) : written'[k] = written[k]
         /\ \A k \in 1..Len(written) + 1 :
              StartOf(written', head', k) = StartOf(written, head, k)
         /\ read <= head' /\ head' - read < DataSize
<1> DEFINE all == behind \o record
<1>1. /\ backtrace \in BOOLEAN /\ tail = read /\ read \in Nat /\ head \in Nat /\ lost \in Nat
      /\ read <= head /\ History(written, head, ring, read)
  BY DEF RingInv, RingTypeOK
<1>2. record \in Seq(Nat) /\ Len(record) \in Nat \ {0}
  BY <1>1, RecordWords
<1>3. behind \in Seq(Nat) /\ Len(behind) \in Nat /\ (lost > 0 => IsRecord(behind))
  <2>1. CASE lost > 0
    <3>1. IsRecord(behind)
      BY <1>1, <2>1 DEF IsRecord, RecordKinds
    <3> QED BY <1>1, <2>1, <3>1, RecordWords
  <2>2. CASE ~(lost > 0)
    BY <2>2
  <2> QED BY <2>1, <2>2
<1>4. /\ all \in Seq(Nat) /\ Len(all) = Len(behind) + Len(record)
      /\ \A i \in 1..Len(behind) + Len(record) :
           all[i] = IF i <= Len(behind) THEN behind[i] ELSE record[i - Len(behind)]
  BY <1>2, <1>3, ConcatProperties
<1>5. head + Len(all) - read < DataSize /\ head' = head + Len(all) /\ Write(all)
  <2>1. head - tail + Len(all) < DataSize /\ head' = head + Len(all) /\ Write(all)
    BY DEF Fits, Write
  <2>2. Len(all) \in Nat
    BY <1>2, <1>3, <1>4
  <2>3. DataSize \in Nat
    BY RingAssumption DEF RingAssumption
  <2> HIDE DEF all
  <2> QED BY <1>1, <2>1, <2>2, <2>3
<1> HIDE DEF all
<1>6. /\ Len(behind) \in Nat /\ Len(record) \in Nat /\ Len(all) \in Nat
       /\ Len(all) = Len(behind) + Len(record) /\ head \in Nat
  BY <1>1, <1>2, <1>3, <1>4
<1>7. ASSUME NEW p \in Nat
      PROVE  /\ read <= p /\ p < head => ring'[p % DataSize] = ring[p % DataSize]
             /\ head <= p /\ p < head + Len(all) => ring'[p % DataSize] = all[p - head + 1]
  BY <1>1, <1>4, <1>5, RingWritten
<1>8. History(written, head, ring', read)
  <2>1. ASSUME NEW k \in 1..Len(written), written[k].at >= read
        PROVE  InRing(written[k], ring')
    <3>1. /\ written[k].at \in Nat /\ Len(written[k].words) \in Nat
          /\ written[k].at + Len(written[k].words) <= head
      BY <1>1, EndsWithin
    <3>2. ASSUME NEW i \in 1..Len(written[k].words)
          PROVE  ring'[(written[k].at + i - 1) % DataSize] = written[k].words[i]
      <4>1. /\ written[k].at + i - 1 \in Nat /\ read <= written[k].at + i - 1
            /\ written[k].at + i - 1 < head
        BY <1>1, <2>1, <3>1
      <4>2. ring[(written[k].at + i - 1) % DataSize] = written[k].words[i]
        BY <1>1, <2>1 DEF History, InRing
      <4> QED BY <1>7, <4>1, <4>2
    <3> QED BY <3>2 DEF InRing
  <2> QED BY <1>1, <2>1 DEF History
<1>9. ASSUME lost > 0 PROVE InRing([at |-> head, words |-> behind], ring')
  <2>1. ASSUME NEW i \in 1..Len(behind)
        PROVE  ring'[(head + i - 1) % DataSize] = behind[i]
    <3>1. /\ head + i - 1 \in Nat /\ head <= head + i - 1
          /\ head + i - 1 < head + Len(all) /\ (head + i - 1) - head + 1 = i
          /\ i \in 1..Len(behind) + Len(record) /\ i <= Len(behind)
      BY <1>6
    <3> QED BY <1>4, <1>7, <3>1
  <2> QED BY <2>1 DEF InRing
<1> DEFINE mid == head + Len(behind)
<1>10. InRing([at |-> mid, words |-> record], ring')
  <2>1. ASSUME NEW i \in 1..Len(record)
        PROVE  ring'[(mid + i - 1) % DataSize] = record[i]
    <3>1. /\ mid + i - 1 \in Nat /\ head <= mid + i - 1
          /\ mid + i - 1 < head + Len(all) /\ (mid + i - 1) - head + 1 = Len(behind) + i
          /\ Len(behind) + i \in 1..Len(behind) + Len(record)
          /\ ~(Len(behind) + i <= Len(behind)) /\ (Len(behind) + i) - Len(behind) = i
      BY <1>6
    <3>2. ring'[(mid + i - 1) % DataSize] = all[Len(behind) + i]
      BY <1>7, <3>1
    <3> HIDE DEF mid
    <3> QED BY <1>4, <3>1, <3>2
  <2> QED BY <2>1 DEF InRing
<1> DEFINE v == IF lost > 0 THEN Append(written, [at |-> head, words |-> behind]) ELSE written
<1>11. /\ History(v, mid, ring', read) /\ Len(v) \in Nat /\ Len(written) \in Nat
       /\ Len(written) <= Len(v) /\ \A k \in 1..Len(written) : v[k] = written[k]
       /\ \A k \in 1..Len(written) + 1 : StartOf(v, mid, k) = StartOf(written, head, k)
  <2>1. Len(written) \in Nat
    BY <1>1 DEF History
  <2>2. CASE lost > 0
    <3>1. IsRecord(behind) /\ InRing([at |-> head, words |-> behind], ring')
      BY <1>3, <1>9, <2>2
    <3>2. v = Append(written, [at |-> head, words |-> behind])
      BY <2>2
    <3> HIDE DEF v
    <3> QED BY <1>1, <1>8, <2>1, <3>1, <3>2, HistoryGrows
  <2>3. CASE ~(lost > 0)
    <3>1. behind = <<>> /\ v = written /\ mid = head
      BY <1>1, <2>3
    <3> QED BY <1>8, <2>1, <3>1
  <2> QED BY <2>2, <2>3
<1>12. written' = Append(v, [at |-> mid, words |-> record])
  <2>1. v \in Seq(Records) /\ written \in Seq(Records)
    BY <1>1, <1>11 DEF History
  <2>2. written \o (IF lost > 0 THEN Written(head, behind) ELSE <<>>) = v
    <3>1. CASE lost > 0
      <4>1. [at |-> head, words |-> behind] \in Records
        BY <1>1, <1>3 DEF Records
      <4> QED BY <2>1, <3>1, <4>1, AppendIsConcat DEF Written
    <3>2. CASE ~(lost > 0)
      BY <2>1, <3>2, ConcatEmptySeq
    <3> QED BY <3>1, <3>2
  <2>3. mid \in Nat /\ [at |-> mid, words |-> record] \in Records
    BY <1>1, <1>2, <1>3 DEF Records
  <2> HIDE DEF v
  <2> QED BY <2>1, <2>2, <2>3, AppendIsConcat DEF Written
<1>13. head' = mid + Len(record) /\ mid \in Nat
  BY <1>1, <1>2, <1>3, <1>4, <1>5
<1> HIDE DEF v, mid
<1>14. /\ History(written', head', ring', read) /\ Len(written') = Len(v) + 1
       /\ \A k \in 1..Len(v) : written'[k] = v[k]
       /\ \A k \in 1..Len(v) + 1 : StartOf(written', head', k) = StartOf(v, mid, k)
  <2> DEFINE u == Append(v, [at |-> mid, words |-> record])
  <2>1. /\ History(u, mid + Len(record), ring', read) /\ Len(u) = Len(v) + 1
        /\ \A k \in 1..Len(v) : u[k] = v[k]
        /\ \A k \in 1..Len(v) + 1 : StartOf(u, mid + Len(record), k) = StartOf(v, mid, k)
    BY <1>1, <1>10, <1>11, HistoryGrows
  <2> HIDE DEF u
  <2>2. u = written'
    BY <1>12 DEF u
  <2> QED BY <1>13, <2>1, <2>2
<1>15. /\ Len(written) \in Nat /\ Len(v) \in Nat /\ Len(written) <= Len(v)
       /\ \A k \in 1..Len(written) : k \in 1..Len(v)
       /\ \A k \in 1..Len(written) + 1 : k \in 1..Len(v) + 1
  BY <1>11
<1>16. read <= head' /\ head' - read < DataSize
  <2>1. Len(all) \in Nat
    BY <1>2, <1>3, <1>4
  <2> QED BY <1>1, <1>5, <2>1
<1>17. \A k \in 1..Len(written) : written'[k] = written[k]
  BY <1>11, <1>14, <1>15
<1>18. \A k \in 1..Len(written) + 1 : StartOf(written', head', k) = StartOf(written, head, k)
  BY <1>11, <1>14, <1>15
<1>19. Len(written') \in Nat /\ Len(written) <= Len(written')
  <2>1. /\ Len(written') = Len(v) + 1 /\ Len(v) \in Nat /\ Len(written) \in Nat
        /\ Len(written) <= Len(v)
    BY <1>14, <1>15
  <2>2. \A x, y, z : x = y + 1 /\ y \in Nat /\ z \in Nat /\ z <= y => x \in Nat /\ z <= x
    OBVIOUS
  <2> QED BY <2>1, <2>2
<1> QED BY <1>14, <1>16, <1>17, <1>18, <1>19

\* A record, and the note of those lost before it, or one more lost.
LEMMA EmitOK ==
  ASSUME RingInv, NEW record, IsRecord(record), Emit(record)
  PROVE  RingInv'
<1>1. /\ emits' = emits + 1 /\ UNCHANGED <<backtrace, tail, readiness, taskVars>>
  BY DEF Emit
<1>2. UNCHANGED <<reader, loaded, read, size, samples>>
  BY <1>1 DEF taskVars
<1> DEFINE behind == IF lost > 0 THEN Lost(lost) ELSE <<>>
<1>3. RingTypeOK /\ lost \in Nat /\ emits \in Nat
  BY DEF RingInv, RingTypeOK
<1>4. CASE /\ lost' = lost + 1
           /\ UNCHANGED <<ring, head, written, wakeup>>
  BY <1>1, <1>2, <1>3, <1>4, ReaderWaits
<1>5. CASE /\ Fits(behind \o record)
           /\ Write(behind \o record)
           /\ written' = written
                \o (IF lost > 0 THEN Written(head, behind) ELSE <<>>)
                \o Written(head + Len(behind), record)
           /\ lost' = 0
  <2>1. /\ History(written', head', ring', read)
        /\ Len(written') \in Nat /\ Len(written) <= Len(written')
        /\ \A k \in 1..Len(written) : written'[k] = written[k]
        /\ \A k \in 1..Len(written) + 1 :
             StartOf(written', head', k) = StartOf(written, head, k)
        /\ read <= head' /\ head' - read < DataSize
    BY <1>5, KernelWrites
  <2>2. RingTypeOK'
    <3>1. head' \in Nat
      BY <2>1 DEF History
    <3>2. Given' = Given
      BY <1>1 DEF Given, SampleOf
    <3> QED BY <1>1, <1>2, <1>3, <1>5, <3>1, <3>2 DEF RingTypeOK
  <2>3. History(written, head, ring, read)'
    <3>1. RecordKinds' = RecordKinds
      BY <1>1 DEF RecordKinds, Sample
    <3> QED BY <1>2, <2>1, <3>1 DEF History, Tiles, StartOf, InRing, IsRecord
  <2>4. PICK k \in 1..Len(written) + 1, m \in 1..Len(written) + 1 : ReaderAt(k, m)
    BY DEF RingInv
  <2>5. Len(written) \in Nat
    BY DEF RingInv, History
  <2>6. k \in 1..Len(written') + 1 /\ m \in 1..Len(written') + 1
    <3>1. Len(written) \in Nat /\ Len(written') \in Nat /\ Len(written) <= Len(written')
      BY <2>1, <2>5
    <3> QED BY <3>1
  <2>7. Start(k)' = Start(k) /\ Start(m)' = Start(m)
    BY <2>1 DEF Start, StartOf
  <2> DEFINE n == IF reader = "advance" THEN k ELSE k - 1
  <2>8. n \in Nat /\ n <= Len(written)
    BY <2>4, <2>5 DEF ReaderAt
  <2>9. Handed(n)'
    <3>1. \A j \in 1..n : written'[j] = written[j]
      BY <2>1, <2>5, <2>8
    <3>2. Handed(n)
      BY <2>4 DEF ReaderAt
    <3> HIDE DEF n
    <3>3. PICK c \in Nat : c = n
      BY <2>8
    <3>4. Handed(c)'
      BY <1>1, <1>2, <2>8, <3>1, <3>2, <3>3, HandedKept
    <3> QED BY <1>2, <3>3, <3>4 DEF n
  <2>10. reader = "advance" => written'[k] = written[k]
    BY <2>1, <2>4, <2>5 DEF ReaderAt
  <2>11. ReaderAt(k, m)'
    BY <1>2, <2>4, <2>7, <2>9, <2>10 DEF ReaderAt
  <2> QED BY <1>2, <2>1, <2>2, <2>3, <2>6, <2>11 DEF RingInv
<1> QED BY <1>4, <1>5 DEF Emit
-----------------------------------------------------------------------------
\* Where the parts of a sample are.
LEMMA SampleShape ==
  ASSUME backtrace \in BOOLEAN, NEW w, IsRecord(w), HeaderType(w[1]) = SAMPLE
  PROVE  \E chain \in Nat, abi \in {0, 1} :
           /\ Len(w) = (IF backtrace THEN 4 + chain ELSE 3) + (IF abi = 0 THEN 0 ELSE Regs)
           /\ w[IF backtrace THEN 4 + chain ELSE 3] = abi
           /\ backtrace => w[3] = chain
<1>1. PICK id \in Nat, chain \in Nat, abi \in {0, 1} : w = Sample(id, chain, abi)
  BY RecordWords
<1>2. /\ Len(w) = (IF backtrace THEN 4 + chain ELSE 3) + (IF abi = 0 THEN 0 ELSE Regs)
      /\ backtrace => w[3] = chain
  <2>1. Len(Sample(id, chain, abi)) =
          (IF backtrace THEN 4 + chain ELSE 3) + (IF abi = 0 THEN 0 ELSE Regs)
    BY SampleWords, Zenon
  <2>2. backtrace => Sample(id, chain, abi)[3] = chain
    <3> DEFINE s == Sample(id, chain, abi)
               a == IF backtrace THEN 4 + chain ELSE 3
    <3>1. /\ s \in Seq(Nat)
          /\ Len(s) = a + (IF abi = 0 THEN 0 ELSE Regs)
          /\ s[1] = HeaderWord(SAMPLE, Len(s))
          /\ s[2] = id /\ s[a] = abi
          /\ (backtrace => s[3] = chain)
      BY SampleWords
    <3> QED BY <3>1
  <2> QED BY <1>1, <2>1, <2>2
<1>3. w[IF backtrace THEN 4 + chain ELSE 3] = abi
  <2>1. Sample(id, chain, abi)[IF backtrace THEN 4 + chain ELSE 3] = abi
    BY SampleWords, Zenon
  <2> QED BY <1>1, <2>1
<1> QED BY <1>2, <1>3

\* What the reader makes of a sample whose words it finds in the ring.
LEMMA SampleRead ==
  ASSUME backtrace \in BOOLEAN, NEW w, IsRecord(w), HeaderType(w[1]) = SAMPLE,
         \A i \in 1..Len(w) : WordAt(i - 1) = w[i]
  PROVE  ReadSample = IF HasRegs(w) THEN <<SampleOf(w)>> ELSE <<>>
<1>1. PICK chain \in Nat, abi \in {0, 1} :
        /\ Len(w) = (IF backtrace THEN 4 + chain ELSE 3) + (IF abi = 0 THEN 0 ELSE Regs)
        /\ w[IF backtrace THEN 4 + chain ELSE 3] = abi
        /\ backtrace => w[3] = chain
  BY SampleShape
<1> DEFINE a == IF backtrace THEN 4 + chain ELSE 3
<1>2. /\ w \in Seq(Nat) /\ Len(w) = a + (IF abi = 0 THEN 0 ELSE Regs)
      /\ w[a] = abi /\ (backtrace => w[3] = chain)
  BY <1>1, RecordWords
<1>3. Regs \in Nat /\ a \in Nat /\ a >= 3 /\ (backtrace => a = 4 + chain)
  BY RingAssumption DEF RingAssumption
<1>4. Len(w) \in Nat /\ Len(w) = a + (IF abi = 0 THEN 0 ELSE Regs)
  <2>1. Len(w) \in Nat
    BY RecordWords
  <2> HIDE DEF a
  <2> QED BY <1>2, <2>1
<1>5. WordAt(1) = w[2]
  <2>1. 2 \in 1..Len(w) /\ 2 - 1 = 1
    BY <1>3, <1>4
  <2> QED BY <2>1
<1>6. backtrace => WordAt(2) = chain
  <2>1. 3 \in 1..Len(w) /\ 3 - 1 = 2
    BY <1>3, <1>4
  <2> QED BY <1>2, <2>1
<1>7. WordAt(a - 1) = abi
  <2>1. a \in 1..Len(w)
    BY <1>3, <1>4
  <2> QED BY <1>2, <2>1
<1> DEFINE n == IF backtrace THEN chain ELSE 0
<1>8. n = (IF backtrace THEN WordAt(2) ELSE 0) /\ n = (IF backtrace THEN w[3] ELSE 0)
      /\ n \in Nat
  BY <1>2, <1>6
<1> DEFINE d == IF backtrace THEN 3 + n ELSE 2
<1>9. a - 1 = d /\ \A i \in 1..Regs : a - 1 + i = d + i
  BY <1>3
<1>10. ASSUME NEW i \in 1..n PROVE WordAt(2 + i) = w[3 + i]
  <2>1. 3 + i \in 1..Len(w) /\ (3 + i) - 1 = 2 + i
    BY <1>3, <1>4
  <2> QED BY <2>1
<1>11. ASSUME abi # 0, NEW i \in 1..Regs
       PROVE  WordAt(d + i) = w[Len(w) - Regs + i]
  <2>1. a + i \in 1..Len(w) /\ (a + i) - 1 = d + i /\ Len(w) - Regs + i = a + i
    BY <1>3, <1>4, <1>11
  <2> QED BY <2>1
<1>12. HasRegs(w) <=> abi # 0
  <2>1. a = IF backtrace THEN 4 + w[3] ELSE 3
    BY <1>2
  <2> QED BY <1>2, <2>1 DEF HasRegs
<1> DEFINE r == [id |-> WordAt(1), chain |-> [i \in 1..n |-> WordAt(2 + i)],
                 regs |-> [i \in 1..Regs |-> WordAt(d + i)]]
<1>13. ReadSample = IF WordAt(d) = 0 THEN <<>> ELSE <<r>>
  <2>1. CASE backtrace
    <3>1. n = WordAt(2) /\ d = 3 + n
      BY <1>8, <2>1
    <3> HIDE DEF n, d
    <3> QED BY <2>1, <3>1 DEF ReadSample
  <2>2. CASE ~backtrace
    <3>1. n = 0 /\ d = 2
      BY <2>2
    <3> HIDE DEF n, d
    <3> QED BY <2>2, <3>1 DEF ReadSample
  <2> QED BY <2>1, <2>2
<1>14. abi # 0 => r = SampleOf(w)
  <2>1. SampleOf(w) = [id |-> w[2], chain |-> [i \in 1..n |-> w[3 + i]],
                       regs |-> [i \in 1..Regs |-> w[Len(w) - Regs + i]]]
    BY <1>8 DEF SampleOf
  <2>2. [i \in 1..n |-> WordAt(2 + i)] = [i \in 1..n |-> w[3 + i]]
    BY <1>10
  <2>3. abi # 0 =>
          [i \in 1..Regs |-> WordAt(d + i)] = [i \in 1..Regs |-> w[Len(w) - Regs + i]]
    BY <1>11
  <2> QED BY <1>5, <2>1, <2>2, <2>3
<1> QED BY <1>7, <1>9, <1>12, <1>13, <1>14
-----------------------------------------------------------------------------
\* The empty ring.
LEMMA RingInitOK == RingInit => RingInv
<1> SUFFICES ASSUME RingInit PROVE RingInv
  OBVIOUS
<1>1. /\ written = <<>> /\ Len(written) = 0 /\ head = 0 /\ read = 0 /\ loaded = 0
      /\ samples = <<>> /\ Len(samples) = 0 /\ reader = "new"
  BY DEF RingInit
<1>2. RingTypeOK
  BY DEF RingInit, RingTypeOK
<1>3. History(written, head, ring, read)
  <2>1. Tiles(written, head)
    BY <1>1 DEF Tiles, StartOf
  <2>2. written \in Seq(Records)
    BY <1>1
  <2> QED BY <1>1, <2>1, <2>2 DEF History
<1>4. Handed(0)
  <2>1. {j \in 1..0 : HasRegs(written[j].words)} = {}
    OBVIOUS
  <2>2. Rank(0) = 0
    BY <2>1, FS_EmptySet DEF Rank
  <2> QED BY <1>1, <2>2 DEF Handed
<1>5. ReaderAt(1, 1)
  <2>1. Start(1) = 0
    BY <1>1 DEF Start
  <2>2. 1 - 1 = 0
    OBVIOUS
  <2> QED BY <1>1, <1>4, <2>1, <2>2 DEF ReaderAt
<1>6. read <= head /\ head - read < DataSize /\ 1 \in 1..Len(written) + 1
  BY <1>1, RingAssumption DEF RingAssumption
<1> QED BY <1>2, <1>3, <1>5, <1>6 DEF RingInv

\* What the callback gets of a record is what the record holds for it.
LEMMA HandedMore ==
  ASSUME NEW k \in Nat \ {0}, Handed(k - 1), samples \in Seq(Given),
         written[k].words \in Seq(Nat),
         UNCHANGED <<backtrace, written>>,
         samples' = samples \o (IF HasRegs(written[k].words)
                                  THEN <<SampleOf(written[k].words)>> ELSE <<>>)
  PROVE  samples' \in Seq(Given)' /\ Handed(k)'
<1> DEFINE w == written[k].words
           more == IF HasRegs(w) THEN <<SampleOf(w)>> ELSE <<>>
<1>1. Given' = Given
  BY DEF Given, SampleOf
<1>2. /\ more \in Seq(Given)
      /\ Len(more) = IF HasRegs(w) THEN 1 ELSE 0
      /\ HasRegs(w) => more[1] = SampleOf(w)
  <2>1. SampleOf(w) \in Given
    BY DEF Given
  <2>2. CASE HasRegs(w)
    BY <2>1, <2>2
  <2>3. CASE ~HasRegs(w)
    BY <2>3
  <2> QED BY <2>2, <2>3
<1>3. samples' = samples \o more
  OBVIOUS
<1>4. /\ samples' \in Seq(Given) /\ Len(samples') = Len(samples) + Len(more)
      /\ \A i \in 1..Len(samples) + Len(more) :
           samples'[i] = IF i <= Len(samples) THEN samples[i] ELSE more[i - Len(samples)]
  <2> HIDE DEF more
  <2> QED BY <1>2, <1>3, ConcatProperties
<1>5. /\ Rank(k - 1) \in Nat /\ Rank(k) = Rank(k - 1) + (IF HasRegs(w) THEN 1 ELSE 0)
      /\ Len(samples) = Rank(k - 1)
  BY RankNext DEF Handed
<1>6. Len(samples') = Rank(k)
  BY <1>2, <1>4, <1>5
<1>7. ASSUME NEW j \in 1..k, HasRegs(written[j].words)
      PROVE  samples'[Rank(j)] = SampleOf(written[j].words)
  <2>1. CASE j = k
    <3>1. Len(more) = 1 /\ more[1] = SampleOf(w) /\ Rank(j) = Rank(k - 1) + 1
      BY <1>2, <1>5, <1>7, <2>1
    <3>2. /\ Rank(j) \in 1..Len(samples) + Len(more)
          /\ ~(Rank(j) <= Len(samples)) /\ Rank(j) - Len(samples) = 1
      BY <1>5, <3>1
    <3> HIDE DEF more
    <3> QED BY <1>4, <2>1, <3>1, <3>2
  <2>2. CASE j # k
    <3>1. j \in 1..k - 1 /\ k - 1 \in Nat
      BY <2>2
    <3>2. Rank(j) \in Nat /\ Rank(j) >= 1 /\ Rank(j) <= Rank(k - 1)
      BY <1>7, <3>1, RankWithin
    <3>3. Len(more) \in Nat
      BY <1>2
    <3>4. Rank(j) \in 1..Len(samples) + Len(more) /\ Rank(j) <= Len(samples)
      BY <1>5, <3>2, <3>3
    <3>5. samples[Rank(j)] = SampleOf(written[j].words)
      BY <1>7, <3>1 DEF Handed
    <3> HIDE DEF more
    <3> QED BY <1>4, <3>4, <3>5
  <2> QED BY <2>1, <2>2
<1>8. Handed(k)'
  <2>1. Rank(k)' = Rank(k) /\ \A j \in 1..k : Rank(j)' = Rank(j)
    BY DEF Rank, HasRegs
  <2>2. \A j \in 1..k : /\ HasRegs(written[j].words)' <=> HasRegs(written[j].words)
                        /\ SampleOf(written[j].words)' = SampleOf(written[j].words)
    BY DEF HasRegs, SampleOf
  <2> QED BY <1>6, <1>7, <2>1, <2>2 DEF Handed
<1> QED BY <1>1, <1>4, <1>8

\* The record that the reader is at is in the ring, and behind it is the next.
LEMMA RecordAhead ==
  ASSUME RingInv, NEW k \in 1..Len(written) + 1, read = Start(k), k <= Len(written)
  PROVE  /\ IsRecord(written[k].words) /\ backtrace \in BOOLEAN
         /\ \A i \in 1..Len(written[k].words) : WordAt(i - 1) = written[k].words[i]
         /\ read + Len(written[k].words) = Start(k + 1)
         /\ Start(k + 1) \in Nat /\ read < Start(k + 1) /\ Start(k + 1) <= head
<1>1. /\ backtrace \in BOOLEAN /\ read \in Nat /\ head \in Nat
      /\ History(written, head, ring, read)
  BY DEF RingInv, RingTypeOK
<1>2. Len(written) \in Nat /\ k \in 1..Len(written) /\ k + 1 \in 1..Len(written) + 1
  <2>1. Len(written) \in Nat
    BY <1>1 DEF History
  <2> QED BY <2>1
<1>3. read = written[k].at
  BY <1>2 DEF Start
<1>4. IsRecord(written[k].words) /\ InRing(written[k], ring)
  <2>1. written[k].at >= read
    BY <1>1, <1>3
  <2> QED BY <1>1, <1>2, <2>1 DEF History
<1>5. ASSUME NEW i \in 1..Len(written[k].words)
      PROVE  WordAt(i - 1) = written[k].words[i]
  <2>1. ring[(read + i - 1) % DataSize] = written[k].words[i]
    BY <1>3, <1>4 DEF InRing
  <2>2. read + (i - 1) = read + i - 1
    BY <1>1
  <2> QED BY <2>1, <2>2 DEF WordAt
<1>6. /\ StartOf(written, head, k + 1) \in Nat /\ StartOf(written, head, k + 1) <= head
      /\ Len(written[k].words) \in Nat \ {0}
  BY <1>1, <1>2, EndsWithin
<1>7. StartOf(written, head, k + 1) = written[k].at + Len(written[k].words)
  BY <1>1, <1>2 DEF History, Tiles
<1>8. Start(k + 1) = StartOf(written, head, k + 1)
  BY DEF Start, StartOf
<1>9. \A x, y, z : x \in Nat /\ y \in Nat \ {0} /\ z = x + y => x < z
  OBVIOUS
<1> QED BY <1>1, <1>3, <1>4, <1>5, <1>6, <1>7, <1>8, <1>9

\* Between the end of one record and the next the two counts are the same.
LEMMA StartsApart ==
  ASSUME RingInv, NEW k \in 1..Len(written) + 1, NEW m \in 1..Len(written) + 1,
         ReaderAt(k, m), loaded # read
  PROVE  k < m /\ k <= Len(written)
<1>1. k # m /\ k <= m
  BY DEF ReaderAt
<1>2. Len(written) \in Nat
  BY DEF RingInv, History
<1> QED BY <1>1, <1>2

\* A record is read out of the ring, and its sample handed over.
LEMMA HandleOK == ASSUME RingInv, Handle PROVE RingInv'
<1>1. /\ reader = "test" /\ reader' = "advance" /\ loaded # read
      /\ UNCHANGED <<backtrace, ring, head, written, lost, emits, tail, loaded, read>>
      /\ size' = HeaderSize(WordAt(0))
      /\ samples' = IF HeaderType(WordAt(0)) = SAMPLE
                    THEN samples \o ReadSample ELSE samples
  BY DEF Handle, kernelVars
<1>2. PICK k \in 1..Len(written) + 1, m \in 1..Len(written) + 1 : ReaderAt(k, m)
  BY DEF RingInv
<1>3. k < m /\ k <= Len(written)
  BY <1>1, <1>2, StartsApart
<1>4. /\ RingTypeOK /\ backtrace \in BOOLEAN /\ samples \in Seq(Given)
      /\ read = Start(k) /\ Handed(k - 1) /\ k \in Nat \ {0}
      /\ History(written, head, ring, read) /\ Len(written) \in Nat
  <2>1. RingTypeOK /\ backtrace \in BOOLEAN /\ samples \in Seq(Given)
        /\ History(written, head, ring, read)
    BY DEF RingInv, RingTypeOK
  <2>2. Len(written) \in Nat
    BY <2>1 DEF History
  <2>3. k \in Nat \ {0}
    BY <2>2
  <2>4. read = Start(k) /\ Handed(k - 1)
    BY <1>1, <1>2 DEF ReaderAt
  <2> QED BY <2>1, <2>2, <2>3, <2>4
<1> DEFINE w == written[k].words
<1>5. /\ IsRecord(w) /\ \A i \in 1..Len(w) : WordAt(i - 1) = w[i]
      /\ w \in Seq(Nat) /\ Len(w) \in Nat \ {0} /\ HeaderSize(w[1]) = Len(w)
  BY <1>2, <1>3, <1>4, RecordAhead, RecordWords
<1>6. WordAt(0) = w[1]
  <2>1. 1 \in 1..Len(w) /\ 1 - 1 = 0
    BY <1>5
  <2> QED BY <1>5, <2>1
<1> DEFINE more == IF HasRegs(w) THEN <<SampleOf(w)>> ELSE <<>>
<1>7. samples' = samples \o more
  <2>1. CASE HeaderType(w[1]) = SAMPLE
    <3>1. ReadSample = more
      BY <1>4, <1>5, <2>1, SampleRead
    <3> QED BY <1>1, <1>6, <2>1, <3>1
  <2>2. CASE HeaderType(w[1]) # SAMPLE
    <3>1. more = <<>>
      BY <2>2 DEF HasRegs
    <3> QED BY <1>1, <1>4, <1>6, <2>2, <3>1, ConcatEmptySeq
  <2> QED BY <2>1, <2>2
<1>8. samples' \in Seq(Given)' /\ Handed(k)'
  BY <1>1, <1>4, <1>5, <1>7, HandedMore
<1>9. size' = Len(w) /\ size' \in Nat
  BY <1>1, <1>5, <1>6
<1>10. RingTypeOK'
  BY <1>1, <1>4, <1>8, <1>9 DEF RingTypeOK
<1>11. History(written, head, ring, read)'
  <2>1. RecordKinds' = RecordKinds
    BY <1>1 DEF RecordKinds, Sample
  <2> QED BY <1>1, <1>4, <2>1 DEF History, Tiles, StartOf, InRing, IsRecord
<1>12. ReaderAt(k, m)'
  <2>1. Start(k)' = Start(k) /\ Start(m)' = Start(m)
    BY <1>1 DEF Start
  <2>2. reader' = "advance" /\ written' = written /\ loaded' = loaded /\ read' = read
    BY <1>1
  <2>3. loaded = Start(m) /\ k <= m
    BY <1>2 DEF ReaderAt
  <2> QED BY <1>3, <1>4, <1>8, <1>9, <2>1, <2>2, <2>3 DEF ReaderAt
<1>13. (read <= head /\ head - read < DataSize)' /\ Len(written)' = Len(written)
  BY <1>1 DEF RingInv
<1> QED BY <1>1, <1>10, <1>11, <1>12, <1>13 DEF RingInv

\* The room of the record is given back.
LEMMA AdvanceOK == ASSUME RingInv, Advance PROVE RingInv'
<1>1. /\ reader = "advance" /\ reader' = "test" /\ read' = read + size /\ tail' = read'
      /\ loaded' \in {loaded, head}
      /\ UNCHANGED <<backtrace, ring, head, written, lost, emits, size, samples>>
  BY DEF Advance, kernelVars
<1>2. PICK k \in 1..Len(written) + 1, m \in 1..Len(written) + 1 : ReaderAt(k, m)
  BY DEF RingInv
<1>3. /\ RingTypeOK /\ History(written, head, ring, read) /\ Len(written) \in Nat
      /\ read \in Nat /\ head \in Nat /\ head - read < DataSize /\ DataSize \in Nat
  BY RingAssumption DEF RingAssumption, RingInv, RingTypeOK, History
<1>4. /\ k < m /\ k <= Len(written) /\ read = Start(k) /\ loaded = Start(m)
      /\ size = Len(written[k].words) /\ Handed(k) /\ k \in Nat \ {0}
  BY <1>1, <1>2, <1>3 DEF ReaderAt
<1>5. /\ read + Len(written[k].words) = Start(k + 1)
      /\ Start(k + 1) \in Nat /\ read < Start(k + 1) /\ Start(k + 1) <= head
  BY <1>2, <1>4, RecordAhead
<1>6. read' = Start(k + 1)
  BY <1>1, <1>4, <1>5
<1>7. PICK n \in 1..Len(written) + 1 : k + 1 <= n /\ loaded' = Start(n)
  <2>1. CASE loaded' = loaded
    <3>1. k + 1 <= m
      BY <1>4
    <3> QED BY <1>4, <2>1, <3>1
  <2>2. CASE loaded' = head
    <3>1. Start(Len(written) + 1) = head /\ k + 1 <= Len(written) + 1
          /\ Len(written) + 1 \in 1..Len(written) + 1
      BY <1>3, <1>4 DEF Start
    <3> QED BY <2>2, <3>1
  <2> QED BY <1>1, <2>1, <2>2
<1>8. loaded' \in Nat
  BY <1>1, <1>3 DEF RingTypeOK
<1>9. RingTypeOK'
  <2>1. Given' = Given
    BY <1>1 DEF Given, SampleOf
  <2>2. read' \in Nat
    BY <1>5, <1>6
  <2> QED BY <1>1, <1>3, <1>8, <2>1, <2>2 DEF RingTypeOK
<1>10. read <= read'
  BY <1>3, <1>5, <1>6
<1>11. History(written, head, ring, read)'
  <2>1. RecordKinds' = RecordKinds
    BY <1>1 DEF RecordKinds, Sample
  <2>2. ASSUME NEW j \in 1..Len(written), written[j].at >= read'
        PROVE  written[j].at >= read
    <3>1. written[j] \in Records
      BY <1>3 DEF History
    <3>2. written[j].at \in Nat /\ read' \in Nat
      BY <1>9, <3>1 DEF Records, RingTypeOK
    <3> QED BY <1>3, <1>10, <2>2, <3>2
  <2>3. /\ written \in Seq(Records) /\ head \in Nat /\ Tiles(written, head)
        /\ \A j \in 1..Len(written) : /\ IsRecord(written[j].words)
                                      /\ written[j].at >= read' => InRing(written[j], ring)
    BY <1>3, <2>2 DEF History
  <2> QED BY <1>1, <2>1, <2>3 DEF History, Tiles, StartOf, InRing, IsRecord
<1>12. (read <= head /\ head - read < DataSize)'
  <2>1. read' \in Nat /\ read' <= head /\ read <= read'
    BY <1>5, <1>6, <1>10
  <2> QED BY <1>1, <1>3, <2>1
<1>13. k + 1 \in 1..Len(written) + 1
  BY <1>3, <1>4
<1>14. Handed(k)'
  BY <1>1, <1>4, HandedKept
<1>15. ReaderAt(k + 1, n)'
  <2>1. Start(k + 1)' = Start(k + 1) /\ Start(n)' = Start(n)
    BY <1>1 DEF Start
  <2>2. (k + 1) - 1 = k
    BY <1>4
  <2> QED BY <1>1, <1>6, <1>7, <1>14, <2>1, <2>2 DEF ReaderAt
<1> QED BY <1>1, <1>7, <1>9, <1>11, <1>12, <1>13, <1>15 DEF RingInv

\* What the kernel writes is a record.
LEMMA KernelStepOK == ASSUME RingInv, KernelStep PROVE RingInv'
<1>1. emits + 1 \in Nat /\ Chains \subseteq Nat
  BY RingAssumption DEF RingAssumption, RingInv, RingTypeOK
<1>2. ASSUME NEW chain \in Chains, NEW abi \in {0, 1}, Emit(Sample(emits + 1, chain, abi))
      PROVE  RingInv'
  <2>1. IsRecord(Sample(emits + 1, chain, abi))
    BY <1>1 DEF IsRecord, RecordKinds
  <2> QED BY <1>2, <2>1, EmitOK
<1>3. ASSUME Emit(Throttle(emits + 1)) PROVE RingInv'
  <2>1. IsRecord(Throttle(emits + 1))
    BY <1>1 DEF IsRecord, RecordKinds
  <2> QED BY <1>3, <2>1, EmitOK
<1> QED BY <1>2, <1>3 DEF KernelStep

\* Every step of the reader and of the kernel keeps the invariant.
LEMMA RingStepOK == RingInv /\ [RingNext]_ringVars => RingInv'
<1> SUFFICES ASSUME RingInv, [RingNext]_ringVars PROVE RingInv'
  OBVIOUS
<1>1. lost \in Nat /\ emits \in Nat
  BY DEF RingInv, RingTypeOK
<1>2. CASE KernelStep
  BY <1>2, KernelStepOK
<1>3. CASE Notify
  BY <1>1, <1>3, ReaderWaits DEF Notify, taskVars
<1>4. CASE Open
  BY <1>1, <1>4, ReaderWaits DEF Open, kernelVars
<1>5. CASE Readable
  BY <1>1, <1>5, ReaderWaits DEF Readable, kernelVars
<1>6. CASE Handle
  BY <1>6, HandleOK
<1>7. CASE Advance
  BY <1>7, AdvanceOK
<1>8. CASE EndBatch
  BY <1>1, <1>8, ReaderWaits DEF EndBatch, kernelVars
<1>9. CASE ReadableFails
  BY <1>1, <1>9, ReaderWaits DEF ReadableFails, kernelVars
<1>10. CASE Drop
  BY <1>1, <1>10, ReaderWaits DEF Drop, kernelVars
<1>11. CASE UNCHANGED ringVars
  BY <1>1, <1>11, ReaderWaits DEF ringVars, kernelVars, taskVars
<1> QED BY <1>2, <1>3, <1>4, <1>5, <1>6, <1>7, <1>8, <1>9, <1>10, <1>11
        DEF RingNext, ReaderStep
-----------------------------------------------------------------------------
\* The reader is at the start of a record, behind which the ring holds what
\* the kernel wrote, and the callback has got what was before it.
THEOREM RingInvariant == RingSpec => []RingInv
<1> QED BY RingInitOK, RingStepOK, PTL DEF RingSpec

\* The words of a record stay in the ring until the reader has read it: the
\* room that data_tail gives back is never room it still needs.
THEOREM UnreadNeverOverwritten == RingSpec => []UnreadIntact
<1>1. ASSUME RingInv PROVE UnreadIntact
  <2>1. History(written, head, ring, read)
    BY <1>1 DEF RingInv
  <2> QED BY <2>1 DEF History, InRing, UnreadIntact
<1> QED BY <1>1, RingInvariant, PTL

\* The callback gets each sample that has registers once, in order and word
\* for word.
THEOREM SamplesDelivered == RingSpec => []SamplesExact
<1>1. ASSUME RingInv PROVE SamplesExact
  <2>1. PICK k \in 1..Len(written) + 1, m \in 1..Len(written) + 1 : ReaderAt(k, m)
    BY <1>1 DEF RingInv
  <2> QED BY <2>1 DEF ReaderAt, Handed, SamplesExact
<1> QED BY <1>1, RingInvariant, PTL
-----------------------------------------------------------------------------
\* The reader never runs past data_head, of which it knows only what it has
\* loaded, and no record it takes is empty: its test for the end of the loop
\* is whether the two are different, and would not hold again behind it.
NeverPastHead ==
  /\ read <= loaded /\ loaded <= head
  /\ reader = "advance" => size > 0 /\ read + size <= loaded

\* What else the variables hold.
RingVariables ==
  /\ ring \in [0..DataSize - 1 -> Nat]
  /\ emits \in 0..MaxEmits
  /\ wakeup \in BOOLEAN
  /\ readiness \in {"unset", "set", "again"}
  /\ reader \in {"new", "await", "test", "advance", "end", "dropped"}
  /\ processed \in 0..MaxEvents
  /\ reader = "advance" => processed < MaxEvents
-----------------------------------------------------------------------------
\* The kernel writes words.
LEMMA WordsWritten ==
  ASSUME NEW record, IsRecord(record), backtrace \in BOOLEAN, lost \in Nat,
         head \in Nat, ring \in [0..DataSize - 1 -> Nat],
         Write((IF lost > 0 THEN Lost(lost) ELSE <<>>) \o record)
  PROVE  ring' \in [0..DataSize - 1 -> Nat]
<1> DEFINE behind == IF lost > 0 THEN Lost(lost) ELSE <<>>
           words == behind \o record
<1>1. words \in Seq(Nat)
  <2>1. record \in Seq(Nat)
    BY RecordWords
  <2>2. behind \in Seq(Nat)
    <3>1. CASE lost > 0
      <4>1. IsRecord(Lost(lost))
        BY DEF IsRecord, RecordKinds
      <4> QED BY <3>1, <4>1, RecordWords
    <3>2. CASE ~(lost > 0)
      BY <3>2
    <3> QED BY <3>1, <3>2
  <2> HIDE DEF behind
  <2> QED BY <2>1, <2>2, ConcatProperties
<1>2. ring' = [i \in 0..DataSize - 1 |->
                 LET k == (i - head) % DataSize
                 IN IF k < Len(words) THEN words[k + 1] ELSE ring[i]]
  BY DEF Write
<1> HIDE DEF words
<1>3. ASSUME NEW i \in 0..DataSize - 1, NEW k \in Nat, k < Len(words)
      PROVE  words[k + 1] \in Nat
  <2>1. Len(words) \in Nat
    BY <1>1
  <2>2. k + 1 \in 1..Len(words)
    BY <1>3, <2>1
  <2> QED BY <1>1, <2>2
<1>4. ASSUME NEW i \in 0..DataSize - 1 PROVE (i - head) % DataSize \in Nat
  <2>1. DataSize \in Nat \ {0}
    BY RingAssumption DEF RingAssumption
  <2> QED BY <2>1
<1> QED BY <1>2, <1>3, <1>4

\* Every step keeps the types.
LEMMA RingVariablesStep ==
  RingVariables /\ RingInv /\ [RingNext]_ringVars => RingVariables'
<1> SUFFICES ASSUME RingVariables, RingInv, [RingNext]_ringVars PROVE RingVariables'
  OBVIOUS
<1>1. /\ backtrace \in BOOLEAN /\ lost \in Nat /\ head \in Nat /\ emits \in Nat
      /\ ring \in [0..DataSize - 1 -> Nat]
      /\ MaxEmits \in Nat /\ MaxEvents \in Nat \ {0} /\ Chains \subseteq Nat
  BY RingAssumption DEF RingAssumption, RingInv, RingTypeOK, RingVariables
<1>2. ASSUME NEW record, IsRecord(record), Emit(record) PROVE RingVariables'
  <2>1. /\ emits' = emits + 1 /\ emits < MaxEmits
        /\ UNCHANGED <<readiness, reader, processed>>
    BY <1>2 DEF Emit, taskVars
  <2>2. emits' \in 0..MaxEmits
    BY <1>1, <2>1
  <2>3. ring' \in [0..DataSize - 1 -> Nat] /\ wakeup' \in BOOLEAN
    <3>1. CASE UNCHANGED <<ring, wakeup>>
      BY <1>1, <3>1 DEF RingVariables
    <3>2. CASE Write((IF lost > 0 THEN Lost(lost) ELSE <<>>) \o record)
      <4>1. wakeup' = TRUE
        BY <3>2 DEF Write
      <4> QED BY <1>1, <1>2, <3>2, <4>1, WordsWritten
    <3> QED BY <1>2, <3>1, <3>2 DEF Emit
  <2> QED BY <2>1, <2>2, <2>3 DEF RingVariables
<1>3. CASE KernelStep
  <2>1. emits + 1 \in Nat
    BY <1>1
  <2>2. \A chain \in Chains, abi \in {0, 1} : IsRecord(Sample(emits + 1, chain, abi))
    BY <1>1, <2>1 DEF IsRecord, RecordKinds
  <2>3. IsRecord(Throttle(emits + 1))
    BY <2>1 DEF IsRecord, RecordKinds
  <2> QED BY <1>2, <1>3, <2>2, <2>3 DEF KernelStep
<1>4. CASE Notify
  BY <1>4 DEF Notify, RingVariables, taskVars
<1>5. CASE Open
  BY <1>5 DEF Open, RingVariables, kernelVars
<1>6. CASE Readable
  BY <1>1, <1>6 DEF Readable, RingVariables, kernelVars
<1>7. CASE Handle
  BY <1>1, <1>7 DEF Handle, RingVariables, kernelVars
<1>8. CASE Advance
  BY <1>1, <1>8 DEF Advance, RingVariables, kernelVars
<1>9. CASE EndBatch
  BY <1>9 DEF EndBatch, RingVariables, kernelVars
<1>10. CASE ReadableFails
  BY <1>10 DEF ReadableFails, RingVariables, kernelVars
<1>11. CASE Drop
  BY <1>11 DEF Drop, RingVariables, kernelVars
<1>12. CASE UNCHANGED ringVars
  BY <1>12 DEF ringVars, RingVariables, kernelVars, taskVars
<1> QED BY <1>3, <1>4, <1>5, <1>6, <1>7, <1>8, <1>9, <1>10, <1>11, <1>12
        DEF RingNext, ReaderStep
-----------------------------------------------------------------------------
\* The ring holds words, at most MAX_EVENTS_PER_READINESS records are taken
\* between two awaits, and positions, counts and samples are what they are
\* declared to be.
THEOREM RingTypeCorrect == RingSpec => [](RingTypeOK /\ RingVariables)
<1>1. RingInit => RingVariables
  <2>1. MaxEmits \in Nat /\ MaxEvents \in Nat /\ 0 \in 0..MaxEmits /\ 0 \in 0..MaxEvents
    BY RingAssumption DEF RingAssumption
  <2>2. RingInit => ring \in [0..DataSize - 1 -> Nat]
    BY DEF RingInit
  <2> QED BY <2>1, <2>2 DEF RingInit, RingVariables
<1>2. RingVariables /\ RingInv /\ [RingNext]_ringVars => RingVariables'
  BY RingVariablesStep
<1>3. RingInv => RingTypeOK
  BY DEF RingInv
<1> QED BY <1>1, <1>2, <1>3, RingInvariant, PTL DEF RingSpec

\* The reader never runs past data_head, however old the value it has loaded.
THEOREM ReaderNeverPastHead == RingSpec => []NeverPastHead
<1>1. ASSUME RingInv PROVE NeverPastHead
  <2>1. PICK k \in 1..Len(written) + 1, m \in 1..Len(written) + 1 : ReaderAt(k, m)
    BY <1>1 DEF RingInv
  <2>2. /\ History(written, head, ring, read) /\ backtrace \in BOOLEAN
        /\ Tiles(written, head) /\ Len(written) \in Nat
    BY <1>1 DEF RingInv, RingTypeOK, History
  <2>3. \A j \in 1..Len(written) + 1 : Start(j) = StartOf(written, head, j)
    BY DEF Start, StartOf
  <2>4. /\ Start(k) \in Nat /\ Start(m) \in Nat /\ Start(m) <= head
        /\ read = Start(k) /\ loaded = Start(m) /\ k <= m
    BY <2>1, <2>2, <2>3, EndsWithin DEF ReaderAt
  <2>5. \A i, j \in 1..Len(written) + 1 : i < j => Start(i) < Start(j)
    BY <2>2, <2>3 DEF Tiles
  <2>6. read <= loaded
    <3>1. k = m \/ k < m
      BY <2>2, <2>4
    <3>2. Start(k) <= Start(m)
      BY <2>4, <2>5, <3>1
    <3> QED BY <2>4, <3>2
  <2>7. ASSUME reader = "advance" PROVE size > 0 /\ read + size <= loaded
    <3>1. k < m /\ size = Len(written[k].words)
      BY <2>1, <2>7 DEF ReaderAt
    <3>2. k \in 1..Len(written) /\ k + 1 \in 1..Len(written) + 1
      BY <2>2, <3>1
    <3>3. size \in Nat \ {0}
      BY <2>2, <3>1, <3>2, EndsWithin
    <3>4. read + size = Start(k + 1) /\ Start(k + 1) \in Nat
      BY <1>1, <2>4, <3>1, <3>2, RecordAhead
    <3>5. k + 1 = m \/ k + 1 < m
      BY <2>2, <3>1
    <3>6. Start(k + 1) <= Start(m)
      <4>1. CASE k + 1 = m
        <5>1. Start(k + 1) = Start(m)
          BY <4>1
        <5> QED BY <2>4, <5>1
      <4>2. CASE k + 1 < m
        <5>1. Start(k + 1) < Start(m)
          BY <2>5, <3>2, <4>2
        <5> QED BY <2>4, <3>4, <5>1
      <4> QED BY <3>5, <4>1, <4>2
    <3> QED BY <2>4, <3>3, <3>4, <3>6
  <2> QED BY <2>4, <2>6, <2>7 DEF NeverPastHead
<1> QED BY <1>1, RingInvariant, PTL
=============================================================================
