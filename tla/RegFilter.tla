----------------------------- MODULE RegFilter -----------------------------
(***************************************************************************)
(* The register filter of a watch (src/filter.rs): a recursive-descent     *)
(* parser with a cursor, and the evaluation of the disjunctive normal form *)
(* that it builds.  The input is a sequence of tokens, chosen one by one   *)
(* when the cursor gets to them; a token stands for its spelling.  The     *)
(* parser is compared with a reading of the whole sequence at once, which  *)
(* cuts it at its "or"s and "and"s.  The tokenizer is in RegText.          *)
(***************************************************************************)
EXTENDS Integers, Sequences

CONSTANTS
  RegIndex,      \* parse_reg: the index of each register name, from 1
  ValueOf,       \* parse_value: what each number stands for
  Operators,     \* the spellings that parse_operator knows
  AndTokens,     \* the spellings of "and", in any case, and of "or"
  OrTokens,
  OtherTokens,   \* tokens that are none of these, nor "&"
  BitAnd(_, _),  \* & of two u64
  Samples,       \* the vectors of registers considered
  MaxTokens,     \* bound of the model: the longest filter
  Completions    \* bound of AcceptsFilters: what may follow

None == "none"
RegTokens == DOMAIN RegIndex
ValueTokens == DOMAIN ValueOf
Connectives == AndTokens \cup OrTokens
Tokens == RegTokens \cup ValueTokens \cup Operators \cup Connectives
            \cup OtherTokens \cup {"&"}

\* No connective is spelled like a part of a predicate.
ASSUME FilterAssumption ==
  /\ \A t \in RegTokens : RegIndex[t] \in Nat \ {0}
  /\ \A t \in ValueTokens : ValueOf[t] \in Nat
  /\ None \notin Tokens
  /\ "&" \notin Operators
  /\ AndTokens \cap OrTokens = {}
  /\ Connectives \cap (RegTokens \cup ValueTokens \cup Operators \cup {"&"}) = {}
  /\ Samples \subseteq Seq(Nat)
  /\ MaxTokens \in Nat
  /\ Completions \subseteq Seq(Tokens)

VARIABLES
  tokens,  \* the tokens up to the one that the cursor has looked at
  ended,   \* no token follows
  pos,     \* Parser::pos
  phase,   \* what the parser is about to read
  pred,    \* the predicate being read
  group,   \* parse_and_group's vector
  groups   \* parse_filter's vector

vars == <<tokens, ended, pos, phase, pred, group, groups>>

\* parse_operator.
Compare(op, a, b) ==
  CASE op \in {"=", "=="} -> a = b
    [] op = "!=" -> a # b
    [] op = ">"  -> a > b
    [] op = ">=" -> a >= b
    [] op = "<"  -> a < b
    [] op = "<=" -> a <= b

Masks == {{}} \cup {{ValueOf[t]} : t \in ValueTokens}
Predicates ==
  [reg : {RegIndex[t] : t \in RegTokens}, mask : Masks, op : Operators,
   value : {ValueOf[t] : t \in ValueTokens}]
\* Nothing of a predicate has been read.
Blank == [reg |-> 0, mask |-> {}, op |-> None, value |-> 0]

Init ==
  /\ tokens = <<>>
  /\ ended = FALSE
  /\ pos = 1
  /\ phase = "reg"
  /\ pred = Blank
  /\ group = <<>>
  /\ groups = <<>>
-----------------------------------------------------------------------------
(* The input. *)

Arrive(t) ==
  /\ phase \notin {"ok", "error"}
  /\ ~ended /\ pos > Len(tokens) /\ Len(tokens) < MaxTokens
  /\ tokens' = Append(tokens, t)
  /\ UNCHANGED <<ended, pos, phase, pred, group, groups>>

EndOfInput ==
  /\ phase \notin {"ok", "error"}
  /\ ~ended /\ pos > Len(tokens)
  /\ ended' = TRUE
  /\ UNCHANGED <<tokens, pos, phase, pred, group, groups>>

\* The token under the cursor, once it is known.
Seen == ended \/ pos <= Len(tokens)
Peek == IF pos <= Len(tokens) THEN tokens[pos] ELSE None
-----------------------------------------------------------------------------
(* The parser. *)

Consume(from, to) ==
  /\ phase \in from
  /\ Seen
  /\ pos' = pos + 1
  /\ phase' = to
  /\ UNCHANGED <<tokens, ended>>

TakeReg ==
  /\ Consume({"reg"}, "mask")
  /\ Peek \in RegTokens
  /\ pred' = [Blank EXCEPT !.reg = RegIndex[Peek]]
  /\ UNCHANGED <<group, groups>>

ConsumeMask ==
  /\ Consume({"mask"}, "maskvalue")
  /\ Peek = "&"
  /\ UNCHANGED <<pred, group, groups>>

TakeMaskValue ==
  /\ Consume({"maskvalue"}, "op")
  /\ Peek \in ValueTokens
  /\ pred' = [pred EXCEPT !.mask = {ValueOf[Peek]}]
  /\ UNCHANGED <<group, groups>>

TakeOperator ==
  /\ Consume({"mask", "op"}, "value")
  /\ Peek \in Operators
  /\ pred' = [pred EXCEPT !.op = Peek]
  /\ UNCHANGED <<group, groups>>

TakeValue ==
  /\ Consume({"value"}, "link")
  /\ Peek \in ValueTokens
  /\ group' = Append(group, [pred EXCEPT !.value = ValueOf[Peek]])
  /\ pred' = Blank
  /\ UNCHANGED groups

ConsumeAnd ==
  /\ Consume({"link"}, "reg")
  /\ Peek \in AndTokens
  /\ UNCHANGED <<pred, group, groups>>

\* Faulty variant: both connectives are read from left to right.
ConsumeOrFlat ==
  /\ Consume({"link"}, "reg")
  /\ Peek \in OrTokens
  /\ groups' = groups \o [i \in 1..Len(group) |-> <<group[i]>>]
  /\ group' = <<>>
  /\ UNCHANGED pred

\* Faulty variant: a trailing "or" is tolerated.
ConsumeOrTrailing ==
  /\ Consume({"link"}, "link")
  /\ Peek \in OrTokens
  /\ groups' = Append(groups, group)
  /\ group' = <<>>
  /\ UNCHANGED pred

ConsumeOr ==
  /\ Consume({"link"}, "reg")
  /\ Peek \in OrTokens
  /\ groups' = Append(groups, group)
  /\ group' = <<>>
  /\ UNCHANGED pred

\* Faulty variant: what follows the filter is ignored.
FinishEarly ==
  /\ phase = "link" /\ Seen
  /\ Peek \notin Connectives
  /\ groups' = Append(groups, group)
  /\ group' = <<>>
  /\ phase' = "ok"
  /\ UNCHANGED <<tokens, ended, pos, pred>>

\* parse: no token may be left over.
Finish ==
  /\ phase = "link" /\ Seen
  /\ Peek = None
  /\ groups' = Append(groups, group)
  /\ group' = <<>>
  /\ phase' = "ok"
  /\ UNCHANGED <<tokens, ended, pos, pred>>

Expected ==
  [reg |-> RegTokens,
   mask |-> {"&"} \cup Operators,
   maskvalue |-> ValueTokens,
   op |-> Operators,
   value |-> ValueTokens,
   link |-> Connectives \cup {None}]

\* Any other token, or a missing one, is an error of the whole filter.
Fail ==
  /\ phase \in DOMAIN Expected
  /\ Seen
  /\ Peek \notin Expected[phase]
  /\ phase' = "error"
  /\ UNCHANGED <<tokens, ended, pos, pred, group, groups>>

Next ==
  \/ \E t \in Tokens : Arrive(t)
  \/ EndOfInput
  \/ TakeReg \/ ConsumeMask \/ TakeMaskValue \/ TakeOperator \/ TakeValue
  \/ ConsumeAnd \/ ConsumeOr \/ Finish \/ Fail

Spec == Init /\ [][Next]_vars
-----------------------------------------------------------------------------
(* RegFilter::matches.  A sample is the vector of its registers.           *)

Satisfies(p, regs) ==
  /\ p.reg \in DOMAIN regs
  /\ LET reg == regs[p.reg]
         lhs == IF p.mask = {} THEN reg ELSE BitAnd(reg, CHOOSE m \in p.mask : TRUE)
     IN  Compare(p.op, lhs, p.value)

Matches(gs, regs) ==
  \E i \in DOMAIN gs : \A k \in DOMAIN gs[i] : Satisfies(gs[i][k], regs)
-----------------------------------------------------------------------------
(* The reference: the sequence s is cut at connectives.                    *)

\* The first and last positions of the pieces of s between members of cut,
\* within lo..hi.  A piece may be empty.
Pieces(s, lo, hi, cut) ==
  LET stops == {i \in lo..hi : s[i] \in cut} \cup {lo - 1, hi + 1}
      gaps == {p \in stops \X stops :
                 p[1] < p[2] /\ stops \cap (p[1] + 1)..(p[2] - 1) = {}}
  IN  {<<p[1] + 1, p[2] - 1>> : p \in gaps}

IsPredicate(s, lo, hi) ==
  /\ hi - lo \in {2, 4}
  /\ s[lo] \in RegTokens
  /\ hi - lo = 4 => s[lo + 1] = "&" /\ s[lo + 2] \in ValueTokens
  /\ s[hi - 1] \in Operators
  /\ s[hi] \in ValueTokens

IsFilter(s) ==
  \A p \in Pieces(s, 1, Len(s), Connectives) : IsPredicate(s, p[1], p[2])

PredicateHolds(s, lo, hi, regs) ==
  /\ RegIndex[s[lo]] <= Len(regs)
  /\ LET reg == regs[RegIndex[s[lo]]]
         lhs == IF hi - lo = 4 THEN BitAnd(reg, ValueOf[s[lo + 2]]) ELSE reg
     IN  Compare(s[hi - 1], lhs, ValueOf[s[hi]])

Meaning(s, regs) ==
  \E p \in Pieces(s, 1, Len(s), OrTokens) :
    \A q \in Pieces(s, p[1], p[2], AndTokens) : PredicateHolds(s, q[1], q[2], regs)
-----------------------------------------------------------------------------
\* What parse_predicate has read when it goes on with each part.
Partial ==
  [reg : IF phase \in {"mask", "maskvalue", "op", "value"}
         THEN {RegIndex[t] : t \in RegTokens} ELSE {0},
   mask : IF phase = "op" THEN Masks \ {{}} ELSE IF phase = "value" THEN Masks ELSE {{}},
   op : IF phase = "value" THEN Operators ELSE {None},
   value : {0}]

\* A predicate is complete when it is pushed, and no group is empty: an empty
\* one would match every sample.
TypeOK ==
  /\ tokens \in Seq(Tokens) /\ Len(tokens) <= MaxTokens
  /\ ended \in BOOLEAN
  /\ pos \in 1..(Len(tokens) + 1)
  /\ phase \in DOMAIN Expected \cup {"ok", "error"}
  /\ phase # "error" => pred \in Partial
  /\ group \in Seq(Predicates)
  /\ phase = "link" => group # <<>>
  /\ groups \in Seq(Seq(Predicates) \ {<<>>})

\* parse accepts exactly the filters: what it accepts is one, and it reports
\* an error only when nothing that starts with the tokens read so far is one.
AcceptsFilters ==
  /\ phase = "ok" => IsFilter(tokens)
  /\ phase = "error" =>
       IF ended THEN ~IsFilter(tokens)
                ELSE \A rest \in Completions : ~IsFilter(tokens \o rest)

\* An accepted filter selects the samples that its text means: "and" binds
\* more tightly than "or", a mask is applied before the comparison, and a
\* predicate on a register that the sample lacks is false.
MatchesItsMeaning ==
  phase = "ok" => \A regs \in Samples : Matches(groups, regs) = Meaning(tokens, regs)
=============================================================================
