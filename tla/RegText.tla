------------------------------ MODULE RegText ------------------------------
(***************************************************************************)
(* The tokenizer of the register filter (src/filter.rs).  A text is a      *)
(* sequence of characters, where one character stands for each word, and a *)
(* token is the sequence of its characters.  The texts that are tokenized  *)
(* are those of the filters that the parser accepts.                       *)
(***************************************************************************)
EXTENDS RegFilter

OpChars == {"=", "!", ">", "<", "&", "|"}
WordChars == Tokens \ (Operators \cup {"&", "&&", "||"})

\* The second character of a longer operator that starts with ch.
Continues(ch) == IF ch \in {"&", "|"} THEN ch ELSE "="

\* Faulty variant: an operator is one character.
TokenLengthShort(s) ==
  IF s[1] \in OpChars
  THEN 1
  ELSE CHOOSE n \in 1..Len(s) :
         /\ \A i \in 1..n : s[i] \in WordChars
         /\ n < Len(s) => s[n + 1] \notin WordChars

\* An operator takes its second character, and a word all of its letters.
TokenLength(s) ==
  IF s[1] \in OpChars
  THEN IF Len(s) > 1 /\ s[2] = Continues(s[1]) THEN 2 ELSE 1
  ELSE CHOOSE n \in 1..Len(s) :
         /\ \A i \in 1..n : s[i] \in WordChars
         /\ n < Len(s) => s[n + 1] \notin WordChars

RECURSIVE Split(_)
Split(s) ==
  IF s = <<>> THEN <<>>
  ELSE IF s[1] = " " THEN Split(Tail(s))
  ELSE LET n == TokenLength(s)
       IN <<SubSeq(s, 1, n)>> \o Split(SubSeq(s, n + 1, Len(s)))

\* A character of no token refuses the whole text.
Tokenize(s) ==
  IF \A i \in DOMAIN s : s[i] \in OpChars \cup WordChars \cup {" "}
  THEN Split(s) ELSE <<"error">>
-----------------------------------------------------------------------------
\* The characters of a token, and a text of tokens with a space in each gap
\* except those in omit.
Spelling(t) ==
  CASE t \in WordChars \cup OpChars -> <<t>>
    [] t = "!=" -> <<"!", "=">>
    [] t = "<=" -> <<"<", "=">>
    [] t = "&&" -> <<"&", "&">>
    [] t = "||" -> <<"|", "|">>

RECURSIVE Text(_, _)
Text(n, omit) ==
  IF n = 0 THEN <<>>
  ELSE Text(n - 1, omit) \o (IF n = 1 \/ n - 1 \in omit THEN <<>> ELSE <<" ">>)
                        \o Spelling(tokens[n])

\* Spaces matter between words only: the text of a filter gives its tokens
\* again when any gap, or every gap, next to an operator is left out, and no
\* longer does when two words are joined.
SpacesOnlyBetweenWords ==
  phase = "ok" =>
    LET gaps == 1..(Len(tokens) - 1)
        free == {i \in gaps : {tokens[i], tokens[i + 1]} \ WordChars # {}}
    IN \A omit \in {{}, free} \cup {{i} : i \in gaps} :
         (Tokenize(Text(Len(tokens), omit)) = [i \in DOMAIN tokens |-> Spelling(tokens[i])])
           <=> omit \subseteq free
=============================================================================
