------------------------------- MODULE Tokenizer -------------------------------
(***************************************************************************)
(* The string functions of fxmy_string.c that queries are read with.       *)
(*                                                                         *)
(* A text is an array of characters, from position 0 to that of its only   *)
(* NUL.  A letter stands for both its cases, as all comparisons fold them, *)
(* and a blank for all white space.                                        *)
(***************************************************************************)
EXTENDS Integers, Sequences

NUL        == "nul"
NULL       == -1                  \* the position of a NULL pointer
Blank      == " "
Quotes     == {"'", "\""}
Backslash  == "\\"
Separators == {Blank, ";", ",", NUL}

Array(s)  == [p \in 0 .. Len(s) |-> IF p = Len(s) THEN NUL ELSE s[p + 1]]
Least(S)  == CHOOSE p \in S : \A q \in S : p <= q
EndOf(text) == Least({p \in DOMAIN text : text[p] = NUL})

\* fxmy_fconsume_whitespace.
ConsumeWhitespace(text, p) ==
  Least({q \in p .. EndOf(text) : text[q] # Blank})

\* fxmy_ffind_end_of_string: behind the next quote of the same kind that has
\* no backslash before it, or the end of the text.
EndOfString_Past(text, p) ==      \* seeded fault: start + 1 at the end, too
  LET closing == {q \in p + 1 .. EndOf(text) : text[q] = text[p] /\ text[q - 1] # Backslash}
  IN  IF closing = {} THEN EndOf(text) + 1 ELSE Least(closing) + 1
EndOfString_Escapes(text, p) ==   \* seeded fault: prev is not looked at
  LET closing == {q \in p + 1 .. EndOf(text) : text[q] = text[p]}
  IN  IF closing = {} THEN EndOf(text) ELSE Least(closing) + 1
EndOfString(text, p) ==
  LET closing == {q \in p + 1 .. EndOf(text) : text[q] = text[p] /\ text[q - 1] # Backslash}
  IN  IF closing = {} THEN EndOf(text) ELSE Least(closing) + 1

\* A separator ends a token, unless it is the token's first character.
EndOfWord(text, p) ==
  Least({q \in p + 1 .. EndOf(text) : text[q] \in Separators})

EndOfToken(text, p) ==
  IF text[p] \in Quotes THEN EndOfString(text, p) ELSE EndOfWord(text, p)

Token(b, e) == [begin |-> b, end |-> e]
NoToken     == Token(NULL, NULL)

\* fxmy_fnext_token.  Comments are not skipped: line 61 goes back to where
\* lines 55 to 59 began.
NextToken(text, p) ==
  IF p = NULL \/ text[ConsumeWhitespace(text, p)] = NUL THEN NoToken
  ELSE LET b == ConsumeWhitespace(text, p) IN Token(b, EndOfToken(text, b))

Length(t) == t.end - t.begin

\* fxmy_fstrnicmp(token, keyword, length of the token) == 0: the token is a
\* prefix of the keyword, as NULL, of length 0, is too.
Matches_Shorter(text, t, keyword) ==     \* seeded fault: < for <=
  /\ Length(t) < Len(keyword)
  /\ \A k \in 1 .. Length(t) : text[t.begin + k - 1] = keyword[k]
Matches(text, t, keyword) ==
  /\ Length(t) <= Len(keyword)
  /\ \A k \in 1 .. Length(t) : text[t.begin + k - 1] = keyword[k]

\* fxmy_fstristr.
Contains(text, needle) ==
  \E p \in DOMAIN text : \A k \in DOMAIN needle :
    p + k - 1 \in DOMAIN text /\ text[p + k - 1] = needle[k]
=============================================================================
