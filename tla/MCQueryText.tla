----------------------------- MODULE MCQueryText -----------------------------
(***************************************************************************)
(* QueryText on texts that are put together from words.                    *)
(***************************************************************************)
EXTENDS QueryText

MCCharacter == STRING \ {NUL}
MCStray     == {<<>>, <<"x">>}

x      == <<"x", " ">>
l      == <<"l", " ">>
se     == <<"s", " ">>
lit    == <<"'", "l", "i", "m", "i", "t", " ", "5", "'", " ">>
esc    == <<"'", "a", "\\", "'", "l", "i", "m", "i", "t", " ", "1", "'", " ">>
open   == <<"'", "l", "i", "m", "i", "t", " ", "5">>
list   == <<"a", ",", " ", "b", " ">>
tail   == <<"n", "o", "l", "i", "m", "i", "t", " ">>
five   == <<"5">>
ten    == <<"1", "0", "0">>
semi   == <<";">>
or     == <<";", " ", "o", "r">>
sel    == <<"s", "e", "l", "e", "c", "t", " ">>
lim    == <<"l", "i", "m", "i", "t", " ">>
lim5   == <<"l", "i", "m", "i", "t", " ", " ", "5">>
glued  == <<"l", "i", "m", "i", "t", ",", "5">>
tab    == <<"s", "h", "o", "w", " ", "t", "a", "b", "l", "e", "s", " ">>
like   == <<"l", "i", "k", "e", " ">>
lik    == <<"l", "i", " ", "'", "a", "'", ";">>
wild   == <<"'", "a", "'">>
names  == <<"s", "e", "t", " ", "n", "a", "m", "e", "s", " ">>
utf    == <<"u", "t", "f", "8">>
desc   == <<"d", "e", "s", "c", "r", "i", "b", "e", " ">>

\* Bodies of statements and their tokens: with lists, with literals that hold
\* a LIMIT, with a longer word that ends in LIMIT, with a word that LIMIT begins
\* with, alone and behind a comma; then numbers, and what may follow.
MCBodies ==
  {[text |-> <<"x">>, tokens |-> {Token(0, 1)}],
   [text |-> list \o x, tokens |-> {Token(0, 1), Token(1, 2), Token(3, 4), Token(5, 6)}],
   [text |-> lit \o x, tokens |-> {Token(0, 9), Token(10, 11)}],
   [text |-> esc \o list,
    tokens |-> {Token(0, 12), Token(13, 14), Token(14, 15), Token(16, 17)}],
   [text |-> tail \o x, tokens |-> {Token(0, 7), Token(8, 9)}],
   [text |-> l, tokens |-> {Token(0, 1)}],
   [text |-> x \o <<"l", "i">>, tokens |-> {Token(0, 1), Token(2, 4)}],
   [text |-> x \o <<",">> \o l, tokens |-> {Token(0, 1), Token(2, 4)}]}
MCSelects ==
  {[body |-> b.text, tokens |-> b.tokens, number |-> n, rest |-> r] :
     b \in MCBodies, n \in {<<>>, five, ten}, r \in {<<>>, semi, or}}

\* Any three words, and the kinds of queries that are not SELECT.
Words == {x, l, se, lit, esc, open, tail, five, semi, sel, lim, lim5, glued}
Commands ==
  {names \o utf, names \o x, desc, desc \o x, desc \o x \o x, desc \o list \o list,
   desc \o list \o lit, <<"a", ",">> \o desc, <<"a", ",">> \o desc \o <<"x">>,
   lit \o desc, tab, tab \o like, tab \o like \o wild, tab \o like \o wild \o semi,
   tab \o lik, sel \o x, tail \o sel \o LIMIT}

MCQueries ==
  {SelectLimit(c, <<" ">>) : c \in MCSelects}
    \cup {SelectLimit(c, <<" ", " ">>) : c \in MCSelects}
    \cup {u \o v \o w : u, v, w \in Words}
    \cup {sel \o u \o v \o w : u, v, w \in Words}
    \cup Commands
=============================================================================
