------------------------------- MODULE QueryText -------------------------------
(***************************************************************************)
(* The text of a query on its way to SQL Server: fxmy_handle_query(),      *)
(* fxmy_describe(), fxmy_show_tables() and fxmy_rearrange_limit() of       *)
(* fxmy_query.c.  A step is the choice of a branch, one iteration of a     *)
(* scanning loop, or what follows the loop.                                *)
(*                                                                         *)
(* The array wide_query has one place more than the text has characters,   *)
(* for its terminator.  A write at a position that the array does not have *)
(* adds the position to the domain.                                        *)
(***************************************************************************)
EXTENDS Tokenizer

CONSTANTS
  Character,      \* the characters that a text is made of, which NUL is not
  Queries,        \* the texts of queries, as sequences of characters
  Selects,        \* statements that some of the queries are made of
  Stray,          \* what may lie behind a block of the heap, up to a NUL
  DescribeRoom    \* 1024: the characters of the array in fxmy_describe

SET_NAMES   == <<"s", "e", "t", " ", "n", "a", "m", "e", "s">>
UTF8        == <<"u", "t", "f", "8">>
DESCRIBE    == <<"d", "e", "s", "c", "r", "i", "b", "e">>
SHOW_TABLES == <<"s", "h", "o", "w", " ", "t", "a", "b", "l", "e", "s">>
LIKE        == <<"l", "i", "k", "e">>
SELECT      == <<"s", "e", "l", "e", "c", "t">>
LIMIT       == <<"l", "i", "m", "i", "t">>
TOP         == <<"t", "o", "p", " ", " ">>
SpColumns   == 11                 \* the length of "sp_columns "

ASSUME QueryTextAssumption ==
  /\ NUL \notin Character /\ Blank \in Character
  /\ {LIKE, SELECT, LIMIT, TOP} \subseteq Seq(Character)
  /\ Queries \subseteq Seq(Character)
  /\ Stray \subseteq Seq(Character) /\ Stray # {}
  /\ \A c \in Selects : {c.body, c.number, c.rest} \subseteq Seq(Character)
  /\ DescribeRoom \in Nat /\ DescribeRoom > SpColumns

VARIABLES
  query,          \* the text received
  text,           \* wide_query
  pc,
  position,       \* where the loop looks for the next token
  select_begin,
  next_token_after_select,
  clause,         \* the LIMIT token, or the wildcard behind LIKE
  number,         \* the token behind LIMIT
  sent            \* the text given to SQLExecDirect
found == <<select_begin, next_token_after_select, clause, number>>
vars  == <<query, text, pc, position, found, sent>>

Init ==
  /\ query \in Queries
  /\ text = Array(query)
  /\ pc = "dispatch"
  /\ position = 0
  /\ select_begin = NULL
  /\ next_token_after_select = NULL
  /\ clause = NoToken
  /\ number = NoToken
  /\ sent = <<>>

Goto(to)  == pc' = to
Characters(b, e) == [k \in 1 .. e - b |-> text[b + k - 1]]

-----------------------------------------------------------------------------
(* fxmy_handle_query: the branch is found by what the text contains, in    *)
(* this order, wherever it stands.                                         *)

IsSetNames   == Contains(text, SET_NAMES)
IsDescribe   == ~IsSetNames /\ Contains(text, DESCRIBE)
IsShowTables == ~IsSetNames /\ ~Contains(text, DESCRIBE) /\ Contains(text, SHOW_TABLES)
IsStatement  == ~IsSetNames /\ ~Contains(text, DESCRIBE) /\ ~Contains(text, SHOW_TABLES)
HasLimit     == Contains(text, Append(LIMIT, Blank))

SetNames ==
  /\ pc = "dispatch" /\ IsSetNames
  /\ Goto(IF Contains(text, UTF8) THEN "answered" ELSE "verify")
  /\ UNCHANGED <<query, text, position, found, sent>>

ShowTables ==
  /\ pc = "dispatch" /\ IsShowTables
  /\ Goto("like")
  /\ UNCHANGED <<query, text, position, found, sent>>

Limit ==
  /\ pc = "dispatch" /\ IsStatement /\ HasLimit
  /\ Goto("limit")
  /\ UNCHANGED <<query, text, position, found, sent>>

Statement ==
  /\ pc = "dispatch" /\ IsStatement /\ ~HasLimit
  /\ Goto("sent")
  /\ sent' = Characters(0, EndOf(text))
  /\ UNCHANGED <<query, text, position, found>>

-----------------------------------------------------------------------------
(* fxmy_describe: what follows the first token is the table's name, all of *)
(* it, whatever the first token is.                                        *)

DescribeFits(n) == SpColumns + n < DescribeRoom

Describe ==
  /\ pc = "dispatch" /\ IsDescribe
  /\ LET table == NextToken(text, NextToken(text, 0).end)
         name  == Characters(table.begin, EndOf(text))
     IN  \/ table = NoToken /\ Goto("null") /\ UNCHANGED sent
         \/ table # NoToken /\ DescribeFits(Len(name)) /\ Goto("sent") /\ sent' = name
         \/ table # NoToken /\ ~DescribeFits(Len(name)) /\ Goto("overrun") /\ UNCHANGED sent
  /\ UNCHANGED <<query, text, position, found>>

-----------------------------------------------------------------------------
(* fxmy_show_tables.                                                       *)

ScanLike ==
  /\ pc = "like"
  /\ LET token == NextToken(text, position)
     IN  \/ /\ token = NoToken
            /\ Goto("like_done") /\ UNCHANGED <<position, clause>>
         \/ /\ token # NoToken /\ Matches(text, token, LIKE)
            /\ Goto("like_done") /\ clause' = NextToken(text, token.end)
            /\ UNCHANGED position
         \/ /\ token # NoToken /\ ~Matches(text, token, LIKE)
            /\ position' = token.end /\ UNCHANGED <<pc, clause>>
  /\ UNCHANGED <<query, text, select_begin, next_token_after_select, number, sent>>

\* The wildcard is copied with the one character that follows it, and the
\* copy printed as a string: it ends there if that is the terminator, and
\* behind the copy if it is not.
SendTables ==
  /\ pc = "like_done"
  /\ Goto("sent")
  /\ \/ clause = NoToken /\ sent' = <<>>
     \/ /\ clause # NoToken /\ text[clause.end] = NUL
        /\ sent' = Characters(clause.begin, clause.end)
     \/ /\ clause # NoToken /\ text[clause.end] # NUL
        /\ \E stray \in Stray : sent' = Characters(clause.begin, clause.end + 1) \o stray
  /\ UNCHANGED <<query, text, position, found>>
-----------------------------------------------------------------------------
(* fxmy_rearrange_limit.                                                   *)

\* The end of the text is a token of length 0, so it ends the loop as a
\* LIMIT does.  The token behind SELECT may be LIMIT itself.
NextPosition_Same(token) == position     \* seeded fault: fxmy_query.c 287 dropped
NextPosition(token) == token.end

ScanLimit ==
  /\ pc = "limit"
  /\ LET token    == NextToken(text, position)
         isSelect == select_begin = NULL /\ Matches(text, token, SELECT)
         isAfter  == ~isSelect /\ next_token_after_select = NULL /\ select_begin # NULL
     IN  /\ select_begin' = IF isSelect THEN token.begin ELSE select_begin
         /\ next_token_after_select' =
              IF isAfter THEN token.begin ELSE next_token_after_select
         /\ \/ /\ Matches(text, token, LIMIT)
               /\ Goto("limit_done") /\ clause' = token
               /\ number' = NextToken(text, token.end)
               /\ UNCHANGED position
            \/ /\ ~Matches(text, token, LIMIT)
               /\ position' = NextPosition(token)
               /\ UNCHANGED <<pc, clause, number>>
  /\ UNCHANGED <<query, text, sent>>

Reject ==
  /\ pc = "limit_done" /\ clause = NoToken
  /\ Goto("rejected")
  /\ UNCHANGED <<query, text, position, found, sent>>

\* Without a token behind SELECT everything up to the LIMIT is moved to
\* NULL; without a number the shift is computed from NULL, which does not
\* matter if there is nothing to shift.
ShiftsNull ==
  \/ next_token_after_select = NULL
  \/ number = NoToken /\ next_token_after_select < clause.begin

RearrangeNull ==
  /\ pc = "limit_done" /\ clause # NoToken
  /\ ShiftsNull
  /\ Goto("null")
  /\ UNCHANGED <<query, text, position, found, sent>>

TopEnd == next_token_after_select + Len(TOP) + Length(number)

ShiftWidth_NumberOnly == number.end - number.begin    \* seeded fault: num_begin for limit_begin
ShiftWidth_Past == number.end + 1 - clause.begin      \* seeded fault: one behind num_end
ShiftWidth == number.end - clause.begin

\* The text from `next_token_after_select' to the LIMIT, moved to end where
\* the number ended; then, over it, TOP, the number and a blank.
Rearranged ==
  LET next  == next_token_after_select
      shift == ShiftWidth
      moved == next + shift .. clause.begin + shift - 1
  IN  [p \in DOMAIN text \cup (next .. TopEnd) \cup moved |->
         IF p \in next .. next + Len(TOP) - 1 THEN TOP[p - next + 1]
         ELSE IF p \in next + Len(TOP) .. TopEnd - 1
              THEN text[p - next - Len(TOP) + number.begin]
         ELSE IF p = TopEnd THEN Blank
         ELSE IF p \in moved THEN text[p - shift]
         ELSE text[p]]

Rearrange ==
  /\ pc = "limit_done" /\ clause # NoToken
  /\ ~ShiftsNull
  /\ text' = Rearranged
  /\ \/ /\ DOMAIN text' = DOMAIN text /\ \E p \in DOMAIN text' : text'[p] = NUL
        /\ Goto("sent")
        /\ sent' = [k \in 1 .. EndOf(text') |-> text'[k - 1]]
     \/ /\ ~(DOMAIN text' = DOMAIN text /\ \E p \in DOMAIN text' : text'[p] = NUL)
        /\ Goto("overrun")
        /\ UNCHANGED sent
  /\ UNCHANGED <<query, position, found>>

Next ==
  \/ SetNames \/ Statement \/ Describe
  \/ ShowTables \/ ScanLike \/ SendTables
  \/ Limit \/ ScanLimit \/ Reject \/ RearrangeNull \/ Rearrange

Spec == Init /\ [][Next]_vars

-----------------------------------------------------------------------------
(* Properties.                                                             *)

Final     == {"answered", "verify", "null", "overrun", "rejected", "sent"}
Position  == 0 .. Len(query)
TokenType == {NoToken} \cup {t \in [begin : Position, end : Position] : t.begin < t.end}

\* No position found lies beyond the terminator, unterminated literals and
\* scans to the end included, and every token has a character.
TypeOK ==
  /\ query \in Seq(Character)
  /\ Position \subseteq DOMAIN text
  /\ pc \in {"dispatch", "like", "like_done", "limit", "limit_done"} \cup Final
  /\ position \in Position
  /\ select_begin \in Position \cup {NULL}
  /\ next_token_after_select \in Position \cup {NULL}
  /\ clause \in TokenType /\ number \in TokenType
  /\ sent \in Seq(Character)

\* A query is rejected as unbounded only if no LIMIT stands as a word of its
\* own before the first quote, and it is rejected unchanged.
RejectsOnlyWithoutLimit ==
  pc = "rejected" =>
    /\ text = Array(query)
    /\ \A p \in 1 .. Len(query) - Len(LIMIT) :
         (\A k \in DOMAIN LIMIT : text[p + k - 1] = LIMIT[k]) =>
           \/ text[p - 1] # Blank
           \/ text[p + Len(LIMIT)] \notin Separators
           \/ \E q \in 0 .. p - 1 : text[q] \in Quotes

\* The clause is spelled out and its number follows after one blank.
Regular ==
  /\ Length(clause) = Len(LIMIT)
  /\ number # NoToken /\ number.begin = clause.end + 1

Cut(b, e) == SubSeq(query, b + 1, e)

\* A regular LIMIT and its number become a TOP and a number behind SELECT:
\* though they are moved in place, in three overlapping copies, the array is
\* not overrun, and no character of the rest of the query is lost, repeated
\* or changed.
Rearranges ==
  pc \in Final /\ next_token_after_select # NULL /\ Regular =>
    /\ pc = "sent"
    /\ sent = Cut(0, next_token_after_select)
               \o TOP \o Cut(number.begin, number.end) \o <<Blank>>
               \o Cut(next_token_after_select, clause.begin)
               \o Cut(number.end, Len(query))

\* Nothing but a DESCRIBE that is too long as a whole overruns the array of
\* fxmy_describe, whatever is cut off it, and nothing but a LIMIT that, with
\* what separates it from its number, is shorter than TOP and a blank overruns
\* the text or its terminator in fxmy_rearrange_limit.
OverrunsOnlyWithoutRoom ==
  pc = "overrun" =>
    IF clause = NoToken THEN Len(query) > DescribeRoom - SpColumns
    ELSE number = NoToken \/ number.begin - clause.begin <= Len(TOP)

\* A token of a text, as whoever writes the text sees it: a literal ends with
\* the next quote of its kind that has no backslash before it, a word before
\* a separator.
Closes(w, b, e) == w[e] = w[b] /\ w[e - 1] # Backslash
IsLiteral(w, b, e) ==
  b < e /\ Closes(w, b, e) /\ \A k \in b + 1 .. e - 1 : ~Closes(w, b, k)
IsWord(w, b, e) ==
  /\ \A k \in b + 1 .. e : w[k] \notin Separators
  /\ e = Len(w) \/ w[e + 1] \in Separators
IsToken(w, t) ==
  IF w[t.begin + 1] \in Quotes THEN IsLiteral(w, t.begin + 1, t.end)
  ELSE w[t.begin + 1] # Blank /\ IsWord(w, t.begin + 1, t.end)

\* The text is made of these tokens and of blanks.
MadeOf(w, tokens) ==
  /\ tokens \subseteq [begin : 0 .. Len(w), end : 0 .. Len(w)]
  /\ \A t \in tokens : t.begin < t.end /\ IsToken(w, t)
  /\ \A t, u \in tokens : t = u \/ t.end <= u.begin \/ u.end <= t.begin
  /\ \A k \in DOMAIN w : w[k] # Blank => \E t \in tokens : k \in t.begin + 1 .. t.end

SelectLimit(c, gap) ==
  SELECT \o <<Blank>> \o c.body \o <<Blank>> \o LIMIT \o gap \o c.number \o c.rest
SelectTop(c) ==
  SELECT \o <<Blank>> \o TOP \o c.number \o <<Blank>> \o c.body \o <<Blank>> \o c.rest

Gaps == {<<Blank>>, <<Blank, Blank>>}

\* Each of Selects is a statement, whose tokens are known.
ASSUME SelectsAssumption ==
  \A c \in Selects :
    /\ MadeOf(c.body, c.tokens) /\ \E t \in c.tokens : t.begin = 0
    /\ \A k \in DOMAIN c.number : c.number[k] \notin Separators \cup Quotes
    /\ c.number # <<>> => c.number[1] # LIMIT[1]
    /\ c.rest # <<>> => c.rest[1] \in Separators
    /\ \A gap \in Gaps, keyword \in {SET_NAMES, DESCRIBE, SHOW_TABLES} :
         ~Contains(Array(SelectLimit(c, gap)), keyword)

\* The token is LIMIT, or LIMIT cut short.
Abbreviates(w, t) ==
  \E n \in 1 .. Len(LIMIT) : SubSeq(w, t.begin + 1, t.end) = SubSeq(LIMIT, 1, n)

\* There is a number, one blank before it, and no token taken for LIMIT.
Plain(c, gap) ==
  /\ c.number # <<>> /\ gap = <<Blank>>
  /\ \A t \in c.tokens : ~Abbreviates(c.body, t)

\* Statements with a LIMIT, and what they stand for.
Statements ==
  {[limit |-> SelectLimit(c, gap), top |-> SelectTop(c), plain |-> Plain(c, gap)] :
     c \in Selects, gap \in Gaps}

\* What the comments at fxmy_query.c 221-225 and 384 say, and how far it is
\* true: among the words, literals and separators of a statement the scan
\* finds the right LIMIT, its number and the place to put them, so that the
\* SELECT TOP is sent that the statement stands for, if and only if it is
\* plain in the sense above.
SelectLimitBecomesTop ==
  pc \in Final => \A s \in Statements :
    query = s.limit => ((pc = "sent" /\ sent = s.top) <=> s.plain)

\* The scans come to an end, although their loops have no bound and leave a
\* text only by a match: an iteration that is not the last leaves behind it
\* at least one character, and none goes beyond the terminator (TypeOK).
ScanAdvances ==
  [][pc' = pc /\ pc \in {"like", "limit"} => position' > position]_vars

-----------------------------------------------------------------------------
(* What a comment in the code says.                                        *)

\* fxmy_query.c 161-165: what is put into the call of sp_tables is the
\* wildcard of the SHOW TABLES.
WildcardInserted ==
  pc = "sent" /\ text = Array(query) /\ IsShowTables /\ clause # NoToken =>
    sent = Cut(clause.begin, clause.end)
=============================================================================
