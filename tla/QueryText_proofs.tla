--------------------------- MODULE QueryText_proofs ---------------------------
(***************************************************************************)
(* Proofs about QueryText and the tokenizer it uses, for every query.      *)
(***************************************************************************)
EXTENDS QueryText, NaturalsInduction, WellFoundedInduction, SequenceTheorems, TLAPS

-----------------------------------------------------------------------------
(* The least element of a set of numbers.                                  *)

Below == OpToRel(<, Nat)

LEMMA BelowWF == IsWellFoundedOn(Below, Nat)
BY NatLessThanWellFounded, Zenon DEF Below

LEMMA BelowIs ==
  ASSUME NEW x \in Nat, NEW y \in Nat, y < x
  PROVE  <<y, x>> \in Below
<1>1. <<y, x>> \in Nat \X Nat
  OBVIOUS
<1>2. QED
  BY <1>1, SMT DEF Below, OpToRel

LEMMA LeastExists ==
  ASSUME NEW S, S \subseteq Nat, S # {}
  PROVE  \E x \in S : \A y \in S : x <= y
<1>1. PICK x \in S : \A y \in S : ~(<<y, x>> \in Below)
  BY BelowWF, WFMin, Zenon
<1>2. ASSUME NEW y \in S PROVE x <= y
  <2>1. x \in Nat /\ y \in Nat
    BY Zenon
  <2>2. ~(y < x)
    BY <1>1, <2>1, BelowIs, Zenon
  <2>3. QED
    BY <2>1, <2>2, SMT
<1>3. QED
  BY <1>2, Zenon

LEMMA LeastIs ==
  ASSUME NEW S, S \subseteq Nat, S # {}
  PROVE  Least(S) \in S /\ \A q \in S : Least(S) <= q
BY LeastExists, Zenon DEF Least

-----------------------------------------------------------------------------
(* The tokenizer, on a text with one NUL, at its end.                      *)

\* What a text that was received looks like.
Received ==
  /\ query \in Seq(Character) /\ Len(query) \in Nat
  /\ DOMAIN text = Position
  /\ \A p \in 0 .. Len(query) - 1 : text[p] = query[p + 1] /\ text[p] \in Character
  /\ text[Len(query)] = NUL
  /\ EndOf(text) = Len(query)

LEMMA ArrayReceived ==
  ASSUME query \in Seq(Character), text = Array(query)
  PROVE  Received
<1>1. Len(query) \in Nat
  BY LenProperties
<1>2. DOMAIN text = Position /\ text[Len(query)] = NUL
  BY <1>1 DEF Array, Position
<1>3. ASSUME NEW p \in 0 .. Len(query) - 1
      PROVE  text[p] = query[p + 1] /\ text[p] \in Character
  <2>1. p \in 0 .. Len(query) /\ p # Len(query) /\ p + 1 \in 1 .. Len(query)
    BY <1>1
  <2>2. text[p] = query[p + 1]
    BY <2>1 DEF Array
  <2>3. query[p + 1] \in Character
    BY <2>1
  <2>4. QED
    BY <2>2, <2>3
<1> DEFINE Z == {p \in DOMAIN text : text[p] = NUL}
<1>4. Z = {Len(query)}
  <2>1. Len(query) \in Z
    BY <1>1, <1>2 DEF Position
  <2>2. ASSUME NEW p \in Z PROVE p = Len(query)
    <3>1. p \in 0 .. Len(query) /\ text[p] = NUL
      BY <1>2 DEF Position
    <3>2. p \notin 0 .. Len(query) - 1
      BY <1>3, <3>1, QueryTextAssumption
    <3>3. QED
      BY <1>1, <3>1, <3>2
  <2>3. QED
    BY <2>1, <2>2
<1>5. EndOf(text) = Len(query)
  <2>1. Z \subseteq Nat /\ Z # {}
    BY <1>1, <1>4
  <2>2. Least(Z) \in Z
    BY <2>1, LeastIs
  <2>3. EndOf(text) = Least(Z)
    BY DEF EndOf
  <2>4. QED
    BY <1>4, <2>2, <2>3
<1>6. QED
  BY <1>1, <1>2, <1>3, <1>5 DEF Received

\* A literal ends behind its quote or with the text, any other token at a
\* separator: both have a character, and end in the text.
LEMMA EndOfTokenIn ==
  ASSUME Received, NEW b \in 0 .. Len(query) - 1
  PROVE  EndOfToken(text, b) \in Position /\ EndOfToken(text, b) > b
<1> DEFINE E == Len(query)
<1>1. E \in Nat /\ EndOf(text) = E /\ text[E] = NUL
  BY DEF Received
<1>2. CASE text[b] \in Quotes
  <2> DEFINE C == {q \in b + 1 .. EndOf(text) : text[q] = text[b] /\ text[q - 1] # Backslash}
  <2>1. EndOfToken(text, b) = IF C = {} THEN EndOf(text) ELSE Least(C) + 1
    BY <1>2 DEF EndOfToken, EndOfString
  <2>2. CASE C = {}
    BY <1>1, <2>1, <2>2 DEF Position
  <2>3. CASE C # {}
    <3>1. C \subseteq Nat
      BY <1>1
    <3>2. Least(C) \in C
      BY <2>3, <3>1, LeastIs
    <3>3. Least(C) \in b + 1 .. E /\ text[Least(C)] \in Quotes
      BY <1>1, <1>2, <3>2
    <3>4. text[Least(C)] # NUL
      BY <3>3 DEF Quotes, NUL
    <3>5. Least(C) # E
      BY <1>1, <3>4
    <3> DEFINE l == Least(C)
    <3>6. l \in b + 1 .. E /\ l # E /\ EndOfToken(text, b) = l + 1
      BY <2>1, <2>3, <3>3, <3>5
    <3> HIDE DEF l, C
    <3>7. QED
      BY <1>1, <3>6 DEF Position
  <2>4. QED
    BY <2>2, <2>3
<1>3. CASE text[b] \notin Quotes
  <2> DEFINE C == {q \in b + 1 .. EndOf(text) : text[q] \in Separators}
  <2>1. EndOfToken(text, b) = Least(C)
    BY <1>3 DEF EndOfToken, EndOfWord
  <2>2. E \in C
    <3>1. text[E] \in Separators
      BY <1>1 DEF Separators
    <3>2. E \in b + 1 .. EndOf(text)
      BY <1>1
    <3>3. QED
      BY <3>1, <3>2
  <2>3. C \subseteq Nat
    BY <1>1
  <2>4. Least(C) \in C
    BY <2>2, <2>3, LeastIs
  <2>5. QED
    BY <1>1, <2>1, <2>4 DEF Position
<1>4. QED
  BY <1>2, <1>3

\* A token lies in the text, not before the position that it was looked for at.
LEMMA NextTokenIn ==
  ASSUME Received, NEW p \in Position \cup {NULL}
  PROVE  LET t == NextToken(text, p)
         IN  \/ t = NoToken
             \/ /\ t \in TokenType /\ t # NoToken /\ p # NULL
                /\ p <= t.begin /\ t.begin < t.end
                /\ t.begin \in Position /\ t.end \in Position
<1> DEFINE E == Len(query)
           b == ConsumeWhitespace(text, p)
           e == EndOfToken(text, b)
<1>1. E \in Nat /\ EndOf(text) = E /\ text[E] = NUL
  BY DEF Received
<1>2. CASE p = NULL \/ text[b] = NUL
  BY <1>2 DEF NextToken
<1>3. CASE p # NULL /\ text[b] # NUL
  <2> DEFINE S == {q \in p .. EndOf(text) : text[q] # Blank}
  <2>1. p \in Nat /\ p <= E
    BY <1>1, <1>3 DEF Position
  <2>2. E \in S
    <3>1. text[E] # Blank
      BY <1>1 DEF Blank, NUL
    <3>2. E \in p .. EndOf(text)
      BY <1>1, <2>1
    <3>3. QED
      BY <3>1, <3>2
  <2>3. S \subseteq Nat
    BY <1>1, <2>1
  <2>4. b \in S
    BY <2>2, <2>3, LeastIs DEF ConsumeWhitespace
  <2>5. b \in p .. E /\ b # E
    BY <1>1, <1>3, <2>4
  <2>6. b \in 0 .. E - 1 /\ b \in Position /\ p <= b
    BY <1>1, <2>1, <2>5 DEF Position
  <2>7. e \in Position /\ b < e
    <3>1. e \in Position /\ e > b
      BY <2>6, EndOfTokenIn
    <3>2. QED
      BY <2>6, <3>1 DEF Position
  <2>8. NextToken(text, p) = [begin |-> b, end |-> e]
    BY <1>3 DEF NextToken, Token
  <2> HIDE DEF b, e, S
  <2>9. [begin |-> b, end |-> e] \in TokenType /\ [begin |-> b, end |-> e] # NoToken
    BY <2>6, <2>7 DEF TokenType, NoToken, Token, NULL, Position
  <2>10. QED
    BY <1>3, <2>6, <2>7, <2>8, <2>9
<1>4. QED
  BY <1>2, <1>3

LEMMA NoTokenMatches ==
  ASSUME NEW s \in Seq(Character)
  PROVE  Matches(text, NoToken, s)
<1>1. Length(NoToken) = 0 /\ Len(s) \in Nat
  BY LenProperties DEF Length, NoToken, Token, NULL
<1>2. QED
  BY <1>1 DEF Matches

LEMMA KeywordsAre ==
  /\ LIKE \in Seq(Character) /\ SELECT \in Seq(Character) /\ LIMIT \in Seq(Character)
  /\ Len(LIMIT) = 5
  /\ TOP \in Seq(Character) /\ Len(TOP) = 5
BY QueryTextAssumption DEF LIMIT, TOP

\* What is copied from the text are characters.
LEMMA CharactersAre ==
  ASSUME Received, NEW b \in Position, NEW e \in Nat, b <= e, e <= Len(query)
  PROVE  Characters(b, e) \in Seq(Character)
<1>1. b \in Nat /\ Len(query) \in Nat
  BY DEF Received, Position
<1>2. ASSUME NEW k \in 1 .. e - b PROVE text[b + k - 1] \in Character
  <2>1. b + k - 1 \in 0 .. Len(query) - 1
    BY <1>1
  <2>2. QED
    BY <2>1 DEF Received
<1>3. e - b \in Nat
  BY <1>1
<1>4. QED
  BY <1>2, <1>3 DEF Characters

-----------------------------------------------------------------------------
(* What the properties rest on.                                            *)

\* The text is rewritten by the last step only.
Untouched == pc \notin {"sent", "overrun"} => text = Array(query)

\* What is found, is found in this order.
Ordered ==
  /\ pc \in {"dispatch", "like", "like_done"} => next_token_after_select = NULL
  /\ pc = "limit" /\ next_token_after_select # NULL => next_token_after_select <= position
  /\ pc = "limit_done" /\ next_token_after_select # NULL /\ clause # NoToken =>
       next_token_after_select <= clause.begin



LEMMA TokensAre ==
  ASSUME NEW t \in TokenType, Len(query) \in Nat
  PROVE  /\ t = NoToken \/ (t.begin \in Position /\ t.end \in Position /\ t.begin < t.end)
         /\ t.begin \in Position \cup {NULL} /\ t.end \in Position \cup {NULL}
BY DEF TokenType, NoToken, Token, NULL, Position

LEMMA TypeInit ==
  ASSUME Init
  PROVE  TypeOK
<1>1. query \in Seq(Character) /\ text = Array(query)
  BY QueryTextAssumption DEF Init
<1>2. Received
  BY <1>1, ArrayReceived
<1>3. Len(query) \in Nat /\ DOMAIN text = Position
  BY <1>2 DEF Received
<1>4. NoToken \in TokenType /\ 0 \in Position
  BY <1>3 DEF TokenType, Position
<1>5. <<>> \in Seq(Character)
  OBVIOUS
<1>6. QED
  BY <1>1, <1>3, <1>4, <1>5 DEF Init, TypeOK

-----------------------------------------------------------------------------
(* Every step keeps the types.                                             *)

LEMMA TypeKeep ==
  ASSUME TypeOK, UNCHANGED vars
  PROVE  TypeOK'
BY DEF TypeOK, vars, found, Position, TokenType

\* The steps that leave the text and what was found, and send characters.
LEMMA TypeSend ==
  ASSUME TypeOK, pc' \in {"like", "limit"} \cup Final,
         UNCHANGED <<query, text, position, found>>,
         sent' \in Seq(Character)
  PROVE  TypeOK'
BY DEF TypeOK, found, Position, TokenType, Final

LEMMA TypeScanLike ==
  ASSUME TypeOK, Received, ScanLike
  PROVE  TypeOK' /\ (pc' = pc => position' > position)
<1> DEFINE token == NextToken(text, position)
<1>1. Len(query) \in Nat /\ position \in Position
  BY DEF Received, TypeOK
<1>2. \/ token = NoToken
      \/ /\ token \in TokenType /\ token # NoToken /\ position <= token.begin
         /\ token.begin < token.end /\ token.begin \in Position /\ token.end \in Position
  BY <1>1, NextTokenIn
<1>3. \/ token = NoToken /\ pc' = "like_done" /\ UNCHANGED <<position, clause>>
      \/ /\ token # NoToken
         /\ pc' = "like_done" /\ clause' = NextToken(text, token.end) /\ UNCHANGED position
      \/ token # NoToken /\ position' = token.end /\ UNCHANGED <<pc, clause>>
  BY DEF ScanLike, Goto
<1>4. token # NoToken => NextToken(text, token.end) \in TokenType
  <2>1. ASSUME token # NoToken PROVE token.end \in Position \cup {NULL}
    BY <1>2, <2>1
  <2>2. NoToken \in TokenType
    BY DEF TokenType
  <2>3. QED
    BY <2>1, <2>2, NextTokenIn
<1>5. pc = "like" /\ UNCHANGED <<query, text, select_begin, next_token_after_select, number, sent>>
  BY DEF ScanLike
<1> HIDE DEF token
<1>6. pc' \in {"like", "like_done"} /\ position' \in Position /\ clause' \in TokenType
  BY <1>1, <1>2, <1>3, <1>4, <1>5 DEF TypeOK
<1>7. TypeOK'
  BY <1>5, <1>6 DEF TypeOK, Position, TokenType
<1>8. pc' = pc => position' > position
  <2>1. ASSUME pc' = pc PROVE position' > position
    <3>1. token # NoToken /\ position' = token.end
      BY <1>3, <1>5, <2>1
    <3>2. QED
      BY <1>1, <1>2, <3>1 DEF Position
  <2>2. QED
    BY <2>1
<1>9. QED
  BY <1>7, <1>8

LEMMA TypeScanLimit ==
  ASSUME TypeOK, Received, Ordered, ScanLimit
  PROVE  TypeOK' /\ Ordered' /\ (pc' = pc => position' > position)
<1> DEFINE token == NextToken(text, position)
<1>1. Len(query) \in Nat /\ position \in Position
  BY DEF Received, TypeOK
<1>2. \/ token = NoToken
      \/ /\ token \in TokenType /\ token # NoToken /\ position <= token.begin
         /\ token.begin < token.end /\ token.begin \in Position /\ token.end \in Position
  BY <1>1, NextTokenIn
<1>3. token.begin \in Position \cup {NULL} /\ token.end \in Position \cup {NULL}
      /\ token \in TokenType
  BY <1>2 DEF NoToken, Token, TokenType
<1>4. pc = "limit" /\ UNCHANGED <<query, text, sent>>
  BY DEF ScanLimit
<1>5. select_begin' \in {token.begin, select_begin}
  BY DEF ScanLimit
<1>6. next_token_after_select' \in {token.begin, next_token_after_select}
  BY DEF ScanLimit
<1>7. \/ /\ pc' = "limit_done" /\ clause' = token
         /\ number' = NextToken(text, token.end) /\ position' = position
      \/ /\ token # NoToken /\ position' = token.end
         /\ UNCHANGED <<pc, clause, number>>
  <2>1. Matches(text, NoToken, LIMIT)
    BY KeywordsAre, NoTokenMatches
  <2>2. \/ /\ Matches(text, token, LIMIT)
           /\ pc' = "limit_done" /\ clause' = token
           /\ number' = NextToken(text, token.end) /\ position' = position
        \/ /\ ~Matches(text, token, LIMIT) /\ position' = token.end
           /\ UNCHANGED <<pc, clause, number>>
    BY DEF ScanLimit, NextPosition, Goto
  <2>3. QED
    BY <2>1, <2>2, Zenon
<1>8. NextToken(text, token.end) \in TokenType
  BY <1>3, NextTokenIn DEF TokenType
<1> HIDE DEF token
<1>9. /\ pc' \in {"limit", "limit_done"} /\ position' \in Position
      /\ clause' \in TokenType /\ number' \in TokenType
  BY <1>1, <1>2, <1>3, <1>4, <1>7, <1>8 DEF TypeOK
<1>10. /\ select_begin' \in Position \cup {NULL}
       /\ next_token_after_select' \in Position \cup {NULL}
  BY <1>3, <1>5, <1>6 DEF TypeOK
<1>11. TypeOK'
  BY <1>4, <1>9, <1>10 DEF TypeOK, Position, TokenType
<1>12. Ordered'
  <2>1. ASSUME pc' = "limit", next_token_after_select' # NULL
        PROVE  next_token_after_select' <= position'
    <3>1. token # NoToken /\ position' = token.end
      BY <1>4, <1>7, <2>1
    <3>2. CASE next_token_after_select' = token.begin
      BY <1>1, <1>2, <3>1, <3>2 DEF Position
    <3>3. CASE next_token_after_select' = next_token_after_select
      <4>1. next_token_after_select <= position
        BY <1>4, <2>1, <3>3 DEF Ordered
      <4>2. next_token_after_select \in Int
        BY <1>1 DEF TypeOK, Position, NULL
      <4>3. QED
        BY <1>1, <1>2, <3>1, <3>3, <4>1, <4>2 DEF Position
    <3>4. QED
      BY <1>6, <3>2, <3>3
  <2>2. ASSUME pc' = "limit_done", next_token_after_select' # NULL, clause' # NoToken
        PROVE  next_token_after_select' <= clause'.begin
    <3>1. clause' = token /\ token # NoToken
      BY <1>4, <1>7, <2>2
    <3>2. CASE next_token_after_select' = token.begin
      BY <1>1, <1>2, <3>1, <3>2 DEF Position
    <3>3. CASE next_token_after_select' = next_token_after_select
      <4>1. next_token_after_select <= position
        BY <1>4, <2>2, <3>3 DEF Ordered
      <4>2. next_token_after_select \in Int
        BY <1>1 DEF TypeOK, Position, NULL
      <4>3. QED
        BY <1>1, <1>2, <3>1, <3>3, <4>1, <4>2 DEF Position
    <3>4. QED
      BY <1>6, <3>2, <3>3
  <2>3. pc' \notin {"dispatch", "like", "like_done"}
    BY <1>9
  <2>4. QED
    BY <2>1, <2>2, <2>3 DEF Ordered
<1>13. pc' = pc => position' > position
  <2>1. ASSUME pc' = pc PROVE position' > position
    <3>1. token # NoToken /\ position' = token.end
      BY <1>4, <1>7, <2>1
    <3>2. QED
      BY <1>1, <1>2, <3>1 DEF Position
  <2>2. QED
    BY <2>1
<1>14. QED
  BY <1>11, <1>12, <1>13

-----------------------------------------------------------------------------
(* The rewritten text.                                                     *)

Rewritten ==
  DOMAIN Rearranged = DOMAIN text /\ \E p \in DOMAIN Rearranged : Rearranged[p] = NUL

AtTop(p)    == p \in next_token_after_select .. next_token_after_select + Len(TOP) - 1
AtNumber(p) == p \in next_token_after_select + Len(TOP) .. TopEnd - 1
AtBlank(p)  == p = TopEnd
AtMoved(p)  == p \in next_token_after_select + ShiftWidth .. clause.begin + ShiftWidth - 1

\* Where the parts of it come from.
LEMMA RearrangedIs ==
  ASSUME NEW p \in DOMAIN Rearranged
  PROVE  /\ AtTop(p) => Rearranged[p] = TOP[p - next_token_after_select + 1]
         /\ ~AtTop(p) /\ AtNumber(p) =>
              Rearranged[p] = text[p - next_token_after_select - Len(TOP) + number.begin]
         /\ ~AtTop(p) /\ ~AtNumber(p) /\ AtBlank(p) => Rearranged[p] = Blank
         /\ ~AtTop(p) /\ ~AtNumber(p) /\ ~AtBlank(p) /\ AtMoved(p) =>
              Rearranged[p] = text[p - ShiftWidth]
         /\ ~AtTop(p) /\ ~AtNumber(p) /\ ~AtBlank(p) /\ ~AtMoved(p) =>
              Rearranged[p] = text[p]
BY DEF Rearranged, AtTop, AtNumber, AtBlank, AtMoved

LEMMA RearrangedDomain ==
  DOMAIN Rearranged = DOMAIN text
    \cup (next_token_after_select .. TopEnd)
    \cup (next_token_after_select + ShiftWidth .. clause.begin + ShiftWidth - 1)
BY DEF Rearranged

\* What can be moved: the guards of the step, in numbers.
LEMMA Movable ==
  ASSUME TypeOK, Received, Ordered, pc = "limit_done", clause # NoToken, ~ShiftsNull
  PROVE  /\ next_token_after_select \in Position /\ clause.begin \in Position
         /\ next_token_after_select <= clause.begin
         /\ \/ /\ number.begin \in Position /\ number.end \in Position
               /\ number.begin < number.end /\ number # NoToken
            \/ number = NoToken /\ number.begin = -1 /\ number.end = -1
<1>1. Len(query) \in Nat /\ clause \in TokenType /\ number \in TokenType
  BY DEF Received, TypeOK
<1>2. clause.begin \in Position
  BY <1>1, TokensAre
<1>3. number # NoToken =>
        number.begin \in Position /\ number.end \in Position /\ number.begin < number.end
  BY <1>1, TokensAre
<1>4. number = NoToken => number.begin = -1 /\ number.end = -1
  BY DEF NoToken, Token, NULL
<1>5. next_token_after_select \in Position
  BY DEF TypeOK, ShiftsNull
<1>6. next_token_after_select <= clause.begin
  BY DEF Ordered, ShiftsNull
<1>7. QED
  BY <1>2, <1>3, <1>4, <1>5, <1>6

LEMMA RearrangedInText ==
  ASSUME TypeOK, Received, Ordered, pc = "limit_done", clause # NoToken, ~ShiftsNull,
         NEW p \in Position
  PROVE  /\ p \in DOMAIN Rearranged /\ Rearranged[p] \in Character \cup {NUL}
         /\ Rearranged[p] = NUL => p = Len(query)
<1> DEFINE n == next_token_after_select
           b == clause.begin
           nb == number.begin
           ne == number.end
<1>1. Len(query) \in Nat /\ DOMAIN text = Position
  BY DEF Received
<1>2. /\ n \in Nat /\ b \in Nat /\ n <= b /\ b <= Len(query)
      /\ \/ nb \in Nat /\ ne \in Nat /\ nb < ne /\ ne <= Len(query) /\ number # NoToken
         \/ number = NoToken /\ nb = -1 /\ ne = -1
  BY <1>1, Movable DEF Position
<1>3. /\ \A q \in 0 .. Len(query) - 1 : text[q] \in Character
      /\ text[Len(query)] = NUL /\ NUL \notin Character
  BY QueryTextAssumption DEF Received
<1>4. p \in DOMAIN Rearranged
  BY <1>1, RearrangedDomain
<1>5. Len(TOP) = 5 /\ TOP \in Seq(Character)
  BY KeywordsAre
<1>6. TopEnd = n + 5 + (ne - nb) /\ ShiftWidth = ne - b
  BY <1>5 DEF TopEnd, ShiftWidth, Length
<1>7. p \in Nat /\ Blank \in Character
  BY <1>1, QueryTextAssumption DEF Position
<1>8. n = next_token_after_select /\ nb = number.begin /\ b = clause.begin
  OBVIOUS
<1> HIDE DEF n, b, nb, ne
<1>9. CASE AtTop(p)
  <2>1. p - n + 1 \in 1 .. Len(TOP)
    BY <1>2, <1>5, <1>7, <1>8, <1>9 DEF AtTop
  <2>2. TOP[p - n + 1] \in Character
    BY <1>5, <2>1, ElementOfSeq
  <2>3. QED
    BY <1>3, <1>4, <1>8, <1>9, <2>2, RearrangedIs
<1>10. CASE ~AtTop(p) /\ AtNumber(p)
  <2>1. p - n - Len(TOP) + nb \in 0 .. Len(query) - 1
    <3>1. p \in n + 5 .. n + 5 + (ne - nb) - 1
      <4>1. p \in n + Len(TOP) .. TopEnd - 1
        BY <1>8, <1>10 DEF AtNumber
      <4>2. n \in Nat /\ nb \in Int /\ ne \in Int
        BY <1>2
      <4>3. Len(TOP) = 5 /\ TopEnd = n + 5 + (ne - nb)
        BY <1>5, <1>6
      <4>4. QED
        BY <1>7, <4>1, <4>2, <4>3
    <3>2. nb \in Nat /\ ne \in Nat /\ ne <= Len(query)
      BY <1>1, <1>2, <1>7, <3>1
    <3>3. p - n - 5 + nb \in 0 .. Len(query) - 1
      BY <1>1, <1>2, <1>7, <3>1, <3>2
    <3>4. QED
      BY <1>5, <3>3
  <2>2. text[p - n - Len(TOP) + nb] \in Character
    BY <1>3, <2>1
  <2>3. QED
    BY <1>3, <1>4, <1>8, <1>10, <2>2, RearrangedIs
<1>11. CASE ~AtTop(p) /\ ~AtNumber(p) /\ AtBlank(p)
  BY <1>3, <1>4, <1>7, <1>11, RearrangedIs
<1>12. CASE ~AtTop(p) /\ ~AtNumber(p) /\ ~AtBlank(p) /\ AtMoved(p)
  <2>1. p - ShiftWidth \in 0 .. Len(query) - 1
    <3>1. p \in n + (ne - b) .. b + (ne - b) - 1
      BY <1>6, <1>8, <1>12, Zenon DEF AtMoved
    <3>2. ne \in Int
      BY <1>2
    <3>3. p - (ne - b) \in 0 .. Len(query) - 1
      BY <1>1, <1>2, <1>7, <3>1, <3>2
    <3>4. QED
      BY <1>6, <3>3
  <2>2. text[p - ShiftWidth] \in Character
    BY <1>3, <2>1
  <2>3. QED
    BY <1>3, <1>4, <1>12, <2>2, RearrangedIs
<1>13. CASE ~AtTop(p) /\ ~AtNumber(p) /\ ~AtBlank(p) /\ ~AtMoved(p)
  <2>1. p = Len(query) \/ p \in 0 .. Len(query) - 1
    BY <1>1, <1>7 DEF Position
  <2>2. Rearranged[p] = text[p]
    BY <1>4, <1>13, RearrangedIs
  <2>3. QED
    BY <1>3, <1>4, <2>1, <2>2
<1>14. QED
  BY <1>9, <1>10, <1>11, <1>12, <1>13

\* The clause is regular, and its number follows.
RegularNow ==
  /\ TypeOK /\ Received /\ Ordered /\ pc = "limit_done" /\ clause # NoToken
  /\ ~ShiftsNull /\ Regular

LEMMA RegularIs ==
  ASSUME RegularNow
  PROVE  LET n == next_token_after_select
             b == clause.begin
             nb == number.begin
             ne == number.end
             E == Len(query)
         IN  /\ {n, b, nb, ne, E} \subseteq Nat
             /\ n <= b /\ nb = b + 6 /\ nb < ne /\ ne <= E
             /\ TopEnd = n + 5 + (ne - nb) /\ ShiftWidth = ne - b
<1>1. Len(query) \in Nat /\ clause \in TokenType /\ Len(LIMIT) = 5 /\ Len(TOP) = 5
  BY KeywordsAre DEF RegularNow, Received, TypeOK
<1>2. clause.begin \in Position /\ clause.end \in Position
  BY <1>1, TokensAre DEF RegularNow
<1>3. number # NoToken /\ number.begin = clause.end + 1
      /\ clause.end - clause.begin = 5
  BY <1>1 DEF RegularNow, Regular, Length
<1>4. /\ next_token_after_select \in Position /\ next_token_after_select <= clause.begin
      /\ number.begin \in Position /\ number.end \in Position /\ number.begin < number.end
  BY <1>3, Movable DEF RegularNow
<1>5. /\ TopEnd = next_token_after_select + 5 + (number.end - number.begin)
      /\ ShiftWidth = number.end - clause.begin
  BY <1>1 DEF TopEnd, ShiftWidth, Length
<1>6. /\ next_token_after_select \in Nat /\ clause.begin \in Nat
      /\ number.begin \in Nat /\ number.end \in Nat /\ number.end <= Len(query)
      /\ clause.end \in Nat
  BY <1>1, <1>2, <1>4 DEF Position
<1>7. number.begin = clause.begin + 6
  BY <1>3, <1>6
<1>8. QED
  BY <1>1, <1>4, <1>5, <1>6, <1>7

LEMMA CutIs ==
  ASSUME Received, NEW b \in Nat, NEW e \in Nat, b <= e, e <= Len(query)
  PROVE  /\ Cut(b, e) \in Seq(Character) /\ Len(Cut(b, e)) = e - b
         /\ \A k \in 1 .. e - b : Cut(b, e)[k] = text[b + k - 1]
<1>1. query \in Seq(Character) /\ Len(query) \in Nat
  BY DEF Received
<1>2. b + 1 \in 1 .. Len(query) + 1 /\ e \in b + 1 - 1 .. Len(query)
  BY <1>1
<1>3. /\ SubSeq(query, b + 1, e) \in Seq(Character)
      /\ Len(SubSeq(query, b + 1, e)) = e - (b + 1) + 1
      /\ \A k \in 1 .. e - (b + 1) + 1 : SubSeq(query, b + 1, e)[k] = query[b + 1 + k - 1]
  BY <1>1, <1>2, SubSeqProperties
<1>4. ASSUME NEW k \in 1 .. e - b PROVE Cut(b, e)[k] = text[b + k - 1]
  <2>1. k \in 1 .. e - (b + 1) + 1 /\ b + 1 + k - 1 = b + k
    BY <1>4
  <2>2. Cut(b, e)[k] = query[b + k]
    BY <1>3, <2>1 DEF Cut
  <2>3. b + k - 1 \in 0 .. Len(query) - 1 /\ b + k - 1 + 1 = b + k
    BY <1>1, <1>4
  <2>4. text[b + k - 1] = query[b + k]
    BY <2>3 DEF Received
  <2>5. QED
    BY <2>2, <2>4
<1>5. e - (b + 1) + 1 = e - b
  OBVIOUS
<1>6. Cut(b, e) \in Seq(Character) /\ Len(Cut(b, e)) = e - b
  BY <1>3, <1>5, Zenon DEF Cut
<1>7. QED
  BY <1>4, <1>6

\* A sequence of m characters stands in an array behind the first n.
Stands(B, r, n, m) ==
  /\ B \in Seq(Character) /\ Len(B) = m
  /\ \A k \in 1 .. m : B[k] = r[n + k - 1]

\* An array begins with a sequence.
Begins(A, r, n) ==
  /\ A \in Seq(Character) /\ Len(A) = n
  /\ \A k \in 1 .. n : A[k] = r[k - 1]

LEMMA Extends ==
  ASSUME NEW r, NEW A, NEW B, NEW n \in Nat, NEW m \in Nat,
         Begins(A, r, n), Stands(B, r, n, m)
  PROVE  Begins(A \o B, r, n + m)
<1> USE DEF Begins, Stands
<1>1. /\ A \o B \in Seq(Character) /\ Len(A \o B) = Len(A) + Len(B)
      /\ \A i \in 1 .. Len(A) + Len(B) :
           (A \o B)[i] = IF i <= Len(A) THEN A[i] ELSE B[i - Len(A)]
  BY ConcatProperties
<1>2. ASSUME NEW k \in 1 .. n + m PROVE (A \o B)[k] = r[k - 1]
  <2>1. CASE k <= n
    <3>1. k \in 1 .. n /\ (A \o B)[k] = A[k]
      BY <1>1, <2>1
    <3>2. QED
      BY <3>1
  <2>2. CASE ~(k <= n)
    <3>1. k - n \in 1 .. m /\ (A \o B)[k] = B[k - n]
      BY <1>1, <2>2
    <3>2. n + (k - n) - 1 = k - 1
      OBVIOUS
    <3>3. B[k - n] = r[n + (k - n) - 1]
      BY <3>1
    <3>4. QED
      BY <3>1, <3>2, <3>3
  <2>3. QED
    BY <2>1, <2>2
<1>3. QED
  BY <1>1, <1>2

\* A part of the query stands where it was moved to.
LEMMA CutStands ==
  ASSUME Received, NEW r, NEW n \in Nat, NEW b \in Nat, NEW e \in Nat, NEW m \in Nat,
         b <= e, e <= Len(query), m = e - b,
         \A p \in n .. n + m - 1 : r[p] = text[p - n + b]
  PROVE  Stands(Cut(b, e), r, n, m)
<1>1. /\ Cut(b, e) \in Seq(Character) /\ Len(Cut(b, e)) = m
      /\ \A k \in 1 .. m : Cut(b, e)[k] = text[b + k - 1]
  BY CutIs
<1>2. ASSUME NEW k \in 1 .. m PROVE Cut(b, e)[k] = r[n + k - 1]
  <2>1. n + k - 1 \in n .. n + m - 1 /\ n + k - 1 - n + b = b + k - 1
    OBVIOUS
  <2>2. r[n + k - 1] = text[n + k - 1 - n + b]
    BY <2>1
  <2>3. Cut(b, e)[k] = text[b + k - 1]
    BY <1>1
  <2>4. QED
    BY <2>1, <2>2, <2>3
<1>3. QED
  BY <1>1, <1>2 DEF Stands

\* The text is rewritten in place: it is as long as before.
LEMMA RewrittenInPlace ==
  ASSUME RegularNow
  PROVE  DOMAIN Rearranged = 0 .. Len(query)
<1> DEFINE n == next_token_after_select
           b == clause.begin
           nb == number.begin
           ne == number.end
           E == Len(query)
<1>1. /\ n \in Nat /\ b \in Nat /\ nb \in Nat /\ ne \in Nat /\ E \in Nat
      /\ n <= b /\ nb = b + 6 /\ nb < ne /\ ne <= E
      /\ TopEnd = n + 5 + (ne - nb) /\ ShiftWidth = ne - b
  BY RegularIs
<1>2. DOMAIN text = 0 .. E
  BY DEF RegularNow, Received, Position
<1>3. DOMAIN Rearranged = DOMAIN text \cup (n .. TopEnd)
                            \cup (n + ShiftWidth .. b + ShiftWidth - 1)
  BY RearrangedDomain
<1> HIDE DEF n, b, nb, ne, E
<1>4. n .. TopEnd \subseteq 0 .. E
  BY <1>1
<1>5. n + ShiftWidth .. b + ShiftWidth - 1 \subseteq 0 .. E
  <2>1. n + (ne - b) .. b + (ne - b) - 1 \subseteq 0 .. E
    BY <1>1
  <2>2. QED
    BY <1>1, <2>1
<1>6. DOMAIN Rearranged = 0 .. E
  BY <1>2, <1>3, <1>4, <1>5
<1>7. QED
  BY <1>6 DEF E

\* The six parts of it, at their positions.
LEMMA PartsAre ==
  ASSUME RegularNow
  PROVE  LET n == next_token_after_select
             b == clause.begin
             nb == number.begin
             ne == number.end
             r == Rearranged
         IN  /\ \A p \in 0 .. n - 1 : r[p] = text[p]
             /\ \A p \in n .. n + 4 : r[p] = TOP[p - n + 1]
             /\ \A p \in n + 5 .. n + 4 + (ne - nb) : r[p] = text[p - n - 5 + nb]
             /\ r[n + 5 + (ne - nb)] = Blank
             /\ \A p \in n + 6 + (ne - nb) .. ne - 1 : r[p] = text[p - (ne - b)]
             /\ \A p \in ne .. Len(query) : r[p] = text[p]
<1> DEFINE n == next_token_after_select
           b == clause.begin
           nb == number.begin
           ne == number.end
           E == Len(query)
<1>1. /\ n \in Nat /\ b \in Nat /\ nb \in Nat /\ ne \in Nat /\ E \in Nat
      /\ n <= b /\ nb = b + 6 /\ nb < ne /\ ne <= E
      /\ TopEnd = n + 5 + (ne - nb) /\ ShiftWidth = ne - b
  BY RegularIs
<1> HIDE DEF n, b, nb, ne, E
<1>sums. /\ b + (ne - b) - 1 = ne - 1
         /\ n + 5 - 1 = n + 4
         /\ TopEnd - 1 = n + 4 + (ne - nb)
  BY <1>1
<1> USE DEF n, b, nb, ne, E
<1>2. DOMAIN Rearranged = 0 .. E
  BY RewrittenInPlace
<1>3. Len(TOP) = 5
  BY KeywordsAre
<1>4. ASSUME NEW p \in 0 .. E
      PROVE  /\ AtTop(p) <=> p \in n .. n + 4
             /\ AtNumber(p) <=> p \in n + 5 .. n + 4 + (ne - nb)
             /\ AtBlank(p) <=> p = n + 5 + (ne - nb)
             /\ AtMoved(p) <=> p \in n + (ne - b) .. ne - 1
  <2>1. AtTop(p) <=> p \in n .. n + 4
    <3>1. n + Len(TOP) - 1 = n + 4
      BY <1>sums, <1>3, Zenon
    <3>2. QED
      BY <3>1, Zenon DEF AtTop
  <2>2. AtNumber(p) <=> p \in n + 5 .. n + 4 + (ne - nb)
    BY <1>3, <1>sums, Zenon DEF AtNumber
  <2>3. AtBlank(p) <=> p = n + 5 + (ne - nb)
    BY <1>1 DEF AtBlank
  <2>4. AtMoved(p) <=> p \in n + (ne - b) .. ne - 1
    BY <1>1, <1>sums, Zenon DEF AtMoved
  <2>5. QED
    BY <2>1, <2>2, <2>3, <2>4
<1>5. ASSUME NEW p \in 0 .. E
      PROVE  /\ AtTop(p) => Rearranged[p] = TOP[p - n + 1]
             /\ ~AtTop(p) /\ AtNumber(p) => Rearranged[p] = text[p - n - 5 + nb]
             /\ ~AtTop(p) /\ ~AtNumber(p) /\ AtBlank(p) => Rearranged[p] = Blank
             /\ ~AtTop(p) /\ ~AtNumber(p) /\ ~AtBlank(p) /\ AtMoved(p) =>
                  Rearranged[p] = text[p - (ne - b)]
             /\ ~AtTop(p) /\ ~AtNumber(p) /\ ~AtBlank(p) /\ ~AtMoved(p) =>
                  Rearranged[p] = text[p]
  <2>1. p \in DOMAIN Rearranged
    BY <1>2, <1>5
  <2>2. QED
    BY <1>1, <1>3, <2>1, RearrangedIs
<1> HIDE DEF n, b, nb, ne, E
<1>6. ASSUME NEW p \in 0 .. n - 1 PROVE Rearranged[p] = text[p]
  <2>1. p \in 0 .. E
    BY <1>1, <1>6
  <2>2. ~AtTop(p) /\ ~AtNumber(p) /\ ~AtBlank(p) /\ ~AtMoved(p)
    BY <1>1, <1>4, <1>6, <2>1
  <2>3. QED
    BY <1>5, <2>1, <2>2
<1>7. ASSUME NEW p \in n .. n + 4 PROVE Rearranged[p] = TOP[p - n + 1]
  <2>1. p \in 0 .. E
    BY <1>1, <1>7
  <2>2. AtTop(p)
    BY <1>4, <1>7, <2>1
  <2>3. QED
    BY <1>5, <2>1, <2>2
<1>8. ASSUME NEW p \in n + 5 .. n + 4 + (ne - nb) PROVE Rearranged[p] = text[p - n - 5 + nb]
  <2>1. p \in 0 .. E
    BY <1>1, <1>8
  <2>2. ~AtTop(p) /\ AtNumber(p)
    BY <1>1, <1>4, <1>8, <2>1
  <2>3. QED
    BY <1>5, <2>1, <2>2
<1>9. Rearranged[n + 5 + (ne - nb)] = Blank
  <2> DEFINE p == n + 5 + (ne - nb)
  <2>1. p \in 0 .. E
    BY <1>1
  <2>2. ~AtTop(p) /\ ~AtNumber(p) /\ AtBlank(p)
    BY <1>1, <1>4, <2>1
  <2>3. QED
    BY <1>5, <2>1, <2>2
<1>10. ASSUME NEW p \in n + 6 + (ne - nb) .. ne - 1 PROVE Rearranged[p] = text[p - (ne - b)]
  <2>1. p \in 0 .. E
    BY <1>1, <1>10
  <2>2. ~AtTop(p) /\ ~AtNumber(p) /\ ~AtBlank(p) /\ AtMoved(p)
    BY <1>1, <1>4, <1>10, <2>1
  <2>3. QED
    BY <1>5, <2>1, <2>2
<1>11. ASSUME NEW p \in ne .. E PROVE Rearranged[p] = text[p]
  <2>1. p \in 0 .. E
    BY <1>1, <1>11
  <2>2. ~AtTop(p) /\ ~AtNumber(p) /\ ~AtBlank(p) /\ ~AtMoved(p)
    BY <1>1, <1>4, <1>11, <2>1
  <2>3. QED
    BY <1>5, <2>1, <2>2
<1>12. QED
  BY <1>6, <1>7, <1>8, <1>9, <1>10, <1>11 DEF n, b, nb, ne, E

LEMMA RearrangedSends ==
  ASSUME RegularNow
  PROVE  /\ Rewritten /\ EndOf(Rearranged) = Len(query)
         /\ [k \in 1 .. EndOf(Rearranged) |-> Rearranged[k - 1]] =
              Cut(0, next_token_after_select)
                \o TOP \o Cut(number.begin, number.end) \o <<Blank>>
                \o Cut(next_token_after_select, clause.begin)
                \o Cut(number.end, Len(query))
<1> DEFINE n == next_token_after_select
           b == clause.begin
           nb == number.begin
           ne == number.end
           E == Len(query)
           r == Rearranged
           S1 == Cut(0, n) \o TOP
           S2 == S1 \o Cut(nb, ne)
           S3 == S2 \o <<Blank>>
           S4 == S3 \o Cut(n, b)
           S5 == S4 \o Cut(ne, E)
<1>1. /\ n \in Nat /\ b \in Nat /\ nb \in Nat /\ ne \in Nat /\ E \in Nat
      /\ n <= b /\ nb = b + 6 /\ nb < ne /\ ne <= E
  BY RegularIs
<1>2. Received /\ DOMAIN text = 0 .. E
  BY DEF RegularNow, Received, Position
<1>3. DOMAIN r = 0 .. E
  BY RewrittenInPlace
<1>4. Len(TOP) = 5 /\ TOP \in Seq(Character) /\ Blank \in Character /\ NUL \notin Character
  BY KeywordsAre, QueryTextAssumption
<1>5. /\ \A p \in 0 .. n - 1 : r[p] = text[p]
      /\ \A p \in n .. n + 4 : r[p] = TOP[p - n + 1]
      /\ \A p \in n + 5 .. n + 4 + (ne - nb) : r[p] = text[p - n - 5 + nb]
      /\ r[n + 5 + (ne - nb)] = Blank
      /\ \A p \in n + 6 + (ne - nb) .. ne - 1 : r[p] = text[p - (ne - b)]
      /\ \A p \in ne .. E : r[p] = text[p]
  BY PartsAre
<1>6. r[E] = NUL
  BY <1>1, <1>2, <1>5 DEF Received
<1>7. Rewritten
  BY <1>2, <1>3, <1>6, <1>1 DEF Rewritten
<1> HIDE DEF n, b, nb, ne, E, r
<1> DEFINE L == ne - nb
           M == b - n
           R == E - ne
<1>8. /\ L \in Nat /\ M \in Nat /\ R \in Nat
      /\ n + 5 \in Nat /\ n + 5 + L \in Nat /\ n + 5 + L + 1 \in Nat
      /\ n + 5 + L + 1 + M = ne /\ ne + R = E /\ n <= E /\ b <= E
  BY <1>1
<1>9. Begins(Cut(0, n), r, n)
  <2>1. \A p \in 0 .. 0 + n - 1 : r[p] = text[p - 0 + 0]
    BY <1>1, <1>5
  <2>2. 0 \in Nat /\ 0 <= n /\ n = n - 0 /\ n <= Len(query)
    BY <1>1, <1>8 DEF E
  <2>3. Stands(Cut(0, n), r, 0, n)
    BY <1>1, <1>2, <2>1, <2>2, CutStands
  <2>4. QED
    BY <1>1, <2>3 DEF Stands, Begins
<1>10. Stands(TOP, r, n, 5)
  <2>1. ASSUME NEW k \in 1 .. 5 PROVE TOP[k] = r[n + k - 1]
    <3> DEFINE p == n + k - 1
    <3>1. p \in n .. n + 4 /\ p - n + 1 = k
      BY <1>1
    <3> HIDE DEF p
    <3>2. r[p] = TOP[p - n + 1]
      BY <1>5, <3>1
    <3>3. r[p] = TOP[k]
      BY <3>1, <3>2
    <3>4. QED
      BY <3>3 DEF p
  <2>2. QED
    BY <1>4, <2>1 DEF Stands
<1>11. Stands(Cut(nb, ne), r, n + 5, L)
  <2>1. ASSUME NEW p \in n + 5 .. n + 5 + L - 1 PROVE r[p] = text[p - (n + 5) + nb]
    <3>1. p \in n + 5 .. n + 4 + (ne - nb) /\ p - (n + 5) + nb = p - n - 5 + nb
      BY <1>1
    <3>2. r[p] = text[p - n - 5 + nb]
      BY <1>5, <3>1
    <3>3. QED
      BY <3>1, <3>2
  <2>2. nb <= ne /\ ne <= Len(query) /\ L = ne - nb
    BY <1>1 DEF E
  <2>3. QED
    BY <1>1, <1>2, <1>8, <2>1, <2>2, CutStands
<1>12. Stands(<<Blank>>, r, n + 5 + L, 1)
  <2>1. r[n + 5 + L] = Blank
    BY <1>5
  <2>2. n + 5 + L + 1 - 1 = n + 5 + L
    BY <1>8
  <2> HIDE DEF L
  <2>3. \A k \in 1 .. 1 : <<Blank>>[k] = r[n + 5 + L + k - 1]
    <3>1. ASSUME NEW k \in 1 .. 1 PROVE <<Blank>>[k] = r[n + 5 + L + k - 1]
      <4>1. k = 1
        OBVIOUS
      <4>2. QED
        BY <2>1, <2>2, <4>1
    <3>2. QED
      BY <3>1
  <2>4. QED
    BY <1>4, <2>3 DEF Stands
<1>13. Stands(Cut(n, b), r, n + 5 + L + 1, M)
  <2>1. ASSUME NEW p \in n + 5 + L + 1 .. n + 5 + L + 1 + M - 1
        PROVE  r[p] = text[p - (n + 5 + L + 1) + n]
    <3>1. p \in n + 6 + (ne - nb) .. ne - 1 /\ p - (n + 5 + L + 1) + n = p - (ne - b)
      BY <1>1
    <3>2. r[p] = text[p - (ne - b)]
      BY <1>5, <3>1
    <3>3. QED
      BY <3>1, <3>2
  <2>2. n <= b /\ b <= Len(query) /\ M = b - n
    BY <1>1, <1>8 DEF E
  <2>3. QED
    BY <1>1, <1>2, <1>8, <2>1, <2>2, CutStands
<1>14. Stands(Cut(ne, E), r, ne, R)
  <2>1. ASSUME NEW p \in ne .. ne + R - 1 PROVE r[p] = text[p - ne + ne]
    <3>1. p \in ne .. E /\ p - ne + ne = p
      BY <1>1
    <3>2. QED
      BY <1>5, <3>1
  <2>2. ne <= E /\ E <= Len(query) /\ R = E - ne
    BY <1>1 DEF E
  <2>3. QED
    BY <1>1, <1>2, <1>8, <2>1, <2>2, CutStands
<1>15. Begins(S5, r, E)
  <2>1. 5 \in Nat /\ 1 \in Nat
    OBVIOUS
  <2> HIDE DEF L, M, R
  <2>2. Begins(S1, r, n + 5)
    BY <1>1, <1>9, <1>10, <2>1, Extends
  <2> HIDE DEF S1
  <2>3. Begins(S2, r, n + 5 + L)
    BY <1>8, <1>11, <2>2, Extends
  <2> HIDE DEF S2
  <2>4. Begins(S3, r, n + 5 + L + 1)
    BY <1>8, <1>12, <2>1, <2>3, Extends
  <2> HIDE DEF S3
  <2>5. Begins(S4, r, n + 5 + L + 1 + M)
    BY <1>8, <1>13, <2>4, Extends
  <2>6. Begins(S4, r, ne)
    BY <1>8, <2>5
  <2> HIDE DEF S4
  <2>7. Begins(S5, r, ne + R)
    BY <1>1, <1>8, <1>14, <2>6, Extends
  <2>8. QED
    BY <1>8, <2>7
<1>16. EndOf(r) = E
  <2> DEFINE Z == {p \in DOMAIN r : r[p] = NUL}
  <2>1. E \in Z /\ Z \subseteq Nat /\ \A p \in Z : p \in 0 .. E
    BY <1>1, <1>3, <1>6
  <2>2. Least(Z) \in Z
    BY <2>1, LeastIs
  <2>3. Least(Z) \in 0 .. E /\ r[Least(Z)] = NUL
    BY <2>1, <2>2
  <2>4. ASSUME NEW p \in 0 .. E, p # E PROVE r[p] # NUL
    <3>1. p + 1 \in 1 .. E /\ p + 1 - 1 = p
      BY <1>1, <2>4
    <3>2. S5[p + 1] \in Character
      <4> HIDE DEF S5
      <4>1. QED
        BY <1>15, <3>1, ElementOfSeq DEF Begins
    <3>3. S5[p + 1] = r[p]
      <4> HIDE DEF S5
      <4>1. QED
        BY <1>15, <3>1 DEF Begins
    <3>4. QED
      BY <1>4, <3>2, <3>3
  <2>5. Least(Z) = E
    BY <2>3, <2>4
  <2>6. QED
    BY <2>5 DEF EndOf
<1>17. [k \in 1 .. E |-> r[k - 1]] = S5
  <2> HIDE DEF S5
  <2>1. S5 = [k \in 1 .. Len(S5) |-> S5[k]]
    BY <1>15 DEF Begins
  <2>2. QED
    BY <1>15, <2>1 DEF Begins
<1>18. QED
  BY <1>7, <1>16, <1>17 DEF r, n, b, nb, ne, E

-----------------------------------------------------------------------------
(* The steps that send something.                                          *)

\* What the text begins with up to a given position.
LEMMA EndSent ==
  ASSUME TypeOK, Received, NEW b \in Position
  PROVE  Characters(b, EndOf(text)) \in Seq(Character)
<1>1. EndOf(text) \in Nat /\ EndOf(text) <= Len(query) /\ b <= EndOf(text)
  BY DEF Received, Position
<1>2. QED
  BY <1>1, CharactersAre

LEMMA TypeStatement ==
  ASSUME TypeOK, Received, Statement
  PROVE  TypeOK'
<1>1. pc' = "sent" /\ sent' = Characters(0, EndOf(text))
      /\ UNCHANGED <<query, text, position, found>>
  BY DEF Statement, Goto
<1>2. 0 \in Position
  BY DEF Received, Position
<1>3. sent' \in Seq(Character)
  BY <1>1, <1>2, EndSent
<1>4. QED
  BY <1>1, <1>3, TypeSend DEF Final

LEMMA TypeDescribe ==
  ASSUME TypeOK, Received, Describe
  PROVE  TypeOK'
<1> DEFINE table == NextToken(text, NextToken(text, 0).end)
<1>1. pc' \in Final /\ UNCHANGED <<query, text, position, found>>
  BY DEF Describe, Goto, Final
<1>2. sent' = sent \/ (table # NoToken /\ sent' = Characters(table.begin, EndOf(text)))
  BY DEF Describe
<1>3. table # NoToken => table.begin \in Position
  <2> DEFINE first == NextToken(text, 0)
  <2>1. 0 \in Position \cup {NULL}
    BY DEF Received, Position
  <2>2. first = NoToken \/ first.end \in Position
    BY <2>1, NextTokenIn
  <2>3. first.end \in Position \cup {NULL}
    BY <2>2 DEF NoToken, Token
  <2> HIDE DEF first
  <2>4. NextToken(text, first.end) = NoToken \/ NextToken(text, first.end).begin \in Position
    BY <2>3, NextTokenIn
  <2>5. QED
    BY <2>4 DEF first
<1> HIDE DEF table
<1>4. sent' \in Seq(Character)
  BY <1>2, <1>3, EndSent DEF TypeOK
<1>5. QED
  BY <1>1, <1>4, TypeSend

\* The wildcard is copied with its neighbour only if that is in the text.
LEMMA TypeSendTables ==
  ASSUME TypeOK, Received, SendTables
  PROVE  TypeOK'
<1>1. /\ pc' = "sent" /\ UNCHANGED <<query, text, position, found>>
      /\ \/ clause = NoToken /\ sent' = <<>>
         \/ /\ clause # NoToken /\ text[clause.end] = NUL
            /\ sent' = Characters(clause.begin, clause.end)
         \/ /\ clause # NoToken /\ text[clause.end] # NUL
            /\ \E stray \in Stray : sent' = Characters(clause.begin, clause.end + 1) \o stray
  BY DEF SendTables, Goto
<1>2. CASE clause = NoToken
  BY <1>1, <1>2, TypeSend DEF Final
<1>3. CASE clause # NoToken
  <2> DEFINE b == clause.begin
             e == clause.end
  <2>1. clause \in TokenType /\ Len(query) \in Nat
    BY DEF TypeOK, Received
  <2>2. b \in Position /\ e \in Position /\ b < e
    BY <1>3, <2>1, TokensAre
  <2>3. b \in Nat /\ e \in Nat /\ b <= e /\ e <= Len(query)
    BY <2>1, <2>2 DEF Position
  <2>4. Characters(b, e) \in Seq(Character)
    BY <2>2, <2>3, CharactersAre
  <2>5. ASSUME text[e] # NUL, NEW stray \in Stray
        PROVE  Characters(b, e + 1) \o stray \in Seq(Character)
    <3>1. e # Len(query)
      BY <2>5 DEF Received
    <3>2. e + 1 \in Nat /\ b <= e + 1 /\ e + 1 <= Len(query)
      BY <2>1, <2>3, <3>1
    <3>3. Characters(b, e + 1) \in Seq(Character)
      BY <2>2, <3>2, CharactersAre
    <3>4. stray \in Seq(Character)
      BY QueryTextAssumption
    <3>5. QED
      BY <3>3, <3>4, ConcatProperties
  <2>6. sent' \in Seq(Character)
    BY <1>1, <1>3, <2>4, <2>5
  <2>7. QED
    BY <1>1, <2>6, TypeSend DEF Final
<1>4. QED
  BY <1>2, <1>3

LEMMA TypeRearrange ==
  ASSUME TypeOK, Received, Ordered, Rearrange
  PROVE  TypeOK'
<1>1. pc = "limit_done" /\ clause # NoToken /\ ~ShiftsNull /\ text' = Rearranged
      /\ UNCHANGED <<query, position, found>>
  BY DEF Rearrange
<1>2. \/ /\ pc' = "sent" /\ DOMAIN text' = DOMAIN text
         /\ \E p \in DOMAIN text' : text'[p] = NUL
         /\ sent' = [k \in 1 .. EndOf(text') |-> text'[k - 1]]
      \/ pc' = "overrun" /\ sent' = sent
  BY DEF Rearrange, Goto
<1>3. \A p \in Position : p \in DOMAIN text' /\ text'[p] \in Character \cup {NUL}
  BY <1>1, RearrangedInText
<1>4. ASSUME DOMAIN text' = DOMAIN text, \E p \in DOMAIN text' : text'[p] = NUL
      PROVE  [k \in 1 .. EndOf(text') |-> text'[k - 1]] \in Seq(Character)
  <2> DEFINE Z == {p \in DOMAIN text' : text'[p] = NUL}
             e == EndOf(text')
  <2>1. DOMAIN text' = 0 .. Len(query) /\ Len(query) \in Nat
    BY <1>4 DEF Received, Position
  <2>2. Z # {} /\ Z \subseteq Nat
    BY <1>4, <2>1
  <2>3. e \in Z /\ \A q \in Z : e <= q
    BY <2>2, LeastIs DEF EndOf
  <2>4. e \in 0 .. Len(query)
    BY <2>1, <2>3
  <2> HIDE DEF e
  <2>5. ASSUME NEW k \in 1 .. e PROVE text'[k - 1] \in Character
    <3>1. k - 1 \in Position /\ ~(e <= k - 1)
      BY <2>1, <2>4 DEF Position
    <3>2. k - 1 \notin Z
      BY <2>3, <3>1
    <3>3. text'[k - 1] # NUL
      BY <1>3, <3>1, <3>2
    <3>4. QED
      BY <1>3, <3>1, <3>3
  <2>6. [k \in 1 .. e |-> text'[k - 1]] \in Seq(Character)
    BY <2>1, <2>4, <2>5
  <2>7. QED
    BY <2>6 DEF e
<1>5. sent' \in Seq(Character)
  BY <1>2, <1>4 DEF TypeOK
<1>6. Position \subseteq DOMAIN text'
  BY <1>3
<1>7. pc' \in Final
  BY <1>2 DEF Final
<1>8. QED
  BY <1>1, <1>5, <1>6, <1>7 DEF TypeOK, found, Position, TokenType

-----------------------------------------------------------------------------
(* Every step keeps the invariant.                                         *)

\* The text is as it was received, up to the last step.
LEMMA ReceivedNow ==
  ASSUME TypeOK, Untouched, pc \notin {"sent", "overrun"}
  PROVE  Received
BY ArrayReceived DEF TypeOK, Untouched

LEMMA AnyStepReceived ==
  ASSUME TypeOK, Untouched, Next
  PROVE  Received /\ text = Array(query) /\ query' = query
<1>1. pc \in {"dispatch", "like", "like_done", "limit", "limit_done"} /\ query' = query
  BY DEF Next, SetNames, Statement, Describe, ShowTables, ScanLike, SendTables,
         Limit, ScanLimit, Reject, RearrangeNull, Rearrange
<1>2. pc \notin {"sent", "overrun"}
  BY <1>1
<1>3. QED
  BY <1>1, <1>2, ReceivedNow DEF Untouched

LEMMA TypeNext ==
  ASSUME TypeOK, Untouched, Ordered, Next
  PROVE  TypeOK'
<1>1. Received
  BY AnyStepReceived
<1>2. CASE SetNames
  BY <1>2, TypeSend DEF SetNames, Goto, TypeOK, Final
<1>3. CASE Statement
  BY <1>1, <1>3, TypeStatement
<1>4. CASE Describe
  BY <1>1, <1>4, TypeDescribe
<1>5. CASE ShowTables
  BY <1>5, TypeSend DEF ShowTables, Goto, TypeOK
<1>6. CASE ScanLike
  BY <1>1, <1>6, TypeScanLike
<1>7. CASE SendTables
  BY <1>1, <1>7, TypeSendTables
<1>8. CASE Limit
  BY <1>8, TypeSend DEF Limit, Goto, TypeOK
<1>9. CASE ScanLimit
  BY <1>1, <1>9, TypeScanLimit
<1>10. CASE Reject
  BY <1>10, TypeSend DEF Reject, Goto, TypeOK, Final
<1>11. CASE RearrangeNull
  BY <1>11, TypeSend DEF RearrangeNull, Goto, TypeOK, Final
<1>12. CASE Rearrange
  BY <1>1, <1>12, TypeRearrange
<1>13. QED
  BY <1>2, <1>3, <1>4, <1>5, <1>6, <1>7, <1>8, <1>9, <1>10, <1>11, <1>12 DEF Next

LEMMA UntouchedNext ==
  ASSUME TypeOK, Untouched, Next
  PROVE  Untouched'
<1>1. text = Array(query) /\ query' = query
  BY AnyStepReceived
<1>2. text' = text \/ Rearrange
  BY DEF Next, SetNames, Statement, Describe, ShowTables, ScanLike, SendTables,
         Limit, ScanLimit, Reject, RearrangeNull
<1>3. CASE text' = text
  BY <1>1, <1>3 DEF Untouched
<1>4. CASE Rearrange
  <2>1. pc' \in {"sent", "overrun"}
    BY <1>4 DEF Rearrange, Goto
  <2>2. QED
    BY <2>1 DEF Untouched
<1>5. QED
  BY <1>2, <1>3, <1>4

LEMMA OrderedNext ==
  ASSUME TypeOK, Untouched, Ordered, Next
  PROVE  Ordered'
<1>1. CASE ScanLimit
  BY <1>1, AnyStepReceived, TypeScanLimit
<1>2. CASE SetNames \/ Statement \/ Describe \/ SendTables \/ Reject \/ RearrangeNull \/ Rearrange
  <2>1. pc' \in Final
    BY <1>2 DEF SetNames, Statement, Describe, SendTables, Reject, RearrangeNull, Rearrange,
                Goto, Final
  <2>2. pc' \notin {"dispatch", "like", "like_done", "limit", "limit_done"}
    BY <2>1 DEF Final
  <2>3. QED
    BY <2>2 DEF Ordered
<1>3. CASE ShowTables \/ ScanLike \/ Limit
  <2>1. /\ pc \in {"dispatch", "like"} /\ pc' \in {"like", "like_done", "limit"}
        /\ next_token_after_select' = next_token_after_select
    BY <1>3 DEF ShowTables, ScanLike, Limit, Goto, found
  <2>2. next_token_after_select = NULL
    BY <2>1 DEF Ordered
  <2>3. QED
    BY <2>1, <2>2 DEF Ordered
<1>4. QED
  BY <1>1, <1>2, <1>3 DEF Next

-----------------------------------------------------------------------------
(* The words that the scan for LIMIT passes.                               *)

\* A LIMIT stands as a word of its own, before the first quote.
WordAt(p) ==
  /\ p \in 1 .. Len(query) - Len(LIMIT)
  /\ \A k \in DOMAIN LIMIT : text[p + k - 1] = LIMIT[k]
  /\ text[p - 1] = Blank /\ text[p + Len(LIMIT)] \in Separators
  /\ \A q \in 0 .. p - 1 : text[q] \notin Quotes

\* None of them is passed.
Passed ==
  /\ pc = "dispatch" => position = 0
  /\ pc = "limit" => \A p : WordAt(p) => position <= p
  /\ pc = "limit_done" /\ clause = NoToken => \A p : ~WordAt(p)
  /\ pc = "rejected" => \A p : ~WordAt(p)

\* The inductive invariant.
IInv == TypeOK /\ Untouched /\ Ordered /\ Passed /\ Rearranges

LEMMA LimitLetters ==
  /\ DOMAIN LIMIT = 1 .. 5 /\ Len(LIMIT) = 5
  /\ \A k \in 1 .. 5 : LIMIT[k] # Blank /\ LIMIT[k] \notin Separators /\ LIMIT[k] \notin Quotes
<1>1. DOMAIN LIMIT = 1 .. 5 /\ Len(LIMIT) = 5
  BY DEF LIMIT
<1>2. /\ LIMIT[1] = "l" /\ LIMIT[2] = "i" /\ LIMIT[3] = "m" /\ LIMIT[4] = "i" /\ LIMIT[5] = "t"
  BY DEF LIMIT
<1>3. ASSUME NEW c \in {"l", "i", "m", "t"}
      PROVE  c # Blank /\ c \notin Separators /\ c \notin Quotes
  BY DEF Blank, Separators, Quotes, NUL
<1>4. ASSUME NEW k \in 1 .. 5 PROVE LIMIT[k] \in {"l", "i", "m", "t"}
  BY <1>2
<1>5. QED
  BY <1>1, <1>3, <1>4

\* The scan comes to the word, or to a token that ends before it.
LEMMA WordFound ==
  ASSUME Received, position \in Position, NEW p, WordAt(p), position <= p
  PROVE  LET token == NextToken(text, position)
         IN  token # NoToken /\ (token.end <= p \/ Matches(text, token, LIMIT))
<1> DEFINE E == Len(query)
           S == {q \in position .. EndOf(text) : text[q] # Blank}
           b == ConsumeWhitespace(text, position)
           C == {q \in b + 1 .. EndOf(text) : text[q] \in Separators}
           e == EndOfToken(text, b)
<1>1. E \in Nat /\ EndOf(text) = E /\ position \in 0 .. E
  BY DEF Received, Position
<1>2. /\ p \in Nat /\ p >= 1 /\ p + 5 <= E
      /\ \A k \in 1 .. 5 : text[p + k - 1] = LIMIT[k]
      /\ text[p - 1] = Blank /\ text[p + 5] \in Separators
      /\ \A q \in 0 .. p - 1 : text[q] \notin Quotes
  BY <1>1, LimitLetters DEF WordAt
<1>3. text[p] # Blank /\ text[p] \notin Quotes
  <2>1. 1 \in 1 .. 5 /\ p + 1 - 1 = p
    BY <1>2
  <2>2. text[p] = LIMIT[1]
    BY <1>2, <2>1
  <2>3. QED
    BY <2>1, <2>2, LimitLetters
<1>4. p \in S /\ S \subseteq Nat
  BY <1>1, <1>2, <1>3
<1>5. b \in S /\ b <= p
  <2> HIDE DEF S
  <2>1. Least(S) \in S /\ \A x \in S : Least(S) <= x
    BY <1>4, LeastIs
  <2>2. b = Least(S)
    BY DEF ConsumeWhitespace, S
  <2>3. QED
    BY <1>4, <2>1, <2>2
<1>6. b \in Nat /\ b >= position /\ b <= p /\ text[b] # Blank /\ b \in 0 .. E - 1
  <2>1. b \in position .. E /\ text[b] # Blank
    BY <1>1, <1>5
  <2> HIDE DEF b, E
  <2>2. p \in Nat /\ p + 5 <= E /\ b <= p
    BY <1>2, <1>5
  <2>3. QED
    BY <1>1, <2>1, <2>2
<1>7. text[b] # NUL
  BY <1>6, QueryTextAssumption DEF Received
<1>8. NextToken(text, position) = [begin |-> b, end |-> e]
  BY <1>1, <1>7 DEF NextToken, Token, NULL
<1>9. [begin |-> b, end |-> e] # NoToken
  <2> HIDE DEF b, e
  <2>1. QED
    BY <1>6 DEF NoToken, Token, NULL
<1>10. text[b] \notin Quotes
  <2>1. b = p \/ b \in 0 .. p - 1
    BY <1>2, <1>6
  <2>2. QED
    BY <1>2, <1>3, <2>1
<1>11. e = Least(C)
  BY <1>10 DEF EndOfToken, EndOfWord
<1>12. C \subseteq Nat
  BY <1>1, <1>6
<1>13. CASE b = p
  <2>1. p + 5 \in C
    BY <1>1, <1>2, <1>13
  <2>2. e \in C /\ e <= p + 5
    BY <1>11, <1>12, <2>1, LeastIs
  <2>3. e \in p + 1 .. p + 5 /\ text[e] \in Separators
    BY <1>1, <1>2, <1>13, <2>2
  <2>4. e = p + 5
    <3>1. ASSUME e # p + 5 PROVE FALSE
      <4> DEFINE k == e - p + 1
      <4>1. k \in 1 .. 5 /\ p + k - 1 = e
        BY <1>2, <2>3, <3>1
      <4> HIDE DEF k, e
      <4>2. text[p + k - 1] = LIMIT[k]
        BY <1>2, <4>1
      <4>3. text[e] = LIMIT[k]
        BY <4>1, <4>2
      <4>4. QED
        BY <2>3, <4>1, <4>3, LimitLetters
    <3>2. QED
      BY <3>1
  <2>5. Matches(text, [begin |-> b, end |-> e], LIMIT)
    <3> DEFINE t == [begin |-> b, end |-> e]
    <3>1. t.begin = p /\ Length(t) = 5
      BY <1>2, <1>13, <2>4 DEF Length
    <3> HIDE DEF t
    <3>2. QED
      BY <1>2, <3>1, LimitLetters DEF Matches, t
  <2>6. QED
    BY <1>8, <1>9, <2>5
<1>14. CASE b # p
  <2>1. b # p - 1
    BY <1>2, <1>6
  <2>2. p - 1 \in b + 1 .. E
    <3>1. b < p - 1
      BY <1>2, <1>6, <1>14, <2>1
    <3>2. p - 1 <= E
      BY <1>1, <1>2
    <3>3. p - 1 >= b + 1 /\ p - 1 \in Int /\ b + 1 \in Int
      BY <1>2, <1>6, <3>1
    <3>4. QED
      BY <1>1, <3>2, <3>3
  <2>3. text[p - 1] \in Separators
    BY <1>2 DEF Separators
  <2>4. p - 1 \in C
    BY <1>1, <2>2, <2>3
  <2>5. e \in Nat /\ e <= p - 1
    BY <1>11, <1>12, <2>4, LeastIs
  <2> HIDE DEF b, e
  <2>6. [begin |-> b, end |-> e].end <= p
    BY <1>2, <2>5
  <2>7. QED
    BY <1>8, <1>9, <2>6
<1>15. QED
  BY <1>13, <1>14

LEMMA PassedNext ==
  ASSUME TypeOK, Untouched, Passed, Next
  PROVE  Passed'
<1>1. Received /\ query' = query
  BY AnyStepReceived
<1>2. CASE ScanLimit
  <2> DEFINE token == NextToken(text, position)
  <2>1. pc = "limit" /\ UNCHANGED <<query, text>>
    BY <1>2 DEF ScanLimit
  <2>2. \A p : WordAt(p)' <=> WordAt(p)
    BY <2>1, Zenon DEF WordAt
  <2>3. \A p : WordAt(p) => position <= p
    BY <2>1 DEF Passed
  <2>4. \/ /\ Matches(text, token, LIMIT) /\ pc' = "limit_done" /\ clause' = token
        \/ /\ ~Matches(text, token, LIMIT) /\ position' = token.end /\ pc' = pc
    BY <1>2 DEF ScanLimit, NextPosition, Goto
  <2>5. \A p : WordAt(p) => token # NoToken /\ (token.end <= p \/ Matches(text, token, LIMIT))
    BY <1>1, <2>3, WordFound DEF TypeOK
  <2> HIDE DEF token
  <2>6. pc' = "limit" => \A p : WordAt(p)' => position' <= p
    BY <2>2, <2>4, <2>5
  <2>7. pc' = "limit_done" /\ clause' = NoToken => \A p : ~WordAt(p)'
    BY <2>1, <2>2, <2>4, <2>5
  <2>8. pc' \in {"limit", "limit_done"}
    BY <2>1, <2>4
  <2>9. QED
    BY <2>6, <2>7, <2>8 DEF Passed
<1>3. CASE Limit
  <2>1. position' = 0 /\ pc' = "limit"
    BY <1>3 DEF Limit, Goto, Passed
  <2>2. \A p : WordAt(p)' => p \in 1 .. Len(query) - Len(LIMIT)
    BY <1>1 DEF WordAt
  <2>3. \A p : WordAt(p)' => position' <= p
    BY <2>1, <2>2
  <2>4. QED
    BY <2>1, <2>3 DEF Passed
<1>4. CASE Reject
  <2>1. pc = "limit_done" /\ clause = NoToken /\ pc' = "rejected" /\ UNCHANGED <<query, text>>
    BY <1>4 DEF Reject, Goto
  <2>2. \A p : ~WordAt(p)
    BY <2>1 DEF Passed
  <2>3. \A p : WordAt(p)' <=> WordAt(p)
    BY <2>1, Zenon DEF WordAt
  <2>4. QED
    BY <2>1, <2>2, <2>3 DEF Passed
<1>5. CASE ~ScanLimit /\ ~Limit /\ ~Reject
  <2>1. pc' \in {"like", "like_done", "answered", "verify", "null", "overrun", "sent"}
    BY <1>5 DEF Next, SetNames, Statement, Describe, ShowTables, ScanLike, SendTables,
                RearrangeNull, Rearrange, Goto
  <2>2. pc' \notin {"dispatch", "limit", "limit_done", "rejected"}
    BY <2>1
  <2>3. QED
    BY <2>2 DEF Passed
<1>6. QED
  BY <1>2, <1>3, <1>4, <1>5

\* What has passed no word is rejected rightly.
LEMMA PassedRejects ==
  ASSUME TypeOK, Untouched, Passed
  PROVE  RejectsOnlyWithoutLimit
<1> SUFFICES ASSUME pc = "rejected" PROVE RejectsOnlyWithoutLimit
  BY DEF RejectsOnlyWithoutLimit
<1>1. text = Array(query)
  BY DEF Untouched
<1>2. \A p : ~WordAt(p)
  BY DEF Passed
<1>3. QED
  BY <1>1, <1>2, Zenon DEF RejectsOnlyWithoutLimit, WordAt

LEMMA RearrangesNext ==
  ASSUME IInv, Next
  PROVE  Rearranges'
<1>1. Received /\ query' = query
  BY AnyStepReceived DEF IInv
<1>2. CASE ShowTables \/ ScanLike \/ Limit \/ ScanLimit
  <2>1. pc' \in {"like", "like_done", "limit", "limit_done"}
    BY <1>2 DEF ShowTables, ScanLike, Limit, ScanLimit, Goto
  <2>2. QED
    BY <2>1 DEF Rearranges, Final
<1>3. CASE SetNames \/ Statement \/ Describe \/ SendTables
  <2>1. pc \in {"dispatch", "like_done"} /\ next_token_after_select' = next_token_after_select
    BY <1>3 DEF SetNames, Statement, Describe, SendTables, found
  <2>2. next_token_after_select = NULL
    BY <2>1 DEF IInv, Ordered
  <2>3. QED
    BY <2>1, <2>2 DEF Rearranges
<1>4. CASE Reject
  <2>1. clause' = NoToken
    BY <1>4 DEF Reject, found
  <2>2. ~Regular'
    BY <2>1, KeywordsAre DEF Regular, Length, NoToken, Token, NULL
  <2>3. QED
    BY <2>2 DEF Rearranges
<1>5. CASE RearrangeNull
  <2>1. ShiftsNull /\ UNCHANGED found
    BY <1>5 DEF RearrangeNull
  <2>2. next_token_after_select' = NULL \/ ~Regular'
    BY <2>1 DEF ShiftsNull, Regular, found
  <2>3. QED
    BY <2>2 DEF Rearranges
<1>6. CASE Rearrange
  <2>1. pc = "limit_done" /\ clause # NoToken /\ ~ShiftsNull /\ text' = Rearranged
        /\ UNCHANGED <<query, position, found>>
    BY <1>6 DEF Rearrange
  <2>2. \/ /\ pc' = "sent" /\ DOMAIN text' = DOMAIN text
           /\ \E p \in DOMAIN text' : text'[p] = NUL
           /\ sent' = [k \in 1 .. EndOf(text') |-> text'[k - 1]]
        \/ ~(DOMAIN text' = DOMAIN text /\ \E p \in DOMAIN text' : text'[p] = NUL)
    BY <1>6 DEF Rearrange, Goto
  <2>3. ASSUME Regular'
        PROVE  /\ pc' = "sent"
               /\ sent' = Cut(0, next_token_after_select)
                            \o TOP \o Cut(number.begin, number.end) \o <<Blank>>
                            \o Cut(next_token_after_select, clause.begin)
                            \o Cut(number.end, Len(query))
    <3>1. Regular
      BY <2>1, <2>3 DEF Regular, found
    <3>2. RegularNow
      BY <1>1, <2>1, <3>1 DEF RegularNow, IInv
    <3>3. DOMAIN text' = DOMAIN text /\ \E p \in DOMAIN text' : text'[p] = NUL
      BY <2>1, <3>2, RearrangedSends DEF Rewritten
    <3>4. pc' = "sent" /\ sent' = [k \in 1 .. EndOf(text') |-> text'[k - 1]]
      BY <2>2, <3>3
    <3>5. sent' = [k \in 1 .. EndOf(Rearranged) |-> Rearranged[k - 1]]
      BY <2>1, <3>4, Zenon
    <3>6. QED
      BY <3>2, <3>4, <3>5, RearrangedSends, Zenon
  <2>4. /\ next_token_after_select' = next_token_after_select
        /\ number' = number /\ clause' = clause /\ query' = query
    BY <2>1 DEF found
  <2>5. QED
    BY <2>3, <2>4, Zenon DEF Rearranges, Cut
<1>7. QED
  BY <1>2, <1>3, <1>4, <1>5, <1>6 DEF Next

-----------------------------------------------------------------------------
(* What overruns an array.                                                 *)

\* The name of a DESCRIBE is at least one character shorter than the query.
LEMMA DescribeOverruns ==
  ASSUME TypeOK, Received, Describe, pc' = "overrun"
  PROVE  Len(query) > DescribeRoom - SpColumns
<1> DEFINE first == NextToken(text, 0)
           table == NextToken(text, first.end)
           E == Len(query)
           b == table.begin
           name == Characters(b, EndOf(text))
<1>1. table # NoToken /\ ~(SpColumns + Len(name) < DescribeRoom)
  BY DEF Describe, Goto, DescribeFits
<1>2. E \in Nat /\ EndOf(text) = E
  BY DEF Received
<1>3. b \in Nat /\ 0 < b /\ b <= E
  <2>1. 0 \in Position \cup {NULL}
    BY <1>2 DEF Position
  <2>2. \/ first = NoToken
        \/ /\ 0 <= first.begin /\ first.begin < first.end
           /\ first.begin \in Position /\ first.end \in Position
    BY <2>1, NextTokenIn
  <2>3. first.end \in Position \cup {NULL}
    BY <2>2 DEF NoToken, Token
  <2>4. first.end # NULL /\ first.end <= table.begin /\ table.begin \in Position
    BY <1>1, <2>3, NextTokenIn
  <2>5. first # NoToken
    BY <2>4 DEF NoToken, Token
  <2>6. first.begin \in Nat /\ first.end \in Nat /\ first.begin < first.end
    BY <1>2, <2>2, <2>5 DEF Position
  <2>7. b \in Nat /\ b <= E /\ first.end <= b
    BY <1>2, <2>4 DEF Position
  <2> HIDE DEF b, first
  <2>8. QED
    BY <2>6, <2>7
<1> HIDE DEF b, E, first, table
<1>4. Len(name) = E - b
  <2>1. name = [k \in 1 .. E - b |-> text[b + k - 1]] /\ E - b \in Nat
    BY <1>2, <1>3 DEF Characters
  <2> HIDE DEF name
  <2>2. QED
    BY <2>1
<1>5. DescribeRoom \in Nat /\ SpColumns = 11
  BY QueryTextAssumption DEF SpColumns
<1> HIDE DEF name
<1>6. E > DescribeRoom - SpColumns
  BY <1>1, <1>2, <1>3, <1>4, <1>5
<1>7. QED
  BY <1>6 DEF E

\* Where a TOP and a blank have the room of the LIMIT, no character is put
\* outside of the array, and its terminator stays.
LEMMA RewrittenWithRoom ==
  ASSUME TypeOK, Received, Ordered, pc = "limit_done", clause # NoToken, ~ShiftsNull,
         number # NoToken, ~(number.begin - clause.begin <= Len(TOP))
  PROVE  Rewritten
<1> DEFINE n == next_token_after_select
           b == clause.begin
           nb == number.begin
           ne == number.end
           E == Len(query)
<1>1. E \in Nat /\ Len(TOP) = 5 /\ DOMAIN text = 0 .. E /\ text[E] = NUL
  BY KeywordsAre DEF Received, Position
<1>2. /\ n \in Position /\ b \in Position /\ n <= b
      /\ nb \in Position /\ ne \in Position /\ nb < ne
  BY Movable
<1>3. /\ n \in Nat /\ b \in Nat /\ nb \in Nat /\ ne \in Nat /\ n <= b
      /\ nb < ne /\ ne <= E
  BY <1>1, <1>2 DEF Position
<1>4. TopEnd = n + 5 + (ne - nb) /\ ShiftWidth = ne - b
  BY <1>1 DEF TopEnd, ShiftWidth, Length
<1>5. nb >= b + 6
  <2>1. ~(nb - b <= 5)
    BY <1>1
  <2> HIDE DEF nb, b
  <2>2. QED
    BY <1>3, <2>1
<1>6. DOMAIN Rearranged = DOMAIN text \cup (n .. TopEnd)
                            \cup (n + ShiftWidth .. b + ShiftWidth - 1)
  BY RearrangedDomain
<1> HIDE DEF n, b, nb, ne, E
<1>n. E \in Nat
  BY <1>1
<1>7. TopEnd \in Nat /\ TopEnd < E /\ b + ShiftWidth - 1 < E /\ ShiftWidth \in Nat
  <2>1. n + 5 + (ne - nb) \in Nat /\ n + 5 + (ne - nb) < E
    BY <1>n, <1>3, <1>5
  <2>2. ne - b \in Nat /\ b + (ne - b) - 1 < E
    BY <1>n, <1>3, <1>5
  <2>3. QED
    BY <1>4, <2>1, <2>2
<1>8. DOMAIN Rearranged = DOMAIN text
  <2>1. n .. TopEnd \subseteq 0 .. E
    BY <1>1, <1>3, <1>7
  <2>2. n + ShiftWidth .. b + ShiftWidth - 1 \subseteq 0 .. E
    BY <1>1, <1>3, <1>7
  <2>3. QED
    BY <1>1, <1>6, <2>1, <2>2
<1>9. Rearranged[E] = NUL
  <2>1. E \in DOMAIN Rearranged
    BY <1>1, <1>8
  <2>2. ~(E <= TopEnd)
    BY <1>1, <1>7
  <2>3. ~AtTop(E) /\ ~AtNumber(E) /\ ~AtBlank(E)
    <3>1. next_token_after_select + Len(TOP) - 1 < E
      <4>1. n + 5 - 1 < E
        BY <1>n, <1>3, <1>5
      <4>2. QED
        BY <1>1, <4>1 DEF n
    <3>2. E \notin n + 5 .. TopEnd - 1 /\ E # TopEnd
      BY <1>1, <1>3, <1>7
    <3>3. E \notin n .. n + 5 - 1
      BY <1>1, <1>3, <1>5
    <3>4. QED
      BY <1>1, <3>2, <3>3 DEF AtTop, AtNumber, AtBlank, n
  <2>4. ~AtMoved(E)
    <3>1. E \notin n + ShiftWidth .. b + ShiftWidth - 1
      BY <1>1, <1>3, <1>7
    <3>2. QED
      BY <3>1 DEF AtMoved, n, b
  <2>5. Rearranged[E] = text[E]
    BY <2>1, <2>3, <2>4, RearrangedIs
  <2>6. QED
    BY <1>1, <2>5
<1>10. E \in DOMAIN Rearranged
  BY <1>1, <1>8
<1>11. QED
  BY <1>8, <1>9, <1>10 DEF Rewritten

LEMMA OverrunsNext ==
  ASSUME TypeOK, Untouched, Ordered, pc = "dispatch" => clause = NoToken, Next
  PROVE  OverrunsOnlyWithoutRoom'
<1>1. Received /\ query' = query
  BY AnyStepReceived
<1> SUFFICES ASSUME pc' = "overrun"
             PROVE  IF clause' = NoToken THEN Len(query) > DescribeRoom - SpColumns
                    ELSE number' = NoToken \/ number'.begin - clause'.begin <= Len(TOP)
  BY <1>1, Zenon DEF OverrunsOnlyWithoutRoom
<1>2. CASE Describe
  <2>1. clause' = NoToken
    BY <1>2 DEF Describe, found
  <2>2. Len(query) > DescribeRoom - SpColumns
    BY <1>1, <1>2, DescribeOverruns
  <2>3. QED
    BY <2>1, <2>2
<1>3. CASE Rearrange
  <2>1. /\ pc = "limit_done" /\ clause # NoToken /\ ~ShiftsNull /\ text' = Rearranged
        /\ clause' = clause /\ number' = number
    BY <1>3 DEF Rearrange, found
  <2>2. ~(DOMAIN text' = DOMAIN text /\ \E p \in DOMAIN text' : text'[p] = NUL)
    BY <1>3 DEF Rearrange, Goto
  <2>3. ~Rewritten
    BY <2>1, <2>2, Zenon DEF Rewritten
  <2>4. number = NoToken \/ number.begin - clause.begin <= Len(TOP)
    BY <1>1, <2>1, <2>3, RewrittenWithRoom
  <2>5. QED
    BY <2>1, <2>4
<1>4. CASE ~Describe /\ ~Rearrange
  BY <1>4 DEF Next, SetNames, Statement, ShowTables, ScanLike, SendTables,
              Limit, ScanLimit, Reject, RearrangeNull, Goto, TypeOK
<1>5. QED
  BY <1>2, <1>3, <1>4

-----------------------------------------------------------------------------
(* The theorems.                                                           *)

LEMMA InvariantInit ==
  ASSUME Init
  PROVE  IInv
<1>1. pc = "dispatch" /\ next_token_after_select = NULL /\ text = Array(query)
  BY DEF Init
<1>2. TypeOK
  BY TypeInit
<1>3. Untouched /\ Ordered
  BY <1>1 DEF Untouched, Ordered
<1>4. Rearranges
  BY <1>1 DEF Rearranges, Final
<1>5. Passed
  BY DEF Init, Passed
<1>6. QED
  BY <1>2, <1>3, <1>4, <1>5 DEF IInv

LEMMA InvariantKeep ==
  ASSUME IInv, UNCHANGED vars
  PROVE  IInv'
<1>1. /\ query' = query /\ text' = text /\ pc' = pc /\ position' = position /\ sent' = sent
      /\ select_begin' = select_begin /\ next_token_after_select' = next_token_after_select
      /\ clause' = clause /\ number' = number
  BY DEF vars, found
<1>2. TypeOK'
  BY TypeKeep DEF IInv
<1>3. Untouched' /\ Ordered'
  BY <1>1, Zenon DEF IInv, Untouched, Ordered
<1>4. Rearranges'
  BY <1>1, Zenon DEF IInv, Rearranges, Regular, Cut
<1>5. Passed'
  BY <1>1, Zenon DEF IInv, Passed, WordAt
<1>6. QED
  BY <1>2, <1>3, <1>4, <1>5 DEF IInv

\* The text is rewritten by the last step only, the positions found are in
\* order, and with that the properties below hold together.
THEOREM QueryInvariance == Spec => []IInv
<1>1. Init => IInv
  BY InvariantInit
<1>2. IInv /\ [Next]_vars => IInv'
  <2>1. ASSUME IInv, Next PROVE IInv'
    <3>1. TypeOK /\ Untouched /\ Ordered /\ Passed
      BY <2>1 DEF IInv
    <3>2. TypeOK' /\ Untouched' /\ Ordered' /\ Passed'
      BY <2>1, <3>1, TypeNext, UntouchedNext, OrderedNext, PassedNext
    <3>3. Rearranges'
      BY <2>1, RearrangesNext
    <3>4. QED
      BY <3>2, <3>3 DEF IInv
  <2>2. QED
    BY <2>1, InvariantKeep
<1>3. QED
  BY <1>1, <1>2, PTL DEF Spec

\* Whatever the query, no position found lies outside the text, and what is
\* sent is made of its characters: fxmy_fnext_token and its helpers do not
\* pass the terminator.
THEOREM QueryTypeCorrect == Spec => []TypeOK
<1>1. IInv => TypeOK
  BY DEF IInv
<1>2. QED
  BY <1>1, QueryInvariance, PTL

\* fxmy_rearrange_limit moves a regular LIMIT to a TOP in the array it has,
\* and loses, repeats or changes nothing else of the query.
THEOREM RearrangesInPlace == Spec => []Rearranges
<1>1. IInv => Rearranges
  BY DEF IInv
<1>2. QED
  BY <1>1, QueryInvariance, PTL

\* A step overruns an array only where the query has no room: a DESCRIBE of
\* more than 1024 - 11 characters, or a LIMIT that is cut short and near to
\* its number, or has none.
THEOREM OverrunsWithoutRoom == Spec => []OverrunsOnlyWithoutRoom
<1> DEFINE Fresh == pc = "dispatch" => clause = NoToken
<1>1. Init => Fresh /\ OverrunsOnlyWithoutRoom
  BY DEF Init, OverrunsOnlyWithoutRoom
<1>2. IInv /\ Fresh /\ OverrunsOnlyWithoutRoom /\ [Next]_vars =>
        Fresh' /\ OverrunsOnlyWithoutRoom'
  <2>1. ASSUME IInv, Fresh, Next PROVE Fresh' /\ OverrunsOnlyWithoutRoom'
    <3>1. pc' # "dispatch"
      BY <2>1 DEF IInv, TypeOK, Next, SetNames, Statement, Describe, ShowTables, ScanLike,
                  SendTables, Limit, ScanLimit, Reject, RearrangeNull, Rearrange, Goto
    <3>2. QED
      BY <2>1, <3>1, OverrunsNext DEF IInv
  <2>2. ASSUME Fresh, OverrunsOnlyWithoutRoom, UNCHANGED vars
        PROVE  Fresh' /\ OverrunsOnlyWithoutRoom'
    <3>1. query' = query /\ pc' = pc /\ clause' = clause /\ number' = number
      BY <2>2 DEF vars, found
    <3>2. QED
      BY <2>2, <3>1, Zenon DEF OverrunsOnlyWithoutRoom
  <2>3. QED
    BY <2>1, <2>2
<1>3. QED
  BY <1>1, <1>2, QueryInvariance, PTL DEF Spec

\* A query is rejected as unbounded only if no LIMIT stands as a word of its
\* own before the first quote, because the scan of fxmy_rearrange_limit passes
\* no such word.
THEOREM RejectedWithoutLimit == Spec => []RejectsOnlyWithoutLimit
<1>1. IInv => RejectsOnlyWithoutLimit
  BY PassedRejects DEF IInv
<1>2. QED
  BY <1>1, QueryInvariance, PTL

\* The loops of fxmy_show_tables and fxmy_rearrange_limit leave characters
\* behind them in every iteration.
THEOREM ScansAdvance == Spec => ScanAdvances
<1> DEFINE Advances == pc' = pc /\ pc \in {"like", "limit"} => position' > position
<1>1. IInv /\ Next => Advances
  <2>1. ASSUME IInv, Next, pc' = pc, pc \in {"like", "limit"} PROVE position' > position
    <3>1. ScanLike \/ ScanLimit
      BY <2>1 DEF Next, SetNames, Statement, Describe, ShowTables, SendTables, Limit,
                  Reject, RearrangeNull, Rearrange
    <3>2. Received /\ TypeOK /\ Ordered
      BY <2>1, AnyStepReceived DEF IInv
    <3>3. QED
      BY <2>1, <3>1, <3>2, TypeScanLike, TypeScanLimit
  <2>2. QED
    BY <2>1
<1>2. IInv /\ [Next]_vars => [Advances]_vars
  BY <1>1
<1>3. QED
  BY <1>2, QueryInvariance, PTL DEF Spec, ScanAdvances

\* The reverse of Extends: the parts of a sequence that an array begins with.
LEMMA Splits ==
  ASSUME NEW r, NEW A \in Seq(Character), NEW B \in Seq(Character), NEW n,
         Begins(A \o B, r, n)
  PROVE  Begins(A, r, Len(A)) /\ Stands(B, r, Len(A), Len(B)) /\ n = Len(A) + Len(B)
<1>1. /\ Len(A) \in Nat /\ Len(B) \in Nat
      /\ Len(A \o B) = Len(A) + Len(B)
      /\ \A i \in 1 .. Len(A) + Len(B) :
           (A \o B)[i] = IF i <= Len(A) THEN A[i] ELSE B[i - Len(A)]
  BY ConcatProperties, LenProperties
<1>2. n = Len(A) + Len(B) /\ \A k \in 1 .. n : (A \o B)[k] = r[k - 1]
  BY <1>1 DEF Begins
<1>3. ASSUME NEW k \in 1 .. Len(A) PROVE A[k] = r[k - 1]
  <2>1. k \in 1 .. n /\ k \in 1 .. Len(A) + Len(B) /\ k <= Len(A)
    BY <1>1, <1>2
  <2>2. QED
    BY <1>1, <1>2, <2>1
<1>4. ASSUME NEW k \in 1 .. Len(B) PROVE B[k] = r[Len(A) + k - 1]
  <2> DEFINE i == Len(A) + k
  <2>1. i \in 1 .. n /\ i \in 1 .. Len(A) + Len(B) /\ ~(i <= Len(A)) /\ i - Len(A) = k
    BY <1>1, <1>2
  <2> HIDE DEF i
  <2>2. (A \o B)[i] = B[k] /\ (A \o B)[i] = r[i - 1]
    BY <1>1, <1>2, <2>1
  <2>3. QED
    BY <2>2 DEF i
<1>5. QED
  BY <1>2, <1>3, <1>4 DEF Begins, Stands

LEMMA LeastEquals ==
  ASSUME NEW S, S \subseteq Nat, NEW m \in S, \A x \in S : m <= x
  PROVE  Least(S) = m
<1>1. Least(S) \in S /\ \A q \in S : Least(S) <= q
  BY LeastIs
<1>2. Least(S) \in Nat /\ m \in Nat /\ Least(S) <= m /\ m <= Least(S)
  BY <1>1
<1>3. QED
  BY <1>2

-----------------------------------------------------------------------------
(* A statement: where its parts stand.                                     *)

LimitAt(c)       == 8 + Len(c.body)
NumberAt(c, gap) == LimitAt(c) + 5 + Len(gap)
RestAt(c, gap)   == NumberAt(c, gap) + Len(c.number)

IsStatementOf(c, gap) ==
  /\ c \in Selects /\ gap \in Gaps
  /\ query = SelectLimit(c, gap) /\ text = Array(query)

LEMMA StatementParts ==
  ASSUME NEW c \in Selects, NEW gap \in Gaps
  PROVE  /\ c.body \in Seq(Character) /\ c.number \in Seq(Character)
         /\ c.rest \in Seq(Character) /\ gap \in Seq(Character)
         /\ SELECT \in Seq(Character) /\ <<Blank>> \in Seq(Character) /\ LIMIT \in Seq(Character)
         /\ {Len(c.body), Len(c.number), Len(c.rest), Len(gap)} \subseteq Nat
         /\ Len(SELECT) = 6 /\ Len(<<Blank>>) = 1 /\ Len(LIMIT) = 5 /\ Len(TOP) = 5
         /\ Len(gap) \in {1, 2} /\ \A k \in 1 .. Len(gap) : gap[k] = Blank
         /\ gap = <<Blank>> \/ gap = <<Blank, Blank>>
<1>1. {c.body, c.number, c.rest} \subseteq Seq(Character) /\ Blank \in Character
  BY QueryTextAssumption
<1>2. gap = <<Blank>> \/ gap = <<Blank, Blank>>
  BY DEF Gaps
<1>3. gap \in Seq(Character) /\ Len(gap) \in {1, 2} /\ \A k \in 1 .. Len(gap) : gap[k] = Blank
  <2>1. CASE gap = <<Blank>>
    <3>1. Len(gap) = 1 /\ gap \in Seq(Character) /\ gap[1] = Blank
      BY <1>1, <2>1
    <3>2. QED
      BY <3>1
  <2>2. CASE gap = <<Blank, Blank>>
    <3>1. Len(gap) = 2 /\ gap \in Seq(Character) /\ gap[1] = Blank /\ gap[2] = Blank
      BY <1>1, <2>2
    <3>2. QED
      BY <3>1
  <2>3. QED
    BY <1>2, <2>1, <2>2
<1>4. Len(SELECT) = 6 /\ Len(<<Blank>>) = 1 /\ <<Blank>> \in Seq(Character)
  BY <1>1 DEF SELECT
<1>5. {Len(c.body), Len(c.number), Len(c.rest), Len(gap)} \subseteq Nat
  BY <1>1, <1>3, LenProperties
<1>6. QED
  BY <1>1, <1>2, <1>3, <1>4, <1>5, KeywordsAre

LEMMA StatementLaid ==
  ASSUME NEW c, NEW gap, IsStatementOf(c, gap)
  PROVE  /\ Received
         /\ Stands(SELECT, text, 0, 6) /\ text[6] = Blank
         /\ Stands(c.body, text, 7, Len(c.body)) /\ text[7 + Len(c.body)] = Blank
         /\ Stands(LIMIT, text, LimitAt(c), 5)
         /\ Stands(gap, text, LimitAt(c) + 5, Len(gap))
         /\ Stands(c.number, text, NumberAt(c, gap), Len(c.number))
         /\ Stands(c.rest, text, RestAt(c, gap), Len(c.rest))
         /\ Len(query) = RestAt(c, gap) + Len(c.rest)
<1> DEFINE blank == <<Blank>>
           body == c.body
           digits == c.number
           rest == c.rest
           S1 == SELECT \o blank
           S2 == S1 \o body
           S3 == S2 \o blank
           S4 == S3 \o LIMIT
           S5 == S4 \o gap
           S6 == S5 \o digits
           S7 == S6 \o rest
           B  == Len(body)
           G  == Len(gap)
           N  == Len(digits)
           R  == Len(rest)
           E  == Len(query)
           L1 == Len(S1)
           L2 == Len(S2)
           L3 == Len(S3)
           L4 == Len(S4)
           L5 == Len(S5)
           L6 == Len(S6)
<1>1. c \in Selects /\ gap \in Gaps /\ query = SelectLimit(c, gap) /\ text = Array(query)
  BY DEF IsStatementOf
<1>2. /\ body \in Seq(Character) /\ digits \in Seq(Character)
      /\ rest \in Seq(Character) /\ gap \in Seq(Character)
      /\ SELECT \in Seq(Character) /\ blank \in Seq(Character) /\ LIMIT \in Seq(Character)
      /\ B \in Nat /\ N \in Nat /\ R \in Nat /\ G \in Nat
      /\ 6 = Len(SELECT) /\ 1 = Len(blank) /\ 5 = Len(LIMIT)
  BY <1>1, StatementParts
<1>3. query = S7
  BY <1>1, Zenon DEF SelectLimit
<1>4. /\ S1 = SELECT \o blank /\ S2 = S1 \o body /\ S3 = S2 \o blank
      /\ S4 = S3 \o LIMIT /\ S5 = S4 \o gap /\ S6 = S5 \o digits /\ S7 = S6 \o rest
      /\ B = Len(body) /\ G = Len(gap) /\ N = Len(digits) /\ R = Len(rest)
      /\ L1 = Len(S1) /\ L2 = Len(S2) /\ L3 = Len(S3) /\ L4 = Len(S4) /\ L5 = Len(S5)
      /\ L6 = Len(S6) /\ E = Len(query)
      /\ body = c.body /\ digits = c.number /\ rest = c.rest /\ blank = <<Blank>>
  OBVIOUS
<1> HIDE DEF blank, body, digits, rest, S1, S2, S3, S4, S5, S6, S7, B, G, N, R, L1, L2, L3, L4, L5, L6, E
<1>s1. S1 \in Seq(Character)
  BY <1>2, <1>4, ConcatProperties
<1>s2. S2 \in Seq(Character)
  BY <1>2, <1>4, <1>s1, ConcatProperties
<1>s3. S3 \in Seq(Character)
  BY <1>2, <1>4, <1>s2, ConcatProperties
<1>s4. S4 \in Seq(Character)
  BY <1>2, <1>4, <1>s3, ConcatProperties
<1>s5. S5 \in Seq(Character)
  BY <1>2, <1>4, <1>s4, ConcatProperties
<1>s6. S6 \in Seq(Character)
  BY <1>2, <1>4, <1>s5, ConcatProperties
<1>s7. S7 \in Seq(Character)
  BY <1>2, <1>4, <1>s6, ConcatProperties
<1>5. Received
  BY <1>1, <1>3, <1>s7, ArrayReceived
<1>6. Begins(S7, text, E)
  <2>1. ASSUME NEW k \in 1 .. Len(query) PROVE S7[k] = text[k - 1]
    <3>1. k - 1 \in 0 .. Len(query) - 1 /\ k - 1 + 1 = k
      BY <1>5 DEF Received
    <3>2. text[k - 1] = query[k - 1 + 1]
      BY <1>5, <3>1 DEF Received
    <3>3. QED
      BY <1>3, <3>1, <3>2
  <2>2. QED
    BY <1>3, <1>s7, <2>1 DEF Begins, E
<1>7. Begins(S6, text, L6) /\ Stands(rest, text, L6, R) /\ E = L6 + R
  <2>1. S6 \in Seq(Character) /\ rest \in Seq(Character)
    BY <1>2, <1>s6
  <2>2. Begins(S6 \o rest, text, E)
    BY <1>4, <1>6, Zenon
  <2>3. /\ Begins(S6, text, Len(S6)) /\ Stands(rest, text, Len(S6), Len(rest))
        /\ E = Len(S6) + Len(rest)
    BY <2>1, <2>2, Splits, Zenon
  <2>4. QED
    BY <1>2, <1>4, <2>3, Zenon
<1>8. Begins(S5, text, L5) /\ Stands(digits, text, L5, N) /\ L6 = L5 + N
  <2>1. S5 \in Seq(Character) /\ digits \in Seq(Character)
    BY <1>2, <1>s5
  <2>2. Begins(S5 \o digits, text, L6)
    BY <1>4, <1>7, Zenon
  <2>3. /\ Begins(S5, text, Len(S5)) /\ Stands(digits, text, Len(S5), Len(digits))
        /\ L6 = Len(S5) + Len(digits)
    BY <2>1, <2>2, Splits, Zenon
  <2>4. QED
    BY <1>2, <1>4, <2>3, Zenon
<1>9. Begins(S4, text, L4) /\ Stands(gap, text, L4, G) /\ L5 = L4 + G
  <2>1. S4 \in Seq(Character) /\ gap \in Seq(Character)
    BY <1>2, <1>s4
  <2>2. Begins(S4 \o gap, text, L5)
    BY <1>4, <1>8, Zenon
  <2>3. /\ Begins(S4, text, Len(S4)) /\ Stands(gap, text, Len(S4), Len(gap))
        /\ L5 = Len(S4) + Len(gap)
    BY <2>1, <2>2, Splits, Zenon
  <2>4. QED
    BY <1>2, <1>4, <2>3, Zenon
<1>10. Begins(S3, text, L3) /\ Stands(LIMIT, text, L3, 5) /\ L4 = L3 + 5
  <2>1. S3 \in Seq(Character) /\ LIMIT \in Seq(Character)
    BY <1>2, <1>s3
  <2>2. Begins(S3 \o LIMIT, text, L4)
    BY <1>4, <1>9, Zenon
  <2>3. /\ Begins(S3, text, Len(S3)) /\ Stands(LIMIT, text, Len(S3), Len(LIMIT))
        /\ L4 = Len(S3) + Len(LIMIT)
    BY <2>1, <2>2, Splits, Zenon
  <2>4. QED
    BY <1>2, <1>4, <2>3, Zenon
<1>11. Begins(S2, text, L2) /\ Stands(blank, text, L2, 1) /\ L3 = L2 + 1
  <2>1. S2 \in Seq(Character) /\ blank \in Seq(Character)
    BY <1>2, <1>s2
  <2>2. Begins(S2 \o blank, text, L3)
    BY <1>4, <1>10, Zenon
  <2>3. /\ Begins(S2, text, Len(S2)) /\ Stands(blank, text, Len(S2), Len(blank))
        /\ L3 = Len(S2) + Len(blank)
    BY <2>1, <2>2, Splits, Zenon
  <2>4. QED
    BY <1>2, <1>4, <2>3, Zenon
<1>12. Begins(S1, text, L1) /\ Stands(body, text, L1, B) /\ L2 = L1 + B
  <2>1. S1 \in Seq(Character) /\ body \in Seq(Character)
    BY <1>2, <1>s1
  <2>2. Begins(S1 \o body, text, L2)
    BY <1>4, <1>11, Zenon
  <2>3. /\ Begins(S1, text, Len(S1)) /\ Stands(body, text, Len(S1), Len(body))
        /\ L2 = Len(S1) + Len(body)
    BY <2>1, <2>2, Splits, Zenon
  <2>4. QED
    BY <1>2, <1>4, <2>3, Zenon
<1>13. Begins(SELECT, text, 6) /\ Stands(blank, text, 6, 1) /\ L1 = 6 + 1
  <2>1. SELECT \in Seq(Character) /\ blank \in Seq(Character)
    BY <1>2
  <2>2. Begins(SELECT \o blank, text, L1)
    BY <1>4, <1>12, Zenon
  <2>3. /\ Begins(SELECT, text, Len(SELECT)) /\ Stands(blank, text, Len(SELECT), Len(blank))
        /\ L1 = Len(SELECT) + Len(blank)
    BY <2>1, <2>2, Splits, Zenon
  <2>4. QED
    BY <1>2, <1>4, <2>3, Zenon
<1>14. /\ L1 = 7 /\ L2 = 7 + B /\ L3 = 8 + B /\ L4 = 8 + B + 5
       /\ L5 = 8 + B + 5 + G /\ L6 = 8 + B + 5 + G + N
  BY <1>2, <1>7, <1>8, <1>9, <1>10, <1>11, <1>12, <1>13
<1>15. LimitAt(c) = 8 + B /\ NumberAt(c, gap) = 8 + B + 5 + G /\ RestAt(c, gap) = 8 + B + 5 + G + N
  BY <1>2 DEF LimitAt, NumberAt, RestAt, B, G, N, body, digits
<1>16. Stands(SELECT, text, 0, 6)
  <2>1. \A k \in 1 .. 6 : 0 + k - 1 = k - 1
    OBVIOUS
  <2>2. QED
    BY <1>2, <1>13, <2>1 DEF Begins, Stands
<1>17. text[6] = Blank /\ text[7 + B] = Blank
  <2>1. ASSUME NEW n \in Nat, Stands(blank, text, n, 1) PROVE text[n] = Blank
    <3>1. 1 \in 1 .. 1 /\ n + 1 - 1 = n /\ blank[1] = Blank
      BY <1>4
    <3>2. blank[1] = text[n + 1 - 1]
      BY <2>1, <3>1, Zenon DEF Stands
    <3>3. QED
      BY <3>1, <3>2
  <2>2. 6 \in Nat /\ 7 + B \in Nat
    BY <1>2
  <2>3. QED
    BY <1>2, <1>11, <1>13, <1>14, <2>1, <2>2
<1>18. QED
  BY <1>5, <1>7, <1>8, <1>9, <1>10, <1>12, <1>14, <1>15, <1>16, <1>17 DEF E, B, G, N, R, body, digits, rest

\* What stands at a position of the statement, part by part.
LEMMA StatementAt ==
  ASSUME NEW c, NEW gap, IsStatementOf(c, gap)
  PROVE  LET B == Len(c.body)
             N == Len(c.number)
             R == Len(c.rest)
             G == Len(gap)
             E == Len(query)
             p == LimitAt(c)
         IN  /\ B \in Nat /\ N \in Nat /\ R \in Nat /\ G \in 1 .. 2 /\ E \in Nat
             /\ p = 8 + B /\ E = p + 5 + G + N + R
             /\ \A k \in 0 .. 5 : text[k] = SELECT[k + 1]
             /\ text[6] = Blank
             /\ \A k \in 1 .. B : text[6 + k] = c.body[k]
             /\ text[7 + B] = Blank
             /\ \A k \in 1 .. 5 : text[p + k - 1] = LIMIT[k]
             /\ \A k \in p + 5 .. p + 4 + G : text[k] = Blank
             /\ \A k \in 1 .. N : text[p + 4 + G + k] = c.number[k]
             /\ \A k \in 1 .. R : text[p + 4 + G + N + k] = c.rest[k]
             /\ text[E] = NUL /\ EndOf(text) = E
<1> DEFINE B == Len(c.body)
           N == Len(c.number)
           R == Len(c.rest)
           G == Len(gap)
           E == Len(query)
           p == LimitAt(c)
<1>1. /\ Received
      /\ Stands(SELECT, text, 0, 6) /\ text[6] = Blank
      /\ Stands(c.body, text, 7, B) /\ text[7 + B] = Blank
      /\ Stands(LIMIT, text, p, 5)
      /\ Stands(gap, text, p + 5, G)
      /\ Stands(c.number, text, NumberAt(c, gap), N)
      /\ Stands(c.rest, text, RestAt(c, gap), R)
      /\ E = RestAt(c, gap) + R
  BY StatementLaid
<1>2. /\ B \in Nat /\ N \in Nat /\ R \in Nat /\ G \in Nat /\ G \in {1, 2}
      /\ \A k \in 1 .. G : gap[k] = Blank
  BY StatementParts DEF IsStatementOf
<1>3. /\ p = 8 + B /\ NumberAt(c, gap) = p + 5 + G /\ RestAt(c, gap) = p + 5 + G + N
  BY DEF LimitAt, NumberAt, RestAt
<1>4. E \in Nat /\ text[E] = NUL /\ EndOf(text) = E
  BY <1>1 DEF Received
<1> HIDE DEF B, N, R, G, E, p
<1>5. ASSUME NEW k \in 0 .. 5 PROVE text[k] = SELECT[k + 1]
  <2>1. k + 1 \in 1 .. 6 /\ 0 + (k + 1) - 1 = k
    OBVIOUS
  <2>2. SELECT[k + 1] = text[0 + (k + 1) - 1]
    BY <1>1, <2>1 DEF Stands
  <2>3. QED
    BY <2>1, <2>2
<1>6. ASSUME NEW k \in 1 .. B PROVE text[6 + k] = c.body[k]
  <2>1. 7 + k - 1 = 6 + k
    BY <1>2
  <2>2. QED
    BY <1>1, <2>1 DEF Stands
<1>7. \A k \in 1 .. 5 : text[p + k - 1] = LIMIT[k]
  BY <1>1 DEF Stands
<1>8. ASSUME NEW k \in p + 5 .. p + 4 + G PROVE text[k] = Blank
  <2> DEFINE j == k - p - 4
  <2>1. j \in 1 .. G /\ p + 5 + j - 1 = k
    BY <1>2, <1>3
  <2> HIDE DEF j
  <2>2. gap[j] = text[p + 5 + j - 1] /\ gap[j] = Blank
    BY <1>1, <1>2, <2>1 DEF Stands
  <2>3. QED
    BY <2>1, <2>2
<1>9. ASSUME NEW k \in 1 .. N PROVE text[p + 4 + G + k] = c.number[k]
  <2>1. p + 5 + G + k - 1 = p + 4 + G + k
    BY <1>2, <1>3
  <2>2. c.number[k] = text[p + 5 + G + k - 1]
    BY <1>1, <1>3 DEF Stands
  <2>3. QED
    BY <2>1, <2>2
<1>10. ASSUME NEW k \in 1 .. R PROVE text[p + 4 + G + N + k] = c.rest[k]
  <2>1. p + 5 + G + N + k - 1 = p + 4 + G + N + k
    BY <1>2, <1>3
  <2>2. c.rest[k] = text[p + 5 + G + N + k - 1]
    BY <1>1, <1>3 DEF Stands
  <2>3. QED
    BY <2>1, <2>2
<1>11. E = p + 5 + G + N + R /\ G \in 1 .. 2
  BY <1>1, <1>2, <1>3
<1>12. QED
  BY <1>1, <1>2, <1>3, <1>4, <1>5, <1>6, <1>7, <1>8, <1>9, <1>10, <1>11
     DEF B, N, R, G, E, p

-----------------------------------------------------------------------------
(* The tokens of a statement.                                              *)

\* A token of the body, in the statement.
Moved(t)      == Token(7 + t.begin, 7 + t.end)
LimitToken(c) == Token(LimitAt(c), LimitAt(c) + 5)

LEMMA BodyTokens ==
  ASSUME NEW c \in Selects, NEW t \in c.tokens
  PROVE  /\ t.begin \in Nat /\ t.end \in Nat /\ t.begin < t.end /\ t.end <= Len(c.body)
         /\ t = [begin |-> t.begin, end |-> t.end]
         /\ IsToken(c.body, t) /\ c.body[t.begin + 1] # Blank
         /\ \A u \in c.tokens : t = u \/ t.end <= u.begin \/ u.end <= t.begin
<1>1. MadeOf(c.body, c.tokens)
  BY SelectsAssumption
<1>2. /\ t \in [begin : 0 .. Len(c.body), end : 0 .. Len(c.body)]
      /\ t.begin < t.end /\ IsToken(c.body, t)
      /\ \A u \in c.tokens : t = u \/ t.end <= u.begin \/ u.end <= t.begin
  BY <1>1 DEF MadeOf
<1>3. Len(c.body) \in Nat
  BY QueryTextAssumption, LenProperties
<1>4. c.body[t.begin + 1] # Blank
  <2>1. CASE c.body[t.begin + 1] \in Quotes
    BY <2>1 DEF Quotes, Blank
  <2>2. CASE c.body[t.begin + 1] \notin Quotes
    BY <1>2, <2>2 DEF IsToken
  <2>3. QED
    BY <2>1, <2>2
<1>5. QED
  BY <1>2, <1>3, <1>4

\* The tokenizer finds where a token of the body ends.
LEMMA BodyTokenEnds ==
  ASSUME NEW c, NEW gap, IsStatementOf(c, gap), NEW t \in c.tokens
  PROVE  EndOfToken(text, 7 + t.begin) = 7 + t.end
<1> DEFINE B == Len(c.body)
           E == Len(query)
           w == c.body
           b == t.begin
           e == t.end
<1>1. /\ b \in Nat /\ e \in Nat /\ b < e /\ e <= B /\ B \in Nat /\ IsToken(w, t)
  BY BodyTokens, StatementParts DEF IsStatementOf
<1>2. /\ E \in Nat /\ E > 8 + B /\ EndOf(text) = E
      /\ \A k \in 1 .. B : text[6 + k] = w[k]
      /\ text[7 + B] = Blank
  <2> DEFINE G == Len(gap)
             N == Len(c.number)
             R == Len(c.rest)
             p == LimitAt(c)
  <2>1. p = 8 + B /\ E = p + 5 + G + N + R /\ G \in 1 .. 2 /\ N \in Nat /\ R \in Nat /\ E \in Nat
    BY StatementAt
  <2>2. E \in Nat /\ E > 8 + B
    <3> HIDE DEF B, E, G, N, R, p
    <3>1. QED
      BY <1>1, <2>1
  <2>3. QED
    BY <2>2, StatementAt
<1> HIDE DEF B, E, w
<1>3. ASSUME NEW k \in b + 1 .. e, NEW x, x = 6 + k PROVE text[x] = w[k]
  <2>1. k \in 1 .. B
    BY <1>1
  <2>2. QED
    BY <1>2, <1>3, <2>1
<1>4. text[7 + b] = w[b + 1]
  <2>1. b + 1 \in b + 1 .. e /\ 7 + b = 6 + (b + 1)
    BY <1>1
  <2>2. QED
    BY <1>3, <2>1, Zenon
<1>5. b = t.begin /\ e = t.end
  OBVIOUS
<1> HIDE DEF B, E, w, b, e
<1>6. CASE w[b + 1] \in Quotes
  <2> DEFINE C == {q \in 7 + b + 1 .. EndOf(text) : text[q] = text[7 + b] /\ text[q - 1] # Backslash}
  <2>1. EndOfToken(text, 7 + b) = IF C = {} THEN EndOf(text) ELSE Least(C) + 1
    BY <1>4, <1>6 DEF EndOfToken, EndOfString
  <2>2. IsLiteral(w, b + 1, e)
    BY <1>1, <1>5, <1>6 DEF IsToken
  <2>3. /\ b + 1 < e /\ w[e] = w[b + 1] /\ w[e - 1] # Backslash
        /\ \A k \in b + 2 .. e - 1 : ~(w[k] = w[b + 1] /\ w[k - 1] # Backslash)
    <3>1. b + 1 + 1 = b + 2
      BY <1>1
    <3>2. QED
      BY <2>2, <3>1 DEF IsLiteral, Closes
  <2>4. 6 + e \in C
    <3> DEFINE x == 6 + e
    <3>1. /\ e \in b + 1 .. e /\ e - 1 \in b + 1 .. e /\ x - 1 = 6 + (e - 1)
          /\ x \in 7 + b + 1 .. E
      BY <1>1, <1>2, <2>3
    <3>2. text[x] = w[e]
      BY <1>3, <3>1, Zenon
    <3>3. text[x - 1] = w[e - 1]
      BY <1>3, <3>1, Zenon
    <3> HIDE DEF x
    <3>4. text[x] = text[7 + b] /\ text[x - 1] # Backslash
      BY <1>4, <2>3, <3>2, <3>3, Zenon
    <3>5. x \in 7 + b + 1 .. EndOf(text)
      BY <1>2, <3>1
    <3>6. x \in C
      BY <3>4, <3>5, Zenon
    <3>7. QED
      BY <3>6 DEF x
  <2>5. ASSUME NEW x \in C PROVE 6 + e <= x
    <3>1. x \in Int /\ 7 + b + 1 <= x /\ text[x] = text[7 + b] /\ text[x - 1] # Backslash
      BY <1>1, <1>2
    <3>2. ASSUME x < 6 + e PROVE FALSE
      <4> DEFINE k == x - 6
      <4>1. /\ k \in b + 1 .. e /\ x = 6 + k /\ k - 1 \in b + 1 .. e /\ x - 1 = 6 + (k - 1)
            /\ k \in b + 2 .. e - 1
        BY <1>1, <3>1, <3>2
      <4> HIDE DEF k
      <4>2. text[x] = w[k]
        BY <1>3, <4>1, Zenon
      <4>3. text[x - 1] = w[k - 1]
        BY <1>3, <4>1, Zenon
      <4>4. ~(w[k] = w[b + 1] /\ w[k - 1] # Backslash)
        BY <2>3, <4>1
      <4>5. QED
        BY <1>4, <3>1, <4>2, <4>3, <4>4, Zenon
    <3>3. QED
      BY <1>1, <3>1, <3>2
  <2>6. C \subseteq Nat
    BY <1>1, <1>2
  <2>7. Least(C) = 6 + e
    BY <2>4, <2>5, <2>6, LeastEquals
  <2> HIDE DEF C
  <2>8. EndOfToken(text, 7 + b) = 6 + e + 1
    BY <2>1, <2>4, <2>7
  <2>9. 6 + e + 1 = 7 + e
    BY <1>1
  <2>10. QED
    BY <1>5, <2>8, <2>9
<1>7. CASE w[b + 1] \notin Quotes
  <2> DEFINE C == {q \in 7 + b + 1 .. EndOf(text) : text[q] \in Separators}
  <2>1. EndOfToken(text, 7 + b) = Least(C)
    BY <1>4, <1>7 DEF EndOfToken, EndOfWord
  <2>2. IsWord(w, b + 1, e)
    BY <1>1, <1>5, <1>7 DEF IsToken
  <2>3. /\ \A k \in b + 2 .. e : w[k] \notin Separators
        /\ e = B \/ w[e + 1] \in Separators
    <3>1. b + 1 + 1 = b + 2
      BY <1>1
    <3>2. QED
      BY <2>2, <3>1 DEF IsWord, B, w
  <2>4. text[7 + e] \in Separators
    <3>1. CASE e = B
      BY <1>2, <3>1 DEF Separators
    <3>2. CASE e # B
      <4>1. e + 1 \in 1 .. B /\ 6 + (e + 1) = 7 + e
        BY <1>1, <3>2
      <4>2. text[6 + (e + 1)] = w[e + 1]
        BY <1>2, <4>1
      <4>3. QED
        BY <2>3, <3>2, <4>1, <4>2
    <3>3. QED
      BY <3>1, <3>2
  <2>5. 7 + e \in C
    <3>1. 7 + e \in 7 + b + 1 .. E
      BY <1>1, <1>2
    <3>2. QED
      BY <1>2, <2>4, <3>1
  <2>6. ASSUME NEW x \in C PROVE 7 + e <= x
    <3>1. x \in Int /\ 7 + b + 1 <= x /\ text[x] \in Separators
      BY <1>1, <1>2
    <3>2. ASSUME x < 7 + e PROVE FALSE
      <4> DEFINE k == x - 6
      <4>1. k \in b + 1 .. e /\ x = 6 + k /\ k \in b + 2 .. e
        BY <1>1, <3>1, <3>2
      <4> HIDE DEF k
      <4>2. text[x] = w[k] /\ w[k] \notin Separators
        BY <1>3, <2>3, <4>1, Zenon
      <4>3. QED
        BY <3>1, <4>2
    <3>3. QED
      BY <1>1, <3>1, <3>2
  <2>7. C \subseteq Nat
    BY <1>1, <1>2
  <2>8. Least(C) = 7 + e
    BY <2>5, <2>6, <2>7, LeastEquals
  <2>9. QED
    BY <1>5, <2>1, <2>8
<1>8. QED
  BY <1>6, <1>7

\* The next token begins at the first character that is not a blank.
LEMMA NextTokenAt ==
  ASSUME Received, NEW p \in Nat, NEW b \in p .. Len(query) - 1, NEW e,
         text[b] # Blank, \A x \in p .. b - 1 : text[x] = Blank,
         EndOfToken(text, b) = e
  PROVE  NextToken(text, p) = Token(b, e)
<1> DEFINE E == Len(query)
           S == {q \in p .. EndOf(text) : text[q] # Blank}
<1>1. E \in Nat /\ EndOf(text) = E
  BY DEF Received
<1>2. b \in Nat /\ p <= b /\ b < E /\ b \in 0 .. E - 1
  BY <1>1
<1>3. b \in S /\ S \subseteq Nat
  BY <1>1, <1>2
<1>4. ASSUME NEW x \in S PROVE b <= x
  <2>1. x \in Nat /\ p <= x /\ text[x] # Blank
    BY <1>1
  <2>2. ~(x < b)
    <3>1. x < b => x \in p .. b - 1
      BY <1>2, <2>1
    <3>2. QED
      BY <2>1, <3>1
  <2>3. QED
    BY <1>2, <2>1, <2>2
<1>5. ConsumeWhitespace(text, p) = b
  <2>1. Least(S) = b
    BY <1>3, <1>4, LeastEquals
  <2>2. QED
    BY <2>1 DEF ConsumeWhitespace
<1>6. text[b] # NUL
  BY <1>2, QueryTextAssumption DEF Received
<1>7. p # NULL
  BY DEF NULL
<1>8. QED
  BY <1>5, <1>6, <1>7 DEF NextToken

\* A word that a separator follows ends there.
LEMMA WordEnds ==
  ASSUME Received, NEW b \in Nat, NEW e \in b + 1 .. Len(query),
         text[b] \notin Quotes, text[e] \in Separators,
         \A x \in b + 1 .. e - 1 : text[x] \notin Separators
  PROVE  EndOfToken(text, b) = e
<1> DEFINE E == Len(query)
           C == {q \in b + 1 .. EndOf(text) : text[q] \in Separators}
<1>1. E \in Nat /\ EndOf(text) = E
  BY DEF Received
<1>2. e \in Nat /\ b < e /\ e <= E
  BY <1>1
<1>3. e \in C /\ C \subseteq Nat
  BY <1>1, <1>2
<1>4. ASSUME NEW x \in C PROVE e <= x
  <2>1. x \in Nat /\ b + 1 <= x /\ text[x] \in Separators
    BY <1>1
  <2>2. x < e => x \in b + 1 .. e - 1
    BY <1>2, <2>1
  <2>3. QED
    BY <1>2, <2>1, <2>2
<1>5. Least(C) = e
  BY <1>3, <1>4, LeastEquals
<1>6. QED
  BY <1>5 DEF EndOfToken, EndOfWord

LEMMA LimitTokenEnds ==
  ASSUME NEW c, NEW gap, IsStatementOf(c, gap)
  PROVE  /\ EndOfToken(text, LimitAt(c)) = LimitAt(c) + 5
         /\ text[LimitAt(c)] # Blank /\ LimitAt(c) \in 0 .. Len(query) - 1
<1> DEFINE p == LimitAt(c)
           B == Len(c.body)
           G == Len(gap)
           N == Len(c.number)
           R == Len(c.rest)
           E == Len(query)
<1>1. /\ Received /\ B \in Nat /\ G \in 1 .. 2 /\ N \in Nat /\ R \in Nat /\ E \in Nat
      /\ p = 8 + B /\ E = p + 5 + G + N + R
      /\ \A k \in 1 .. 5 : text[p + k - 1] = LIMIT[k]
      /\ \A k \in p + 5 .. p + 4 + G : text[k] = Blank
  BY StatementAt, StatementLaid
<1> HIDE DEF p, B, G, N, R, E
<1>2. ASSUME NEW x \in p .. p + 4
      PROVE  text[x] # Blank /\ text[x] \notin Separators /\ text[x] \notin Quotes
  <2> DEFINE k == x - p + 1
  <2>1. k \in 1 .. 5 /\ p + k - 1 = x
    BY <1>1
  <2> HIDE DEF k
  <2>2. text[x] = LIMIT[k]
    BY <1>1, <2>1
  <2>3. QED
    BY <2>1, <2>2, LimitLetters
<1>3. text[p + 5] = Blank
  BY <1>1
<1>4. text[p + 5] \in Separators
  BY <1>3 DEF Separators
<1>5. /\ p \in Nat /\ p + 5 \in p + 1 .. E /\ p \in 0 .. E - 1 /\ p \in p .. p + 4
      /\ \A x \in p + 1 .. p + 5 - 1 : x \in p .. p + 4
  BY <1>1
<1>6. text[p] \notin Quotes /\ text[p] # Blank
  BY <1>2, <1>5
<1>7. \A x \in p + 1 .. p + 5 - 1 : text[x] \notin Separators
  BY <1>2, <1>5
<1>8. EndOfToken(text, p) = p + 5
  <2>1. p + 5 \in p + 1 .. Len(query)
    BY <1>5 DEF E
  <2>2. QED
    BY <1>1, <1>4, <1>5, <1>6, <1>7, <2>1, WordEnds
<1>9. QED
  BY <1>5, <1>6, <1>8 DEF p, E

\* Behind SELECT, and behind every token of the body, the scan finds the next
\* one, or, when all are behind, LIMIT.
LEMMA NextInBody ==
  ASSUME NEW c, NEW gap, IsStatementOf(c, gap),
         NEW q \in Nat, q <= Len(c.body), \A t \in c.tokens : t.end <= q \/ q <= t.begin,
         NEW from \in 6 .. 7 + q, from = 7 + q \/ (from = 6 /\ q = 0)
  PROVE  \/ \E u \in c.tokens :
              /\ NextToken(text, from) = Moved(u) /\ q <= u.begin
              /\ \A t \in c.tokens : t.end <= q \/ u.begin <= t.begin
         \/ /\ NextToken(text, from) = LimitToken(c)
            /\ \A t \in c.tokens : t.end <= q
<1> DEFINE p == LimitAt(c)
           B == Len(c.body)
           E == Len(query)
           w == c.body
           S == {x \in 7 + q .. EndOf(text) : text[x] # Blank}
           b == Least(S)
<1>1. /\ c \in Selects /\ Received /\ B \in Nat /\ E \in Nat /\ p = 8 + B /\ EndOf(text) = E
      /\ \A k \in 1 .. B : text[6 + k] = w[k]
      /\ text[6] = Blank /\ text[7 + B] = Blank
  BY StatementAt, StatementLaid DEF IsStatementOf
<1>2. EndOfToken(text, p) = p + 5 /\ text[p] # Blank /\ p \in 0 .. E - 1
  BY LimitTokenEnds
<1>3. \A t \in c.tokens :
        /\ t.begin \in Nat /\ t.end \in Nat /\ t.begin < t.end /\ t.end <= B
        /\ w[t.begin + 1] # Blank
  BY <1>1, BodyTokens
<1>q. q <= B
  OBVIOUS
<1> HIDE DEF p, B, E, w, b, S
<1>4. ASSUME NEW x, NEW k \in 1 .. B, x = 6 + k PROVE text[x] = w[k]
  BY <1>1, <1>4
<1>5. /\ b \in 7 + q .. p /\ text[b] # Blank
      /\ \A x \in 7 + q .. b - 1 : text[x] = Blank
  <2>1. p \in S /\ S \subseteq Nat
    BY <1>1, <1>2, <1>q DEF S
  <2>2. b \in S /\ \A x \in S : b <= x
    BY <2>1, LeastIs DEF b
  <2>3. b \in Nat /\ 7 + q <= b /\ b <= p /\ text[b] # Blank
    BY <1>1, <2>1, <2>2 DEF S
  <2>4. ASSUME NEW x \in 7 + q .. b - 1 PROVE text[x] = Blank
    <3>1. x \in 7 + q .. EndOf(text) /\ ~(b <= x)
      BY <1>1, <1>2, <2>3
    <3>2. QED
      BY <2>2, <3>1 DEF S
  <2>5. QED
    BY <1>1, <2>3, <2>4
<1>6. /\ b \in from .. E - 1 /\ from \in Nat
      /\ \A x \in from .. b - 1 : text[x] = Blank
  <2>1. b \in from .. E - 1 /\ from \in Nat
    BY <1>1, <1>2, <1>5
  <2>2. ASSUME NEW x \in from .. b - 1 PROVE text[x] = Blank
    <3>1. x \in 7 + q .. b - 1 \/ x = 6
      BY <1>5
    <3>2. QED
      BY <1>1, <1>5, <3>1
  <2>3. QED
    BY <2>1, <2>2
<1>7. \A t \in c.tokens : t.end <= q \/ b <= 7 + t.begin
  <2>1. ASSUME NEW t \in c.tokens, q <= t.begin PROVE b <= 7 + t.begin
    <3> DEFINE y == t.begin
               x == 7 + y
    <3>0. y \in Nat /\ y + 1 <= B /\ q <= y
      BY <1>1, <1>3, <2>1
    <3> HIDE DEF y
    <3>1. y + 1 \in 1 .. B /\ x = 6 + (y + 1) /\ x \in Nat /\ 7 + q <= x
      BY <1>1, <3>0
    <3>2. text[x] = w[y + 1]
      BY <1>4, <3>1, Zenon
    <3>3. text[x] # Blank
      BY <1>3, <3>2 DEF y
    <3> HIDE DEF x
    <3>4. x < b => x \in 7 + q .. b - 1
      BY <1>1, <1>5, <3>1
    <3>5. b <= x
      BY <1>1, <1>5, <3>1, <3>3, <3>4
    <3>6. QED
      BY <3>5 DEF x, y
  <2>2. QED
    BY <2>1
<1>8. CASE b = p
  <2>1. NextToken(text, from) = Token(p, p + 5)
    <3>1. b \in from .. Len(query) - 1
      BY <1>6 DEF E
    <3>2. QED
      <4>1. from \in Nat /\ Received /\ text[b] # Blank
        BY <1>1, <1>5, <1>6, <1>8
      <4>2. \A x \in from .. b - 1 : text[x] = Blank
        BY <1>6
      <4>3. EndOfToken(text, b) = p + 5
        BY <1>2, <1>8
      <4>4. QED
        BY <1>8, <3>1, <4>1, <4>2, <4>3, NextTokenAt
  <2>2. ASSUME NEW t \in c.tokens PROVE t.end <= q
    <3> DEFINE x == t.begin
    <3>1. x \in Nat /\ x < B
      BY <1>1, <1>3
    <3>2. t.end <= q \/ b <= 7 + x
      BY <1>7
    <3> HIDE DEF x
    <3>3. ~(b <= 7 + x)
      BY <1>1, <1>8, <3>1
    <3>4. QED
      BY <3>2, <3>3
  <2>3. QED
    BY <2>1, <2>2 DEF LimitToken, p
<1>9. CASE b # p
  <2> DEFINE k == b - 6
  <2>1. b # 7 + B
    BY <1>1, <1>5
  <2>2. k \in 1 .. B /\ b = 6 + k /\ q < k
    BY <1>1, <1>5, <1>9, <2>1
  <2> HIDE DEF k
  <2>3. w[k] # Blank
    <3>1. text[b] = w[k]
      BY <1>4, <2>2, Zenon
    <3>2. QED
      BY <1>5, <3>1
  <2>4. PICK u \in c.tokens : k \in u.begin + 1 .. u.end
    <3>1. MadeOf(w, c.tokens)
      BY <1>1, SelectsAssumption DEF w
    <3>2. k \in DOMAIN w
      <4>1. w \in Seq(Character)
        BY <1>1, QueryTextAssumption DEF w
      <4>2. QED
        BY <2>2, <4>1 DEF B, w
    <3>3. QED
      BY <2>3, <3>1, <3>2 DEF MadeOf
  <2>5. u.begin \in Nat /\ u.end \in Nat /\ u.begin + 1 <= k /\ k <= u.end
    BY <1>3, <2>2, <2>4
  <2>6. b = 7 + u.begin /\ q <= u.begin
    BY <1>7, <2>2, <2>5
  <2>7. EndOfToken(text, b) = 7 + u.end
    BY <2>6, BodyTokenEnds
  <2>8. NextToken(text, from) = Token(b, 7 + u.end)
    <3>1. b \in from .. Len(query) - 1
      BY <1>6 DEF E
    <3>2. QED
      BY <1>1, <1>5, <1>6, <2>7, <3>1, NextTokenAt
  <2>9. \A t \in c.tokens : t.end <= q \/ u.begin <= t.begin
    BY <1>3, <1>7, <2>5, <2>6
  <2>10. QED
    BY <2>6, <2>8, <2>9 DEF Moved
<1>10. QED
  BY <1>8, <1>9

\* At the beginning the scan finds SELECT.
LEMMA SelectFound ==
  ASSUME NEW c, NEW gap, IsStatementOf(c, gap)
  PROVE  /\ NextToken(text, 0) = Token(0, 6)
         /\ Matches(text, Token(0, 6), SELECT) /\ ~Matches(text, Token(0, 6), LIMIT)
<1>1. Received /\ text[6] = Blank /\ \A k \in 0 .. 5 : text[k] = SELECT[k + 1]
  BY StatementAt, StatementLaid
<1>2. /\ Len(SELECT) = 6 /\ Len(LIMIT) = 5
      /\ \A k \in 1 .. 6 : SELECT[k] # Blank /\ SELECT[k] \notin Separators /\ SELECT[k] \notin Quotes
  <2>1. /\ SELECT[1] = "s" /\ SELECT[2] = "e" /\ SELECT[3] = "l" /\ SELECT[4] = "e"
        /\ SELECT[5] = "c" /\ SELECT[6] = "t" /\ Len(SELECT) = 6
    BY DEF SELECT
  <2>2. ASSUME NEW x \in {"s", "e", "l", "c", "t"}
        PROVE  x # Blank /\ x \notin Separators /\ x \notin Quotes
    BY DEF Blank, Separators, Quotes, NUL
  <2>3. ASSUME NEW k \in 1 .. 6 PROVE SELECT[k] \in {"s", "e", "l", "c", "t"}
    BY <2>1
  <2>4. QED
    BY <2>1, <2>2, <2>3, LimitLetters
<1>3. ASSUME NEW k \in 0 .. 5
      PROVE  text[k] # Blank /\ text[k] \notin Separators /\ text[k] \notin Quotes
  <2>1. k + 1 \in 1 .. 6
    OBVIOUS
  <2>2. QED
    BY <1>1, <1>2, <2>1
<1>4. Len(query) \in Nat /\ Len(query) > 6
  <2> DEFINE G == Len(gap)
             N == Len(c.number)
             R == Len(c.rest)
             B == Len(c.body)
             E == Len(query)
             p == LimitAt(c)
  <2>1. p = 8 + B /\ E = p + 5 + G + N + R /\ G \in 1 .. 2 /\ N \in Nat /\ R \in Nat /\ E \in Nat
        /\ B \in Nat
    BY StatementAt
  <2> HIDE DEF G, N, R, B, E, p
  <2>2. E \in Nat /\ E > 6
    BY <2>1
  <2>3. QED
    BY <2>2 DEF E
<1>5. EndOfToken(text, 0) = 6
  <2>1. 0 \in Nat /\ 6 \in 0 + 1 .. Len(query) /\ text[6] \in Separators
    BY <1>1, <1>4 DEF Separators
  <2>2. \A x \in 0 + 1 .. 6 - 1 : text[x] \notin Separators
    BY <1>3
  <2>3. QED
    BY <1>1, <1>3, <2>1, <2>2, WordEnds
<1>6. NextToken(text, 0) = Token(0, 6)
  <2>1. 0 \in Nat /\ 0 \in 0 .. Len(query) - 1 /\ \A x \in 0 .. 0 - 1 : text[x] = Blank
    BY <1>4
  <2>2. text[0] # Blank
    BY <1>3
  <2>3. QED
    BY <1>1, <1>5, <2>1, <2>2, NextTokenAt
<1>7. Length(Token(0, 6)) = 6 /\ Token(0, 6).begin = 0
  BY DEF Length, Token
<1>8. ~Matches(text, Token(0, 6), LIMIT)
  BY <1>2, <1>7 DEF Matches
<1>9. Matches(text, Token(0, 6), SELECT)
  <2>1. ASSUME NEW k \in 1 .. 6 PROVE text[0 + k - 1] = SELECT[k]
    <3>1. k - 1 \in 0 .. 5 /\ k - 1 + 1 = k /\ 0 + k - 1 = k - 1
      OBVIOUS
    <3>2. text[k - 1] = SELECT[k - 1 + 1]
      BY <1>1, <3>1
    <3>3. QED
      BY <3>1, <3>2
  <2>2. QED
    BY <1>2, <1>7, <2>1 DEF Matches
<1>10. QED
  BY <1>6, <1>8, <1>9

\* A token of the body is taken for LIMIT if it is LIMIT, or LIMIT cut short.
LEMMA TakenForLimit ==
  ASSUME NEW c, NEW gap, IsStatementOf(c, gap), NEW u \in c.tokens
  PROVE  Matches(text, Moved(u), LIMIT) <=> Abbreviates(c.body, u)
<1> DEFINE B == Len(c.body)
           w == c.body
           b == u.begin
           e == u.end
           n == e - b
           s == SubSeq(w, b + 1, e)
<1>1. c \in Selects /\ \A k \in 1 .. B : text[6 + k] = w[k]
  BY StatementAt DEF IsStatementOf
<1>2. b \in Nat /\ e \in Nat /\ b < e /\ e <= B
  BY <1>1, BodyTokens
<1>3. w \in Seq(Character) /\ B \in Nat
  BY <1>1, StatementParts DEF IsStatementOf
<1>4. Moved(u).begin = 7 + b /\ Length(Moved(u)) = n
  BY <1>2 DEF Moved, Token, Length
<1>5. DOMAIN LIMIT = 1 .. 5 /\ Len(LIMIT) = 5 /\ LIMIT \in Seq(Character)
  BY LimitLetters, KeywordsAre
<1>6. s \in Seq(Character) /\ Len(s) = n /\ \A i \in 1 .. n : s[i] = w[b + i]
  <2>1. \A i \in b + 1 .. e : w[i] \in Character
    <3>1. \A i \in b + 1 .. e : i \in 1 .. Len(w)
      BY <1>2
    <3> HIDE DEF w
    <3>2. QED
      BY <1>3, <3>1, ElementOfSeq
  <2>2. /\ s \in Seq(Character) /\ Len(s) = IF b + 1 <= e THEN e - (b + 1) + 1 ELSE 0
        /\ \A i \in 1 .. e - (b + 1) + 1 : s[i] = w[b + 1 + i - 1]
    <3>1. b + 1 \in Int /\ e \in Int
      BY <1>2
    <3> HIDE DEF w, b, e
    <3>2. QED
      BY <2>1, <3>1, SubSeqProperties
  <2> HIDE DEF w, b, e, s
  <2>3. Len(s) = n /\ e - (b + 1) + 1 = n
    BY <1>2, <2>2
  <2>4. ASSUME NEW i \in 1 .. n PROVE s[i] = w[b + i]
    <3>1. i \in 1 .. e - (b + 1) + 1 /\ b + 1 + i - 1 = b + i
      BY <1>2, <2>3
    <3>2. s[i] = w[b + 1 + i - 1]
      BY <2>2, <3>1
    <3>3. QED
      BY <3>1, <3>2
  <2>5. QED
    BY <2>2, <2>3, <2>4
<1>7. ASSUME NEW m \in 1 .. 5
      PROVE  /\ SubSeq(LIMIT, 1, m) \in Seq(Character) /\ Len(SubSeq(LIMIT, 1, m)) = m
             /\ \A i \in 1 .. m : SubSeq(LIMIT, 1, m)[i] = LIMIT[i]
  <2>1. ASSUME NEW i \in 1 .. m PROVE LIMIT[i] \in Character
    <3>1. i \in 1 .. 5
      OBVIOUS
    <3>2. i \in 1 .. Len(LIMIT)
      BY <1>5, <3>1, Zenon
    <3>3. QED
      BY <1>5, <3>2, ElementOfSeq
  <2>2. /\ SubSeq(LIMIT, 1, m) \in Seq(Character)
        /\ Len(SubSeq(LIMIT, 1, m)) = IF 1 <= m THEN m - 1 + 1 ELSE 0
        /\ \A i \in 1 .. m - 1 + 1 : SubSeq(LIMIT, 1, m)[i] = LIMIT[1 + i - 1]
    BY <2>1, SubSeqProperties
  <2>3. QED
    BY <2>2
<1>8. Abbreviates(w, u) <=> \E m \in 1 .. 5 : s = SubSeq(LIMIT, 1, m)
  BY <1>5, Zenon DEF Abbreviates
<1>9. Matches(text, Moved(u), LIMIT) <=>
        n <= 5 /\ \A k \in 1 .. n : text[7 + b + k - 1] = LIMIT[k]
  BY <1>4, <1>5, Zenon DEF Matches
<1>uw. w = c.body
  OBVIOUS
<1>n. n \in Nat /\ n >= 1
  BY <1>2
<1>10. ASSUME NEW k \in 1 .. n PROVE text[7 + b + k - 1] = s[k]
  <2> DEFINE i == b + k
  <2>1. i \in 1 .. B /\ 7 + b + k - 1 = 6 + i
    BY <1>2, <1>3
  <2>2. text[6 + i] = w[i] /\ s[k] = w[i]
    BY <1>1, <1>6, <2>1
  <2> HIDE DEF i, s, w
  <2>3. QED
    BY <2>1, <2>2
<1> HIDE DEF s, w, n
<1>11. ASSUME Matches(text, Moved(u), LIMIT) PROVE Abbreviates(w, u)
  <2>1. n \in 1 .. 5
    BY <1>9, <1>11, <1>n
  <2>2. \A k \in 1 .. n : s[k] = LIMIT[k]
    BY <1>9, <1>10, <1>11
  <2>3. s = SubSeq(LIMIT, 1, n)
    <3> DEFINE r == SubSeq(LIMIT, 1, n)
    <3>1. r \in Seq(Character) /\ Len(r) = Len(s) /\ \A i \in 1 .. Len(s) : s[i] = r[i]
      BY <1>6, <1>7, <2>1, <2>2
    <3> HIDE DEF r
    <3>2. s = r
      BY <1>6, <3>1, SeqEqual
    <3>3. QED
      BY <3>2 DEF r
  <2>4. QED
    BY <1>8, <2>1, <2>3
<1>12. ASSUME Abbreviates(w, u) PROVE Matches(text, Moved(u), LIMIT)
  <2>1. PICK m \in 1 .. 5 : s = SubSeq(LIMIT, 1, m)
    BY <1>8, <1>12
  <2>2. n = m /\ \A k \in 1 .. n : s[k] = LIMIT[k]
    BY <1>6, <1>7, <2>1
  <2>3. n <= 5
    BY <2>2
  <2>4. \A k \in 1 .. n : text[7 + b + k - 1] = LIMIT[k]
    BY <1>10, <2>2
  <2>5. QED
    BY <1>9, <2>3, <2>4
<1>13. QED
  BY <1>11, <1>12, <1>uw

LEMMA LimitTaken ==
  ASSUME NEW c, NEW gap, IsStatementOf(c, gap)
  PROVE  Matches(text, LimitToken(c), LIMIT)
<1> DEFINE p == LimitAt(c)
           B == Len(c.body)
<1>0. p = 8 + B /\ B \in Nat /\ \A k \in 1 .. 5 : text[p + k - 1] = LIMIT[k]
  BY StatementAt
<1>1. p \in Nat /\ \A k \in 1 .. 5 : text[p + k - 1] = LIMIT[k]
  <2> HIDE DEF p, B
  <2>1. QED
    BY <1>0
<1>2. LimitToken(c).begin = LimitAt(c) /\ Length(LimitToken(c)) = 5
  BY <1>1 DEF LimitToken, Token, Length
<1>3. QED
  BY <1>1, <1>2, LimitLetters DEF Matches

\* Behind LIMIT and one blank, the number is found.
LEMMA NumberFound ==
  ASSUME NEW c, NEW gap, IsStatementOf(c, gap)
  PROVE  Len(gap) = 1 /\ Len(c.number) # 0 =>
           /\ NextToken(text, LimitAt(c) + 5) =
                Token(LimitAt(c) + 6, LimitAt(c) + 6 + Len(c.number))
           /\ LimitAt(c) + 6 + Len(c.number) <= Len(query)
<1> DEFINE p == LimitAt(c)
           B == Len(c.body)
           G == Len(gap)
           N == Len(c.number)
           R == Len(c.rest)
           E == Len(query)
           d == c.number
           r == c.rest
<1>c. c \in Selects
  BY DEF IsStatementOf
<1>r. Received
  BY StatementLaid
<1>1. /\ Received /\ B \in Nat /\ G \in 1 .. 2 /\ N \in Nat /\ R \in Nat
      /\ E \in Nat /\ p = 8 + B /\ E = p + 5 + G + N + R
      /\ \A k \in p + 5 .. p + 4 + G : text[k] = Blank
      /\ \A k \in 1 .. N : text[p + 4 + G + k] = d[k]
      /\ \A k \in 1 .. R : text[p + 4 + G + N + k] = r[k]
      /\ text[E] = NUL
  BY <1>r, StatementAt
<1>2. /\ d \in Seq(Character) /\ r \in Seq(Character)
  BY <1>c, QueryTextAssumption
<1>3. /\ \A k \in DOMAIN d : d[k] \notin Separators \cup Quotes
      /\ r # <<>> => r[1] \in Separators
  BY <1>c, SelectsAssumption
<1>4. /\ \A k \in 1 .. N : d[k] \notin Separators /\ d[k] \notin Quotes
      /\ R # 0 => r[1] \in Separators
  <2>1. R # 0 => r # <<>>
    OBVIOUS
  <2>2. QED
    BY <1>2, <1>3, <2>1
<1> SUFFICES ASSUME G = 1, N # 0
             PROVE  NextToken(text, p + 5) = Token(p + 6, p + 6 + N) /\ p + 6 + N <= E
  OBVIOUS
<1>5. G = 1 /\ N # 0
  OBVIOUS
<1> HIDE DEF p, B, G, N, R, E, d, r
<1>6. ASSUME NEW x \in p + 6 .. p + 5 + N
      PROVE  text[x] # Blank /\ text[x] \notin Separators /\ text[x] \notin Quotes
  <2> DEFINE k == x - p - 5
  <2>1. k \in 1 .. N /\ p + 4 + G + k = x
    BY <1>1, <1>5
  <2> HIDE DEF k
  <2>2. text[x] = d[k]
    BY <1>1, <2>1
  <2>3. QED
    BY <1>4, <2>1, <2>2 DEF Separators
<1>7. text[p + 6 + N] \in Separators
  <2>1. CASE R = 0
    <3>1. p + 6 + N = E
      BY <1>1, <1>5, <2>1
    <3>2. QED
      BY <1>1, <3>1 DEF Separators
  <2>2. CASE R # 0
    <3>1. 1 \in 1 .. R /\ p + 4 + G + N + 1 = p + 6 + N
      BY <1>1, <1>5, <2>2
    <3>2. text[p + 6 + N] = r[1]
      BY <1>1, <3>1
    <3>3. QED
      BY <1>4, <2>2, <3>2
  <2>3. QED
    BY <2>1, <2>2
<1>8. /\ p + 6 \in Nat /\ p + 6 + N \in (p + 6) + 1 .. E /\ p + 6 \in p + 6 .. p + 5 + N
      /\ \A x \in (p + 6) + 1 .. (p + 6 + N) - 1 : x \in p + 6 .. p + 5 + N
      /\ p + 5 \in Nat /\ p + 6 \in p + 5 .. E - 1 /\ p + 6 + N <= E
  BY <1>1, <1>5
<1>9. text[p + 6] \notin Quotes /\ text[p + 6] # Blank
  BY <1>6, <1>8
<1>10. \A x \in (p + 6) + 1 .. (p + 6 + N) - 1 : text[x] \notin Separators
  BY <1>6, <1>8
<1>11. EndOfToken(text, p + 6) = p + 6 + N
  <2>1. p + 6 + N \in (p + 6) + 1 .. Len(query)
    BY <1>8 DEF E
  <2>2. QED
    BY <1>1, <1>7, <1>8, <1>9, <1>10, <2>1, WordEnds
<1>12. \A x \in p + 5 .. (p + 6) - 1 : text[x] = Blank
  <2>1. \A x \in p + 5 .. (p + 6) - 1 : x \in p + 5 .. p + 4 + G
    BY <1>1, <1>5
  <2>2. QED
    BY <1>1, <2>1
<1>13. NextToken(text, p + 5) = Token(p + 6, p + 6 + N)
  <2>1. p + 6 \in p + 5 .. Len(query) - 1
    BY <1>8 DEF E
  <2>2. QED
    BY <1>1, <1>8, <1>9, <1>11, <1>12, <2>1, NextTokenAt
<1>14. QED
  BY <1>8, <1>13

\* A token does not begin with a blank.
LEMMA TokenNotBlank ==
  ASSUME Received, NEW p \in Nat, p <= Len(query), NextToken(text, p) # NoToken
  PROVE  text[NextToken(text, p).begin] # Blank
<1> DEFINE E == Len(query)
           S == {q \in p .. EndOf(text) : text[q] # Blank}
<1>1. E \in Nat /\ EndOf(text) = E /\ text[E] = NUL
  BY DEF Received
<1>2. E \in S /\ S \subseteq Nat
  <2>1. text[E] # Blank
    BY <1>1 DEF Blank, NUL
  <2>2. E \in p .. EndOf(text)
    BY <1>1
  <2>3. QED
    BY <1>1, <2>1, <2>2
<1>3. Least(S) \in S
  BY <1>2, LeastIs
<1>4. text[ConsumeWhitespace(text, p)] # Blank
  BY <1>3 DEF ConsumeWhitespace
<1>5. NextToken(text, p).begin = ConsumeWhitespace(text, p)
  BY DEF NextToken, Token
<1>6. QED
  BY <1>4, <1>5

-----------------------------------------------------------------------------
(* The scan of a statement.                                                *)

\* No token of the body, up to a position, is taken for LIMIT.
NoneTaken(c, e) == \A u \in c.tokens : u.end <= e => ~Abbreviates(c.body, u)

\* The scan stands before SELECT, behind it, or behind a token of the body.
Scanning(c) ==
  \/ position = 0 /\ select_begin = NULL /\ next_token_after_select = NULL
  \/ position = 6 /\ select_begin = 0 /\ next_token_after_select = NULL
  \/ /\ select_begin = 0 /\ next_token_after_select = 7
     /\ \E t \in c.tokens : position = 7 + t.end /\ NoneTaken(c, t.end)

\* It has found a token that is taken for LIMIT, or there is none but LIMIT.
Located(c) ==
  /\ next_token_after_select = 7
  /\ number = NextToken(Array(query), clause.end)
  /\ \/ \E u \in c.tokens : clause = Moved(u) /\ Abbreviates(c.body, u)
     \/ clause = LimitToken(c) /\ \A u \in c.tokens : ~Abbreviates(c.body, u)

StatementScan ==
  \A c \in Selects, gap \in Gaps : query = SelectLimit(c, gap) =>
    /\ pc \notin {"like", "like_done"}
    /\ pc = "dispatch" =>
         position = 0 /\ select_begin = NULL /\ next_token_after_select = NULL
    /\ pc = "limit" => Scanning(c)
    /\ pc = "limit_done" => Located(c)

\* What one iteration does, by cases.
LEMMA ScanLimitIs ==
  ASSUME ScanLimit
  PROVE  LET token == NextToken(text, position)
         IN  /\ pc = "limit" /\ UNCHANGED <<query, text, sent>>
             /\ select_begin = NULL /\ Matches(text, token, SELECT) =>
                  /\ select_begin' = token.begin
                  /\ next_token_after_select' = next_token_after_select
             /\ select_begin # NULL =>
                  /\ select_begin' = select_begin
                  /\ next_token_after_select' = IF next_token_after_select = NULL
                                                THEN token.begin ELSE next_token_after_select
             /\ Matches(text, token, LIMIT) =>
                  pc' = "limit_done" /\ clause' = token /\ number' = NextToken(text, token.end)
             /\ ~Matches(text, token, LIMIT) => pc' = "limit" /\ position' = token.end
BY DEF ScanLimit, Goto, NextPosition

\* One iteration at a token of the body.
LEMMA ScanBody ==
  ASSUME NEW c, NEW gap, IsStatementOf(c, gap), ScanLimit,
         select_begin = 0, NEW u \in c.tokens, NextToken(text, position) = Moved(u),
         next_token_after_select' = 7, NoneTaken(c, u.end - 1),
         \A t \in c.tokens : t.end <= u.end => t = u \/ t.end < u.end
  PROVE  /\ pc' = "limit" => Scanning(c)'
         /\ pc' = "limit_done" => Located(c)'
         /\ pc' \in {"limit", "limit_done"}
<1> DEFINE token == NextToken(text, position)
<1>1. /\ pc = "limit" /\ query' = query /\ text' = text /\ select_begin' = 0
      /\ Matches(text, token, LIMIT) =>
           pc' = "limit_done" /\ clause' = token /\ number' = NextToken(text, token.end)
      /\ ~Matches(text, token, LIMIT) => pc' = "limit" /\ position' = token.end
  BY ScanLimitIs DEF NULL
<1>2. token = Moved(u)
  OBVIOUS
<1>3. Matches(text, token, LIMIT) <=> Abbreviates(c.body, u)
  BY <1>2, TakenForLimit, Zenon
<1>4. text = Array(query) /\ c \in Selects
  BY DEF IsStatementOf
<1> HIDE DEF token
<1>5. CASE Abbreviates(c.body, u)
  <2>1. pc' = "limit_done" /\ clause' = Moved(u) /\ number' = NextToken(text, clause'.end)
    BY <1>1, <1>2, <1>3, <1>5
  <2>2. number' = NextToken(Array(query'), clause'.end)
    BY <1>1, <1>4, <2>1
  <2>3. Located(c)'
    BY <1>5, <2>1, <2>2 DEF Located
  <2>4. QED
    BY <2>1, <2>3
<1>6. CASE ~Abbreviates(c.body, u)
  <2>1. pc' = "limit" /\ position' = Moved(u).end
    BY <1>1, <1>2, <1>3, <1>6
  <2>2. position' = 7 + u.end
    BY <2>1 DEF Moved, Token
  <2>3. NoneTaken(c, u.end)
    <3>1. ASSUME NEW t \in c.tokens, t.end <= u.end PROVE ~Abbreviates(c.body, t)
      <4>1. CASE t = u
        BY <1>6, <4>1
      <4>2. CASE t.end < u.end
        <5>1. t.end \in Nat /\ u.end \in Nat
          BY <1>4, BodyTokens
        <5>2. t.end <= u.end - 1
          BY <4>2, <5>1
        <5>3. QED
          BY <5>2 DEF NoneTaken
      <4>3. QED
        BY <3>1, <4>1, <4>2
    <3>2. QED
      BY <3>1 DEF NoneTaken
  <2>4. Scanning(c)'
    <3>1. select_begin' = 0 /\ next_token_after_select' = 7
      BY <1>1
    <3>2. QED
      BY <2>2, <2>3, <3>1 DEF Scanning
  <2>5. QED
    BY <2>1, <2>4
<1>7. QED
  BY <1>5, <1>6

LEMMA ScanStep ==
  ASSUME NEW c, NEW gap, IsStatementOf(c, gap), Scanning(c), ScanLimit
  PROVE  /\ pc' = "limit" => Scanning(c)'
         /\ pc' = "limit_done" => Located(c)'
         /\ pc' \in {"limit", "limit_done"}
<1> DEFINE token == NextToken(text, position)
<1>1. c \in Selects /\ text = Array(query)
  BY DEF IsStatementOf
<1>2. PICK first \in c.tokens : first.begin = 0
  BY <1>1, SelectsAssumption
<1>3. \A t \in c.tokens :
        /\ t.begin \in Nat /\ t.end \in Nat /\ t.begin < t.end /\ t.end <= Len(c.body)
        /\ \A u \in c.tokens : t = u \/ t.end <= u.begin \/ u.end <= t.begin
  BY <1>1, BodyTokens
<1>4. ScanLimit /\ query' = query /\ text' = text
  BY ScanLimitIs
<1>5. CASE position = 0 /\ select_begin = NULL /\ next_token_after_select = NULL
  <2>1. /\ token = Token(0, 6) /\ Matches(text, token, SELECT) /\ ~Matches(text, token, LIMIT)
    BY <1>5, SelectFound
  <2>2. token.begin = 0 /\ token.end = 6
    BY <2>1 DEF Token
  <2>3. /\ select_begin' = 0 /\ next_token_after_select' = NULL
        /\ pc' = "limit" /\ position' = 6
    BY <1>4, <1>5, <2>1, <2>2, ScanLimitIs
  <2>4. QED
    BY <2>3 DEF Scanning
<1>6. CASE position = 6 /\ select_begin = 0 /\ next_token_after_select = NULL
  <2>1. /\ 0 \in Nat /\ 0 <= Len(c.body) /\ 6 \in 6 .. 7 + 0
        /\ \A t \in c.tokens : t.end <= 0 \/ 0 <= t.begin
    BY <1>2, <1>3
  <2>2. \/ \E u \in c.tokens :
             /\ token = Moved(u) /\ 0 <= u.begin
             /\ \A t \in c.tokens : t.end <= 0 \/ u.begin <= t.begin
        \/ \A t \in c.tokens : t.end <= 0
    BY <1>6, <2>1, NextInBody
  <2>3. PICK u \in c.tokens :
          token = Moved(u) /\ \A t \in c.tokens : t.end <= 0 \/ u.begin <= t.begin
    <3>1. ~(first.end <= 0)
      BY <1>2, <1>3
    <3>2. QED
      BY <1>2, <2>2, <3>1
  <2>4. u.begin = 0 /\ u.end \in Nat /\ 0 < u.end
    BY <1>2, <1>3, <2>3
  <2>5. token.begin = 7
    <3>1. 7 + 0 = 7
      OBVIOUS
    <3>2. QED
      BY <2>3, <2>4, <3>1 DEF Moved, Token
  <2>6. next_token_after_select' = 7
    <3>1. select_begin # NULL
      BY <1>6 DEF NULL
    <3>2. next_token_after_select' = token.begin
      BY <1>4, <1>6, <3>1, ScanLimitIs
    <3>3. QED
      BY <2>5, <3>2
  <2>7. \A t \in c.tokens : t.end <= u.end => t = u
    BY <1>3, <2>4
  <2>8. NoneTaken(c, u.end - 1)
    <3>1. \A t \in c.tokens : ~(t.end <= u.end - 1)
      <4>1. ASSUME NEW t \in c.tokens, t.end <= u.end - 1 PROVE FALSE
        <5>1. t.end \in Nat /\ t.end <= u.end
          BY <1>3, <2>4, <4>1
        <5>2. t = u
          BY <2>7, <5>1
        <5>3. QED
          BY <2>4, <4>1, <5>2
      <4>2. QED
        BY <4>1
    <3>2. QED
      BY <3>1 DEF NoneTaken
  <2>9. QED
    BY <1>4, <1>6, <2>3, <2>6, <2>7, <2>8, ScanBody
<1>7. CASE /\ select_begin = 0 /\ next_token_after_select = 7
           /\ \E t \in c.tokens : position = 7 + t.end /\ NoneTaken(c, t.end)
  <2>1. PICK t \in c.tokens : position = 7 + t.end /\ NoneTaken(c, t.end)
    BY <1>7
  <2> DEFINE q == t.end
  <2>2. /\ q \in Nat /\ q <= Len(c.body) /\ position \in 6 .. 7 + q
        /\ \A u \in c.tokens : u.end <= q \/ q <= u.begin
    <3>1. t.end \in Nat /\ t.end <= Len(c.body) /\ t.begin \in Nat /\ t.begin < t.end
      BY <1>3, <2>1
    <3>2. position \in 6 .. 7 + t.end
      BY <2>1, <3>1
    <3>3. ASSUME NEW u \in c.tokens PROVE u.end <= t.end \/ t.end <= u.begin
      <4>1. t = u \/ t.end <= u.begin \/ u.end <= t.begin
        BY <1>3, <2>1
      <4>2. u.end \in Nat
        BY <1>3
      <4>3. QED
        BY <3>1, <4>1, <4>2
    <3>4. QED
      BY <3>1, <3>2, <3>3
  <2>3. position = 7 + q
    BY <2>1
  <2> HIDE DEF q
  <2>4. \/ \E u \in c.tokens :
             /\ token = Moved(u) /\ q <= u.begin
             /\ \A v \in c.tokens : v.end <= q \/ u.begin <= v.begin
        \/ /\ token = LimitToken(c)
           /\ \A v \in c.tokens : v.end <= q
    BY <2>2, <2>3, NextInBody
  <2>5. next_token_after_select' = 7
    <3>1. select_begin # NULL /\ next_token_after_select # NULL
      BY <1>7 DEF NULL
    <3>2. QED
      BY <1>4, <1>7, <3>1, ScanLimitIs
  <2>6. CASE \E u \in c.tokens :
               /\ token = Moved(u) /\ q <= u.begin
               /\ \A v \in c.tokens : v.end <= q \/ u.begin <= v.begin
    <3>1. PICK u \in c.tokens :
            /\ token = Moved(u) /\ q <= u.begin
            /\ \A v \in c.tokens : v.end <= q \/ u.begin <= v.begin
      BY <2>6
    <3>2. u.begin \in Nat /\ u.end \in Nat /\ u.begin < u.end
      BY <1>3
    <3>3. ASSUME NEW v \in c.tokens, v.end <= u.end PROVE v = u \/ v.end <= q
      <4>1. /\ v = u \/ v.end <= u.begin \/ u.end <= v.begin
            /\ v.begin \in Nat /\ v.end \in Nat /\ v.begin < v.end
        BY <1>3
      <4>2. v.end <= q \/ u.begin <= v.begin
        BY <3>1
      <4>3. QED
        BY <3>2, <3>3, <4>1, <4>2
    <3>4. \A v \in c.tokens : v.end <= u.end => v = u \/ v.end < u.end
      <4>1. ASSUME NEW v \in c.tokens, v.end <= u.end PROVE v = u \/ v.end < u.end
        <5>1. v = u \/ v.end <= q
          BY <3>3, <4>1
        <5>2. v.end \in Nat
          BY <1>3
        <5>3. QED
          BY <2>2, <3>1, <3>2, <5>1, <5>2
      <4>2. QED
        BY <4>1
    <3>5. NoneTaken(c, u.end - 1)
      <4>1. ASSUME NEW v \in c.tokens, v.end <= u.end - 1 PROVE ~Abbreviates(c.body, v)
        <5>1. v.end \in Nat /\ v.end <= u.end /\ v # u
          BY <1>3, <3>2, <4>1
        <5>2. v.end <= q
          BY <3>3, <5>1
        <5>3. QED
          BY <2>1, <5>2 DEF NoneTaken, q
      <4>2. QED
        BY <4>1 DEF NoneTaken
    <3>6. QED
      BY <1>4, <1>7, <2>5, <3>1, <3>4, <3>5, ScanBody
  <2>7. CASE token = LimitToken(c) /\ \A v \in c.tokens : v.end <= q
    <3>1. Matches(text, token, LIMIT)
      BY <2>7, LimitTaken
    <3>2. pc' = "limit_done" /\ clause' = LimitToken(c) /\ number' = NextToken(text, clause'.end)
      BY <1>4, <2>7, <3>1, ScanLimitIs
    <3>3. number' = NextToken(Array(query'), clause'.end)
      BY <1>1, <1>4, <3>2
    <3>4. \A v \in c.tokens : ~Abbreviates(c.body, v)
      BY <2>1, <2>7 DEF NoneTaken, q
    <3>5. Located(c)'
      BY <2>5, <3>2, <3>3, <3>4 DEF Located
    <3>6. QED
      BY <3>2, <3>5
  <2>8. QED
    BY <2>4, <2>6, <2>7
<1>8. QED
  BY <1>5, <1>6, <1>7 DEF Scanning

-----------------------------------------------------------------------------
(* What is sent for a statement.                                           *)

\* A cut is what stands there.
LEMMA CutEquals ==
  ASSUME Received, NEW s, NEW b \in Nat, NEW m \in Nat, NEW e, e = b + m, e <= Len(query),
         Stands(s, text, b, m)
  PROVE  Cut(b, e) = s
<1>1. e \in Nat /\ b <= e /\ e - b = m
  OBVIOUS
<1>c. /\ Cut(b, e) \in Seq(Character) /\ Len(Cut(b, e)) = e - b
      /\ \A k \in 1 .. e - b : Cut(b, e)[k] = text[b + k - 1]
  BY <1>1, CutIs
<1>2. /\ Cut(b, e) \in Seq(Character) /\ Len(Cut(b, e)) = m
      /\ \A k \in 1 .. m : Cut(b, e)[k] = text[b + k - 1]
  BY <1>1, <1>c, Zenon
<1>3. /\ s \in Seq(Character) /\ Len(s) = m
      /\ \A k \in 1 .. m : s[k] = text[b + k - 1]
  BY DEF Stands
<1> DEFINE r == Cut(b, e)
<1>4. r \in Seq(Character) /\ Len(r) = Len(s) /\ \A k \in 1 .. Len(r) : r[k] = s[k]
  BY <1>2, <1>3
<1> HIDE DEF r
<1>5. r = s
  BY <1>3, <1>4, SeqEqual
<1>6. QED
  BY <1>5 DEF r

\* Two sequences that stand one behind the other.
LEMMA StandsJoin ==
  ASSUME NEW r, NEW A, NEW B, NEW n \in Nat, NEW a \in Nat, NEW b \in Nat,
         Stands(A, r, n, a), Stands(B, r, n + a, b)
  PROVE  Stands(A \o B, r, n, a + b)
<1> USE DEF Stands
<1>1. /\ A \o B \in Seq(Character) /\ Len(A \o B) = Len(A) + Len(B)
      /\ \A i \in 1 .. Len(A) + Len(B) :
           (A \o B)[i] = IF i <= Len(A) THEN A[i] ELSE B[i - Len(A)]
  BY ConcatProperties
<1>2. ASSUME NEW k \in 1 .. a + b PROVE (A \o B)[k] = r[n + k - 1]
  <2>1. CASE k <= a
    <3>1. k \in 1 .. a /\ (A \o B)[k] = A[k]
      BY <1>1, <2>1
    <3>2. QED
      BY <3>1
  <2>2. CASE ~(k <= a)
    <3> DEFINE j == k - a
    <3>1. j \in 1 .. b /\ (A \o B)[k] = B[j] /\ n + a + j - 1 = n + k - 1
      BY <1>1, <2>2
    <3> HIDE DEF j
    <3>2. B[j] = r[n + a + j - 1]
      BY <3>1
    <3>3. QED
      BY <3>1, <3>2
  <2>3. QED
    BY <2>1, <2>2
<1>3. QED
  BY <1>1, <1>2

LEMMA BlankStands ==
  ASSUME NEW n \in Nat, text[n] = Blank
  PROVE  Stands(<<Blank>>, text, n, 1)
<1>1. ASSUME NEW k \in 1 .. 1 PROVE <<Blank>>[k] = text[n + k - 1]
  <2>1. k = 1 /\ n + k - 1 = n
    OBVIOUS
  <2>2. QED
    BY <2>1
<1>2. QED
  BY <1>1, QueryTextAssumption DEF Stands

\* The parts of a statement that the SELECT TOP is made of, cut from the query.
LEMMA StatementCuts ==
  ASSUME NEW c, NEW gap, IsStatementOf(c, gap)
  PROVE  LET p == LimitAt(c)
             n == NumberAt(c, gap)
             r == RestAt(c, gap)
         IN  /\ Cut(0, 7) = SELECT \o <<Blank>> /\ Cut(7, p) = c.body \o <<Blank>>
             /\ Cut(n, r) = c.number /\ Cut(r, Len(query)) = c.rest
<1> DEFINE p == LimitAt(c)
           n == NumberAt(c, gap)
           r == RestAt(c, gap)
           B == Len(c.body)
           G == Len(gap)
           N == Len(c.number)
           R == Len(c.rest)
           E == Len(query)
           body == c.body
           digits == c.number
           rest == c.rest
           blank == <<Blank>>
<1>1. /\ B \in Nat /\ N \in Nat /\ R \in Nat /\ G \in Nat /\ E \in Nat
      /\ p = 8 + B /\ n = p + 5 + G /\ r = n + N /\ E = r + R
  BY StatementParts, StatementLaid DEF LimitAt, NumberAt, RestAt, IsStatementOf, Received
<1>2. /\ Received /\ text[6] = Blank /\ text[7 + B] = Blank
      /\ Stands(SELECT, text, 0, 6) /\ Stands(body, text, 7, B)
      /\ Stands(digits, text, n, N) /\ Stands(rest, text, r, R)
  BY StatementLaid
<1>3. /\ n \in Nat /\ r \in Nat /\ 7 + B \in Nat /\ B + 1 \in Nat /\ p = 7 + (B + 1)
      /\ 7 <= E /\ p <= E /\ r <= E
  <2> HIDE DEF p, n, r, B, G, N, R, E
  <2>1. QED
    BY <1>1
<1>4. Stands(blank, text, 6, 1) /\ Stands(blank, text, 7 + B, 1)
  BY <1>2, <1>3, BlankStands
<1> HIDE DEF p, n, r, B, G, N, R, body, digits, rest, blank
<1>5. Stands(SELECT \o blank, text, 0, 7)
  <2>1. 0 \in Nat /\ 6 \in Nat /\ 1 \in Nat /\ 0 + 6 = 6 /\ 6 + 1 = 7
    OBVIOUS
  <2>2. Stands(SELECT \o blank, text, 0, 6 + 1)
    BY <1>2, <1>4, <2>1, StandsJoin
  <2>3. QED
    BY <2>1, <2>2
<1>6. Stands(body \o blank, text, 7, B + 1)
  <2>1. 7 \in Nat /\ 1 \in Nat
    OBVIOUS
  <2>2. QED
    BY <1>1, <1>2, <1>4, <2>1, StandsJoin
<1>7. Cut(0, 7) = SELECT \o blank
  <2> DEFINE s == SELECT \o blank
  <2>1. 0 \in Nat /\ 7 \in Nat /\ 7 = 0 + 7 /\ 7 <= Len(query)
    BY <1>3
  <2> HIDE DEF s
  <2>2. Stands(s, text, 0, 7)
    BY <1>5 DEF s
  <2>3. Cut(0, 7) = s
    BY <1>2, <2>1, <2>2, CutEquals
  <2>4. QED
    BY <2>3 DEF s
<1>8. Cut(7, p) = body \o blank
  <2> DEFINE s == body \o blank
             m == B + 1
  <2>1. 7 \in Nat /\ m \in Nat /\ p = 7 + m /\ p <= Len(query)
    BY <1>3
  <2> HIDE DEF s, m
  <2>2. Stands(s, text, 7, m)
    BY <1>6 DEF s, m
  <2>3. Cut(7, p) = s
    BY <1>2, <2>1, <2>2, CutEquals
  <2>4. QED
    BY <2>3 DEF s
<1>9. Cut(n, r) = digits
  BY <1>1, <1>2, <1>3, CutEquals
<1>10. Cut(r, E) = rest
  BY <1>1, <1>2, <1>3, CutEquals
<1>11. QED
  BY <1>7, <1>8, <1>9, <1>10 DEF p, n, r, body, digits, rest, blank

\* What the SELECT TOP holds, as far as is needed.
LEMMA TopParts ==
  ASSUME NEW c \in Selects
  PROVE  LET B == Len(c.body)
             N == Len(c.number)
             s == SelectTop(c)
         IN  /\ s \in Seq(Character) /\ Len(s) = 14 + B + N + Len(c.rest)
             /\ N # 0 => s[13] = c.number[1]
             /\ N = 0 => s[13] = Blank
             /\ s[14 + B + N] = Blank
<1> DEFINE blank == <<Blank>>
           body == c.body
           digits == c.number
           rest == c.rest
           S1 == SELECT \o blank
           S2 == S1 \o TOP
           S3 == S2 \o digits
           S4 == S3 \o blank
           S5 == S4 \o body
           S6 == S5 \o blank
           S7 == S6 \o rest
           B == Len(body)
           N == Len(digits)
           R == Len(rest)
           L1 == Len(S1)
           L2 == Len(S2)
           L3 == Len(S3)
           L4 == Len(S4)
           L5 == Len(S5)
           L6 == Len(S6)
           len == Len(S7)
           array == [x \in 0 .. len - 1 |-> S7[x + 1]]
<1>1. Gaps # {}
  BY DEF Gaps
<1>2. /\ body \in Seq(Character) /\ digits \in Seq(Character) /\ rest \in Seq(Character)
      /\ SELECT \in Seq(Character) /\ blank \in Seq(Character) /\ TOP \in Seq(Character)
      /\ B \in Nat /\ N \in Nat /\ R \in Nat
      /\ 6 = Len(SELECT) /\ 1 = Len(blank) /\ 5 = Len(TOP)
  BY <1>1, StatementParts, KeywordsAre
<1>3. SelectTop(c) = S7
  BY Zenon DEF SelectTop
<1>4. /\ S1 = SELECT \o blank /\ S2 = S1 \o TOP /\ S3 = S2 \o digits /\ S4 = S3 \o blank
      /\ S5 = S4 \o body /\ S6 = S5 \o blank /\ S7 = S6 \o rest
      /\ B = Len(body) /\ N = Len(digits) /\ R = Len(rest)
      /\ L1 = Len(S1) /\ L2 = Len(S2) /\ L3 = Len(S3) /\ L4 = Len(S4) /\ L5 = Len(S5)
      /\ L6 = Len(S6) /\ blank[1] = Blank
      /\ len = Len(S7) /\ array = [x \in 0 .. len - 1 |-> S7[x + 1]]
  OBVIOUS
<1> HIDE DEF blank, body, digits, rest, S1, S2, S3, S4, S5, S6, S7, B, N, R, L1, L2, L3, L4, L5, L6, len, array
<1>s1. S1 \in Seq(Character)
  BY <1>2, <1>4, ConcatProperties
<1>s2. S2 \in Seq(Character)
  BY <1>2, <1>4, <1>s1, ConcatProperties
<1>s3. S3 \in Seq(Character)
  BY <1>2, <1>4, <1>s2, ConcatProperties
<1>s4. S4 \in Seq(Character)
  BY <1>2, <1>4, <1>s3, ConcatProperties
<1>s5. S5 \in Seq(Character)
  BY <1>2, <1>4, <1>s4, ConcatProperties
<1>s6. S6 \in Seq(Character)
  BY <1>2, <1>4, <1>s5, ConcatProperties
<1>s7. S7 \in Seq(Character)
  BY <1>2, <1>4, <1>s6, ConcatProperties
<1>a. ASSUME NEW x \in 0 .. len - 1 PROVE array[x] = S7[x + 1]
  BY <1>4
<1>begins. Begins(S7, array, len)
  <2>1. len \in Nat
    BY <1>4, <1>s7, LenProperties
  <2>2. ASSUME NEW k \in 1 .. len PROVE S7[k] = array[k - 1]
    <3>1. k - 1 \in 0 .. len - 1 /\ k - 1 + 1 = k
      BY <2>1
    <3>2. array[k - 1] = S7[k - 1 + 1]
      BY <1>a, <3>1
    <3>3. QED
      BY <3>1, <3>2
  <2>3. QED
    BY <1>4, <1>s7, <2>2 DEF Begins
<1>5. Begins(S6, array, L6) /\ Stands(rest, array, L6, R) /\ len = L6 + R
  <2>1. S6 \in Seq(Character) /\ rest \in Seq(Character)
    BY <1>2, <1>s6
  <2>2. Begins(S6 \o rest, array, len)
    BY <1>4, <1>begins, Zenon
  <2>3. /\ Begins(S6, array, Len(S6)) /\ Stands(rest, array, Len(S6), Len(rest))
        /\ len = Len(S6) + Len(rest)
    BY <2>1, <2>2, Splits, Zenon
  <2>4. QED
    BY <1>2, <1>4, <2>3, Zenon
<1>6. Begins(S5, array, L5) /\ Stands(blank, array, L5, 1) /\ L6 = L5 + 1
  <2>1. S5 \in Seq(Character) /\ blank \in Seq(Character)
    BY <1>2, <1>s5
  <2>2. Begins(S5 \o blank, array, L6)
    BY <1>4, <1>5, Zenon
  <2>3. /\ Begins(S5, array, Len(S5)) /\ Stands(blank, array, Len(S5), Len(blank))
        /\ L6 = Len(S5) + Len(blank)
    BY <2>1, <2>2, Splits, Zenon
  <2>4. QED
    BY <1>2, <1>4, <2>3, Zenon
<1>7. Begins(S4, array, L4) /\ Stands(body, array, L4, B) /\ L5 = L4 + B
  <2>1. S4 \in Seq(Character) /\ body \in Seq(Character)
    BY <1>2, <1>s4
  <2>2. Begins(S4 \o body, array, L5)
    BY <1>4, <1>6, Zenon
  <2>3. /\ Begins(S4, array, Len(S4)) /\ Stands(body, array, Len(S4), Len(body))
        /\ L5 = Len(S4) + Len(body)
    BY <2>1, <2>2, Splits, Zenon
  <2>4. QED
    BY <1>2, <1>4, <2>3, Zenon
<1>8. Begins(S3, array, L3) /\ Stands(blank, array, L3, 1) /\ L4 = L3 + 1
  <2>1. S3 \in Seq(Character) /\ blank \in Seq(Character)
    BY <1>2, <1>s3
  <2>2. Begins(S3 \o blank, array, L4)
    BY <1>4, <1>7, Zenon
  <2>3. /\ Begins(S3, array, Len(S3)) /\ Stands(blank, array, Len(S3), Len(blank))
        /\ L4 = Len(S3) + Len(blank)
    BY <2>1, <2>2, Splits, Zenon
  <2>4. QED
    BY <1>2, <1>4, <2>3, Zenon
<1>9. Begins(S2, array, L2) /\ Stands(digits, array, L2, N) /\ L3 = L2 + N
  <2>1. S2 \in Seq(Character) /\ digits \in Seq(Character)
    BY <1>2, <1>s2
  <2>2. Begins(S2 \o digits, array, L3)
    BY <1>4, <1>8, Zenon
  <2>3. /\ Begins(S2, array, Len(S2)) /\ Stands(digits, array, Len(S2), Len(digits))
        /\ L3 = Len(S2) + Len(digits)
    BY <2>1, <2>2, Splits, Zenon
  <2>4. QED
    BY <1>2, <1>4, <2>3, Zenon
<1>10. Begins(S1, array, L1) /\ Stands(TOP, array, L1, 5) /\ L2 = L1 + 5
  <2>1. S1 \in Seq(Character) /\ TOP \in Seq(Character)
    BY <1>2, <1>s1
  <2>2. Begins(S1 \o TOP, array, L2)
    BY <1>4, <1>9, Zenon
  <2>3. /\ Begins(S1, array, Len(S1)) /\ Stands(TOP, array, Len(S1), Len(TOP))
        /\ L2 = Len(S1) + Len(TOP)
    BY <2>1, <2>2, Splits, Zenon
  <2>4. QED
    BY <1>2, <1>4, <2>3, Zenon
<1>11. Begins(SELECT, array, 6) /\ Stands(blank, array, 6, 1) /\ L1 = 6 + 1
  <2>1. SELECT \in Seq(Character) /\ blank \in Seq(Character)
    BY <1>2
  <2>2. Begins(SELECT \o blank, array, L1)
    BY <1>4, <1>10, Zenon
  <2>3. /\ Begins(SELECT, array, Len(SELECT)) /\ Stands(blank, array, Len(SELECT), Len(blank))
        /\ L1 = Len(SELECT) + Len(blank)
    BY <2>1, <2>2, Splits, Zenon
  <2>4. QED
    BY <1>2, <1>4, <2>3, Zenon
<1>12. /\ L2 = 12 /\ L3 = 12 + N /\ L5 = 13 + B + N
       /\ len = 14 + B + N + R
  BY <1>2, <1>5, <1>6, <1>7, <1>8, <1>9, <1>10, <1>11
<1>13. array[13 + B + N] = Blank
  <2> DEFINE x == 13 + B + N
  <2>1. x + 1 - 1 = x /\ 1 \in 1 .. 1
    BY <1>2
  <2> HIDE DEF x
  <2>2. blank[1] = array[x + 1 - 1]
    BY <1>6, <1>12, <2>1 DEF Stands, x
  <2>3. QED
    BY <1>4, <2>1, <2>2 DEF x
<1>14. N # 0 => array[12] = digits[1]
  <2>1. ASSUME N # 0 PROVE array[12] = digits[1]
    <3>1. 1 \in 1 .. N /\ 12 + 1 - 1 = 12
      BY <1>2, <2>1
    <3>2. digits[1] = array[12 + 1 - 1]
      BY <1>9, <1>12, <3>1 DEF Stands
    <3>3. QED
      BY <3>1, <3>2
  <2>2. QED
    BY <2>1
<1>15. N = 0 => array[12] = Blank
  <2>1. ASSUME N = 0 PROVE array[12] = Blank
    <3>1. L3 = 12 /\ 1 \in 1 .. 1 /\ 12 + 1 - 1 = 12
      BY <1>12, <2>1
    <3>2. blank[1] = array[12 + 1 - 1]
      BY <1>8, <3>1 DEF Stands
    <3>3. QED
      BY <1>4, <3>1, <3>2
  <2>2. QED
    BY <2>1
<1>16. array[12] = S7[13] /\ array[13 + B + N] = S7[14 + B + N]
  <2>1. 12 \in 0 .. len - 1 /\ 13 + B + N \in 0 .. len - 1
        /\ 12 + 1 = 13 /\ (13 + B + N) + 1 = 14 + B + N
    BY <1>2, <1>12
  <2> DEFINE x == 13 + B + N
  <2>2. x \in 0 .. len - 1 /\ x + 1 = 14 + B + N
    BY <2>1
  <2> HIDE DEF x
  <2>3. array[x] = S7[x + 1]
    BY <1>a, <2>2
  <2>4. array[12] = S7[12 + 1]
    BY <1>a, <2>1
  <2>5. QED
    BY <2>1, <2>2, <2>3, <2>4 DEF x
<1>17. /\ S7 \in Seq(Character) /\ Len(S7) = 14 + B + N + R
       /\ N # 0 => S7[13] = digits[1]
       /\ N = 0 => S7[13] = Blank
       /\ S7[14 + B + N] = Blank
  BY <1>4, <1>s7, <1>12, <1>13, <1>14, <1>15, <1>16
<1>18. QED
  BY <1>3, <1>17, Zenon DEF B, N, R, body, digits, rest

\* Concatenation is associative.
LEMMA Associates ==
  ASSUME NEW a \in Seq(Character), NEW b \in Seq(Character), NEW d \in Seq(Character)
  PROVE  (a \o b) \o d = a \o (b \o d)
BY ConcatAssociative

\* A plain statement: the LIMIT found is regular, and stands where it should.
LEMMA PlainRegular ==
  ASSUME NEW c, NEW gap, IsStatementOf(c, gap), TypeOK, Ordered, pc = "limit_done", Located(c),
         Plain(c, gap)
  PROVE  /\ RegularNow /\ next_token_after_select = 7 /\ clause.begin = LimitAt(c)
         /\ number.begin = NumberAt(c, gap) /\ number.end = RestAt(c, gap)
<1> DEFINE p == LimitAt(c)
           N == Len(c.number)
           B == Len(c.body)
<1>1. c \in Selects /\ gap \in Gaps /\ text = Array(query)
  BY DEF IsStatementOf
<1>2. Received
  BY StatementLaid
<1>3. c.number \in Seq(Character) /\ N \in Nat /\ B \in Nat
  BY <1>1, StatementParts
<1>4. p = 8 + B /\ p \in Nat
  BY <1>3 DEF LimitAt
<1>5. N # 0 /\ Len(gap) = 1
  <2>1. c.number # <<>> /\ gap = <<Blank>>
    BY DEF Plain
  <2>2. N # 0
    BY <1>3, <2>1, EmptySeq
  <2>3. QED
    BY <2>1, <2>2
<1>6. /\ next_token_after_select = 7 /\ clause = LimitToken(c)
      /\ number = NextToken(text, clause.end)
  BY <1>1 DEF Located, Plain
<1>7. clause.begin = p /\ clause.end = p + 5
  BY <1>6 DEF LimitToken, Token
<1>8. number = Token(p + 6, p + 6 + N)
  BY <1>5, <1>6, <1>7, NumberFound
<1>9. number.begin = p + 6 /\ number.end = p + 6 + N
  BY <1>8 DEF Token
<1>10. NumberAt(c, gap) = p + 6 /\ RestAt(c, gap) = p + 6 + N
  BY <1>3, <1>4, <1>5 DEF NumberAt, RestAt
<1> HIDE DEF p, N, B
<1>11. clause # NoToken /\ number # NoToken
  BY <1>3, <1>4, <1>7, <1>9 DEF NoToken, Token, NULL
<1>12. Regular
  <2>1. Length(clause) = 5 /\ number.begin = clause.end + 1
    BY <1>4, <1>7, <1>9 DEF Length
  <2>2. QED
    BY <1>11, <2>1, LimitLetters DEF Regular
<1>13. ~ShiftsNull
  BY <1>6, <1>11 DEF ShiftsNull, NULL
<1>14. RegularNow
  BY <1>2, <1>11, <1>12, <1>13 DEF RegularNow
<1>15. QED
  BY <1>6, <1>7, <1>9, <1>10, <1>14 DEF p

\* With that, the six parts are those of the SELECT TOP.
LEMMA PlainSends ==
  ASSUME NEW c, NEW gap, IsStatementOf(c, gap), TypeOK, Ordered, pc = "limit_done", Located(c),
         Plain(c, gap)
  PROVE  /\ RegularNow
         /\ [k \in 1 .. EndOf(Rearranged) |-> Rearranged[k - 1]] = SelectTop(c)
<1> DEFINE p == LimitAt(c)
           n == NumberAt(c, gap)
           r == RestAt(c, gap)
           blank == <<Blank>>
           body == c.body
           digits == c.number
           rest == c.rest
           S1 == SELECT \o blank
           S2 == S1 \o TOP
           S3 == S2 \o digits
           S4 == S3 \o blank
           S5 == S4 \o body
<1>1. /\ RegularNow /\ next_token_after_select = 7 /\ clause.begin = p
      /\ number.begin = n /\ number.end = r
  BY PlainRegular
<1>2. [k \in 1 .. EndOf(Rearranged) |-> Rearranged[k - 1]] =
        Cut(0, 7) \o TOP \o Cut(n, r) \o blank \o Cut(7, p) \o Cut(r, Len(query))
  <2> HIDE DEF p, n, r, blank
  <2>1. [k \in 1 .. EndOf(Rearranged) |-> Rearranged[k - 1]] =
          Cut(0, next_token_after_select)
            \o TOP \o Cut(number.begin, number.end) \o blank
            \o Cut(next_token_after_select, clause.begin)
            \o Cut(number.end, Len(query))
    BY <1>1, RearrangedSends, Zenon DEF blank
  <2>2. QED
    BY <1>1, <2>1, Zenon
<1>3. /\ Cut(0, 7) = SELECT \o blank /\ Cut(7, p) = body \o blank
      /\ Cut(n, r) = digits /\ Cut(r, Len(query)) = rest
  BY StatementCuts
<1>4. /\ body \in Seq(Character) /\ digits \in Seq(Character) /\ rest \in Seq(Character)
      /\ SELECT \in Seq(Character) /\ blank \in Seq(Character) /\ TOP \in Seq(Character)
  BY StatementParts, KeywordsAre DEF IsStatementOf
<1> HIDE DEF p, n, r, blank, body, digits, rest
<1>5. S4 \in Seq(Character)
  <2>1. S1 \in Seq(Character)
    BY <1>4, ConcatProperties
  <2> HIDE DEF S1
  <2>2. S2 \in Seq(Character)
    BY <1>4, <2>1, ConcatProperties
  <2> HIDE DEF S2
  <2>3. S3 \in Seq(Character)
    BY <1>4, <2>2, ConcatProperties
  <2> HIDE DEF S3
  <2>4. QED
    BY <1>4, <2>3, ConcatProperties
<1>6. [k \in 1 .. EndOf(Rearranged) |-> Rearranged[k - 1]] = S4 \o (body \o blank) \o rest
  BY <1>2, <1>3, Zenon
<1>7. S4 \o (body \o blank) = S5 \o blank
  <2> HIDE DEF S4
  <2>1. (S4 \o body) \o blank = S4 \o (body \o blank)
    BY <1>4, <1>5, Associates
  <2>2. QED
    BY <2>1
<1>8. SelectTop(c) = S5 \o blank \o rest
  BY Zenon DEF SelectTop, body, blank, digits, rest
<1>9. QED
  BY <1>1, <1>6, <1>7, <1>8, Zenon

\* Behind a token of the body that is taken for LIMIT another token is found.
LEMMA NumberInBody ==
  ASSUME NEW c, NEW gap, IsStatementOf(c, gap), NEW u \in c.tokens
  PROVE  \/ NextToken(text, 7 + u.end) = LimitToken(c)
         \/ \E v \in c.tokens : NextToken(text, 7 + u.end) = Moved(v)
<1>1. c \in Selects
  BY DEF IsStatementOf
<1>2. /\ u.begin \in Nat /\ u.end \in Nat /\ u.begin < u.end /\ u.end <= Len(c.body)
      /\ \A t \in c.tokens : u = t \/ u.end <= t.begin \/ t.end <= u.begin
  BY <1>1, BodyTokens
<1>3. \A t \in c.tokens : t.begin \in Nat /\ t.end \in Nat
  BY <1>1, BodyTokens
<1> DEFINE q == u.end
           from == 7 + q
<1>4. \A t \in c.tokens : t.end <= q \/ q <= t.begin
  BY <1>2, <1>3
<1>5. q \in Nat /\ q <= Len(c.body) /\ from \in 6 .. 7 + q /\ from = 7 + q
  BY <1>2
<1> HIDE DEF q, from
<1>6. \/ NextToken(text, from) = LimitToken(c)
      \/ \E v \in c.tokens : NextToken(text, from) = Moved(v)
  BY <1>4, <1>5, NextInBody
<1>7. QED
  BY <1>6 DEF q, from

\* A SELECT TOP is sent for no other statement.
LEMMA SendsPlain ==
  ASSUME NEW c, NEW gap, IsStatementOf(c, gap), TypeOK, Ordered, pc = "limit_done", Located(c),
         clause # NoToken, ~ShiftsNull, Rewritten,
         [k \in 1 .. EndOf(Rearranged) |-> Rearranged[k - 1]] = SelectTop(c)
  PROVE  Plain(c, gap)
<1> DEFINE p == LimitAt(c)
           N == Len(c.number)
           B == Len(c.body)
           G == Len(gap)
           R == Len(c.rest)
           E == Len(query)
           d == c.number
           r == Rearranged
           nb == number.begin
           ne == number.end
           Z == {x \in DOMAIN r : r[x] = NUL}
<1>1. c \in Selects /\ gap \in Gaps /\ text = Array(query)
  BY DEF IsStatementOf
<1>2. Received /\ DOMAIN text = 0 .. E
  BY StatementLaid DEF Received, Position
<1>3. /\ B \in Nat /\ N \in Nat /\ R \in Nat /\ G \in 1 .. 2 /\ E \in Nat
      /\ p = 8 + B /\ E = p + 5 + G + N + R
      /\ \A k \in 1 .. 5 : text[p + k - 1] = LIMIT[k]
      /\ \A k \in 1 .. N : text[p + 4 + G + k] = d[k]
  BY StatementAt
<1>4. DOMAIN r = 0 .. E /\ \E x \in DOMAIN r : r[x] = NUL
  BY <1>2 DEF Rewritten
<1> HIDE DEF p, N, B, G, R, E, d, r, nb, ne
<1>n. /\ B \in Nat /\ N \in Nat /\ R \in Nat /\ G \in 1 .. 2 /\ E \in Nat
      /\ p = 8 + B /\ E = p + 5 + G + N + R
  BY <1>3
<1>5. EndOf(r) = E
  <2>1. ASSUME NEW x \in Z PROVE x = E
    <3>1. x \in Position /\ r[x] = NUL
      BY <1>4 DEF Position, E
    <3>2. QED
      BY <1>2, <3>1, RearrangedInText DEF E, r
  <2>2. Z # {} /\ Z \subseteq Nat
    <3>1. E \in Nat
      BY <1>3
    <3>2. DOMAIN r \subseteq Nat
      BY <1>4, <3>1
    <3>3. QED
      BY <1>4, <3>2
  <2> HIDE DEF Z
  <2>3. Least(Z) \in Z
    BY <2>2, LeastIs
  <2>4. Least(Z) = E
    BY <2>1, <2>3
  <2>5. QED
    BY <2>4 DEF EndOf, Z, r
<1>6. /\ E = 14 + B + N + R
      /\ N # 0 => r[12] = d[1]
      /\ N = 0 => r[12] = Blank
      /\ r[13 + B + N] = Blank
  <2> DEFINE s == SelectTop(c)
  <2>1. s = [k \in 1 .. E |-> r[k - 1]]
    BY <1>5 DEF r
  <2> HIDE DEF s
  <2>2. Len(s) = E /\ \A k \in 1 .. E : s[k] = r[k - 1]
    BY <1>3, <2>1
  <2>3. /\ Len(s) = 14 + B + N + R
        /\ N # 0 => s[13] = d[1]
        /\ N = 0 => s[13] = Blank
        /\ s[14 + B + N] = Blank
    BY <1>1, TopParts, Zenon DEF B, N, R, d, s
  <2> DEFINE z == 14 + B + N
  <2>4. /\ 13 \in 1 .. E /\ 13 - 1 = 12
        /\ z \in 1 .. E /\ z - 1 = 13 + B + N
    BY <1>3, <2>2, <2>3
  <2> HIDE DEF z
  <2>5. s[13] = r[12] /\ s[z] = r[13 + B + N]
    <3>1. s[13] = r[13 - 1] /\ s[z] = r[z - 1]
      BY <2>2, <2>4
    <3>2. QED
      BY <2>4, <3>1
  <2>6. QED
    BY <2>2, <2>3, <2>5 DEF z
<1>7. G = 1 /\ gap = <<Blank>>
  <2>1. G = 1
    <3>1. E = 14 + B + N + R
      BY <1>6
    <3>2. QED
      BY <1>n, <3>1
  <2>2. Len(<<Blank, Blank>>) = 2
    OBVIOUS
  <2>3. QED
    BY <1>1, <2>1, <2>2 DEF Gaps, G
<1>8. next_token_after_select = 7 /\ number = NextToken(text, clause.end)
  BY <1>1 DEF Located
<1>9. /\ d \in Seq(Character)
      /\ \A k \in 1 .. N : d[k] \notin Separators
      /\ N # 0 => d[1] # LIMIT[1]
  <2>1. d \in Seq(Character)
    BY <1>1, QueryTextAssumption DEF d
  <2>2. /\ \A k \in DOMAIN d : d[k] \notin Separators \cup Quotes
        /\ d # <<>> => d[1] # LIMIT[1]
    BY <1>1, SelectsAssumption DEF d
  <2>3. N = Len(d) /\ (N # 0 => d # <<>>)
    BY DEF N, d
  <2>4. QED
    BY <2>1, <2>2, <2>3
<1>10. \A u \in c.tokens :
         u.begin \in Nat /\ u.end \in Nat /\ u.begin < u.end /\ u.end <= B
  BY <1>1, BodyTokens DEF B
<1>11. Len(TOP) = 5
  BY KeywordsAre
\* The parts of the rewritten text that are looked at.
<1>12. TopEnd = 12 + (ne - nb) /\ ShiftWidth = ne - clause.begin
  BY <1>8, <1>11 DEF TopEnd, ShiftWidth, Length, nb, ne
<1>13. ASSUME NEW a \in Nat, NEW b \in Nat, number = Token(a, b), a < b, b <= E
       PROVE  r[12] = text[a]
  <2>1. nb = a /\ ne = b
    BY <1>13 DEF Token, nb, ne
  <2>2. 12 \in 0 .. E
    BY <1>3, <1>6
  <2>3. 12 \in DOMAIN Rearranged
    BY <1>4, <2>2 DEF r
  <2>4. ~AtTop(12) /\ AtNumber(12)
    BY <1>8, <1>11, <1>12, <1>13, <2>1 DEF AtTop, AtNumber
  <2>5. Rearranged[12] = text[12 - next_token_after_select - Len(TOP) + number.begin]
    BY <2>3, <2>4, RearrangedIs
  <2>6. 12 - next_token_after_select - Len(TOP) + number.begin = a
    BY <1>8, <1>11, <1>13, <2>1 DEF nb
  <2>7. QED
    BY <2>5, <2>6 DEF r
<1>14. ASSUME NEW a \in Nat, NEW b \in Nat, number = Token(a, b), 7 <= a, a < b, b <= 7 + B,
              clause.begin \in Nat, 7 <= clause.begin
       PROVE  r[13 + B + N] = text[13 + B + N]
  <2> DEFINE z == 13 + B + N
  <2>1. nb = a /\ ne = b
    BY <1>14 DEF Token, nb, ne
  <2> HIDE DEF z
  <2>2. z \in 0 .. E /\ z \in Nat
    <3>1. E = 14 + B + N + R
      BY <1>6
    <3>2. QED
      BY <1>n, <3>1 DEF z
  <2>3. z \in DOMAIN Rearranged
    BY <1>4, <2>2 DEF r
  <2>4. ~AtTop(z) /\ ~AtNumber(z) /\ ~AtBlank(z)
    BY <1>3, <1>8, <1>11, <1>12, <1>14, <2>1, <2>2 DEF AtTop, AtNumber, AtBlank, z
  <2>5. ~AtMoved(z)
    <3> DEFINE l == clause.begin
    <3>1. l \in Nat /\ 7 <= l
      BY <1>14
    <3> HIDE DEF l
    <3>2. l + (ne - l) - 1 < z
      BY <1>3, <1>14, <2>1, <3>1 DEF z
    <3>3. ShiftWidth = ne - l
      BY <1>12 DEF l
    <3>4. ~(z <= l + (ne - l) - 1)
      BY <2>1, <2>2, <3>1, <3>2
    <3>5. z \notin 7 + ShiftWidth .. l + ShiftWidth - 1
      BY <2>2, <3>3, <3>4
    <3>6. QED
      BY <1>8, <3>5 DEF AtMoved, l
  <2>6. Rearranged[z] = text[z]
    BY <2>3, <2>4, <2>5, RearrangedIs
  <2>7. QED
    BY <2>6 DEF r, z
<1>15. PICK u : \/ u \in c.tokens /\ clause = Moved(u) /\ Abbreviates(c.body, u)
                \/ clause = LimitToken(c) /\ \A t \in c.tokens : ~Abbreviates(c.body, t)
  BY DEF Located
<1>16. ASSUME u \in c.tokens, clause = Moved(u)
       PROVE  /\ number = LimitToken(c) \/ \E v \in c.tokens : number = Moved(v)
              /\ clause.begin \in Nat /\ 7 <= clause.begin
  <2>1. clause.begin = 7 + u.begin /\ clause.end = 7 + u.end
    BY <1>16 DEF Moved, Token
  <2>2. number = NextToken(text, 7 + u.end)
    BY <1>8, <2>1
  <2>3. u.begin \in Nat
    BY <1>10, <1>16
  <2>4. QED
    BY <1>16, <2>1, <2>2, <2>3, NumberInBody
<1>17. ASSUME N = 0 PROVE FALSE
  <2>1. r[12] = Blank
    BY <1>6, <1>17
  <2>2. number # NoToken
    <3>1. CASE u \in c.tokens /\ clause = Moved(u)
      <4>1. CASE number = LimitToken(c)
        <5>1. number.begin = p /\ p \in Nat
          BY <1>3, <4>1 DEF LimitToken, Token, p
        <5>2. QED
          BY <5>1 DEF NoToken, Token, NULL
      <4>2. CASE \E v \in c.tokens : number = Moved(v)
        <5>1. PICK v \in c.tokens : number = Moved(v)
          BY <4>2
        <5>2. number.begin = 7 + v.begin /\ v.begin \in Nat
          BY <1>10, <5>1 DEF Moved, Token
        <5>3. QED
          BY <5>2 DEF NoToken, Token, NULL
      <4>3. QED
        BY <1>16, <3>1, <4>1, <4>2
    <3>2. CASE clause = LimitToken(c)
      <4>1. clause.begin = p /\ 7 < p
        BY <1>3, <3>2 DEF LimitToken, Token, p
      <4>2. QED
        BY <1>8, <4>1 DEF ShiftsNull
    <3>3. QED
      BY <1>15, <3>1, <3>2
  <2>3. clause.end \in Nat /\ clause.end <= E
    <3>1. CASE u \in c.tokens /\ clause = Moved(u)
      <4> DEFINE y == u.end
      <4>1. clause.end = 7 + y
        BY <3>1 DEF Moved, Token
      <4>2. y \in Nat /\ y <= B
        BY <1>10, <3>1
      <4> HIDE DEF y
      <4>3. QED
        BY <1>n, <4>1, <4>2
    <3>2. CASE clause = LimitToken(c)
      <4>1. clause.end = p + 5
        BY <3>2 DEF LimitToken, Token, p
      <4>2. p + 5 \in Nat /\ p + 5 <= E
        BY <1>n
      <4>3. QED
        BY <4>1, <4>2
    <3>3. QED
      BY <1>15, <3>1, <3>2
  <2>4. text[nb] # Blank
    BY <1>2, <1>8, <2>2, <2>3, TokenNotBlank DEF E, nb
  <2>5. nb \in Nat /\ ne \in Nat /\ nb < ne /\ ne <= E /\ number = Token(nb, ne)
    <3>1. number \in TokenType
      BY DEF TypeOK
    <3>2. number \in [begin : Position, end : Position] /\ nb < ne
      BY <2>2, <3>1 DEF TokenType, nb, ne
    <3>3. number = Token(nb, ne) /\ nb \in Position /\ ne \in Position
      BY <3>2 DEF Token, nb, ne
    <3>4. QED
      BY <1>3, <3>2, <3>3 DEF Position, E
  <2>6. r[12] = text[nb]
    BY <1>13, <2>5
  <2>7. QED
    BY <2>1, <2>4, <2>6
<1>18. ASSUME N # 0, u \in c.tokens, clause = Moved(u) PROVE FALSE
  <2>1. r[12] = d[1] /\ d[1] # LIMIT[1]
    BY <1>6, <1>9, <1>18
  <2>2. CASE number = LimitToken(c)
    <3>1. number = Token(p, p + 5) /\ p \in Nat /\ p + 5 \in Nat /\ p < p + 5 /\ p + 5 <= E
      <4>1. number = Token(p, p + 5)
        BY <2>2 DEF LimitToken, p
      <4>2. QED
        BY <1>n, <4>1
    <3>2. r[12] = text[p]
      BY <1>13, <3>1
    <3>3. text[p] = LIMIT[1]
      <4>1. 1 \in 1 .. 5 /\ p + 1 - 1 = p
        BY <3>1
      <4>2. text[p + 1 - 1] = LIMIT[1]
        BY <1>3, <4>1
      <4>3. QED
        BY <4>1, <4>2
    <3>4. QED
      BY <2>1, <3>2, <3>3
  <2>3. CASE \E v \in c.tokens : number = Moved(v)
    <3>1. PICK v \in c.tokens : number = Moved(v)
      BY <2>3
    <3> DEFINE a == 7 + v.begin
               b == 7 + v.end
    <3>2. number = Token(a, b) /\ a \in Nat /\ b \in Nat /\ 7 <= a /\ a < b /\ b <= 7 + B
      <4>1. number = Token(a, b)
        BY <3>1 DEF Moved
      <4> DEFINE x == v.begin
                 y == v.end
      <4>2. x \in Nat /\ y \in Nat /\ x < y /\ y <= B /\ B \in Nat
        BY <1>3, <1>10
      <4> HIDE DEF x, y
      <4>3. /\ 7 + x \in Nat /\ 7 + y \in Nat /\ 7 <= 7 + x
            /\ 7 + x < 7 + y /\ 7 + y <= 7 + B
        BY <4>2
      <4>4. QED
        BY <4>1, <4>3 DEF x, y
    <3>3. clause.begin \in Nat /\ 7 <= clause.begin
      BY <1>16, <1>18
    <3> HIDE DEF a, b
    <3>4. r[13 + B + N] = text[13 + B + N]
      BY <1>14, <3>2, <3>3
    <3>5. text[13 + B + N] = d[N]
      <4> DEFINE z == 13 + B + N
      <4>1. N \in 1 .. N /\ p + 4 + G + N = z
        BY <1>3, <1>7, <1>18
      <4>2. text[p + 4 + G + N] = d[N]
        BY <1>3, <4>1
      <4>3. QED
        BY <4>1, <4>2
    <3>6. d[N] # Blank
      <4>1. N \in 1 .. N
        BY <1>3, <1>18
      <4>2. QED
        BY <1>9, <4>1 DEF Separators
    <3>7. QED
      BY <1>6, <3>4, <3>5, <3>6
  <2>4. QED
    BY <1>16, <1>18, <2>2, <2>3
<1>19. c.number # <<>>
  BY <1>17 DEF N
<1>20. \A t \in c.tokens : ~Abbreviates(c.body, t)
  BY <1>15, <1>17, <1>18
<1>21. QED
  BY <1>7, <1>19, <1>20 DEF Plain

-----------------------------------------------------------------------------
(* Every step on a statement.                                              *)

\* A statement with a LIMIT takes the branch that rearranges it.
LEMMA StatementBranch ==
  ASSUME NEW c, NEW gap, IsStatementOf(c, gap)
  PROVE  IsStatement /\ HasLimit
<1> DEFINE needle == Append(LIMIT, Blank)
           p == LimitAt(c)
<1>1. /\ c \in Selects /\ gap \in Gaps /\ query = SelectLimit(c, gap)
      /\ text = Array(SelectLimit(c, gap))
  BY DEF IsStatementOf
<1>2. IsStatement
  <2>1. \A keyword \in {SET_NAMES, DESCRIBE, SHOW_TABLES} : ~Contains(text, keyword)
    BY <1>1, SelectsAssumption
  <2>2. QED
    BY <2>1 DEF IsStatement, IsSetNames
<1>3. Len(needle) = 6 /\ needle[6] = Blank /\ \A k \in 1 .. 5 : needle[k] = LIMIT[k]
  BY DEF LIMIT
<1>4. DOMAIN needle = 1 .. 6
  BY DEF LIMIT
<1> HIDE DEF needle
<1>5. /\ p \in Nat /\ Len(query) \in Nat /\ p + 5 <= Len(query)
      /\ \A k \in 1 .. 5 : text[p + k - 1] = LIMIT[k]
      /\ text[p + 5] = Blank
  <2> DEFINE B == Len(c.body)
             N == Len(c.number)
             R == Len(c.rest)
             G == Len(gap)
             E == Len(query)
  <2>1. /\ B \in Nat /\ N \in Nat /\ R \in Nat /\ G \in 1 .. 2 /\ E \in Nat
        /\ p = 8 + B /\ E = p + 5 + G + N + R
        /\ \A k \in 1 .. 5 : text[p + k - 1] = LIMIT[k]
        /\ \A k \in p + 5 .. p + 4 + G : text[k] = Blank
    BY StatementAt
  <2> HIDE DEF B, N, R, G, E, p
  <2>2. p \in Nat /\ p + 5 <= E /\ p + 5 \in p + 5 .. p + 4 + G
    BY <2>1
  <2>3. QED
    BY <2>1, <2>2 DEF E
<1>6. DOMAIN text = 0 .. Len(query)
  BY StatementLaid DEF Received, Position
<1> HIDE DEF p
<1>7. p \in DOMAIN text
  BY <1>5, <1>6
<1>8. ASSUME NEW k \in DOMAIN needle
      PROVE  p + k - 1 \in DOMAIN text /\ text[p + k - 1] = needle[k]
  <2>1. p + k - 1 \in DOMAIN text
    BY <1>4, <1>5, <1>6
  <2>2. CASE k = 6
    <3>1. p + k - 1 = p + 5
      BY <1>5, <2>2
    <3>2. QED
      BY <1>3, <1>5, <2>1, <2>2, <3>1
  <2>3. CASE k # 6
    <3>1. k \in 1 .. 5
      BY <1>4, <2>3
    <3>2. QED
      BY <1>3, <1>5, <2>1, <3>1
  <2>4. QED
    BY <2>2, <2>3
<1>9. HasLimit
  BY <1>7, <1>8 DEF HasLimit, Contains, needle
<1>10. QED
  BY <1>2, <1>9

LEMMA StatementScanNext ==
  ASSUME TypeOK, Untouched, StatementScan, Next
  PROVE  StatementScan'
<1>1. Received /\ text = Array(query) /\ query' = query
  BY AnyStepReceived
<1> SUFFICES ASSUME NEW c \in Selects, NEW gap \in Gaps, query = SelectLimit(c, gap)
             PROVE  /\ pc' \notin {"like", "like_done", "dispatch"}
                    /\ pc' = "limit" => Scanning(c)'
                    /\ pc' = "limit_done" => Located(c)'
  BY <1>1, Zenon DEF StatementScan
<1>2. IsStatementOf(c, gap)
  BY <1>1 DEF IsStatementOf
<1>3. /\ pc \notin {"like", "like_done"}
      /\ pc = "dispatch" =>
           position = 0 /\ select_begin = NULL /\ next_token_after_select = NULL
      /\ pc = "limit" => Scanning(c)
  BY DEF StatementScan
<1>4. CASE Limit
  <2>1. /\ pc = "dispatch" /\ pc' = "limit" /\ position' = position
        /\ select_begin' = select_begin /\ next_token_after_select' = next_token_after_select
    BY <1>4 DEF Limit, Goto, found
  <2>2. QED
    BY <1>3, <2>1 DEF Scanning
<1>5. CASE ScanLimit
  <2>1. pc = "limit"
    BY <1>5 DEF ScanLimit
  <2>2. /\ pc' = "limit" => Scanning(c)'
        /\ pc' = "limit_done" => Located(c)'
        /\ pc' \in {"limit", "limit_done"}
    BY <1>2, <1>3, <1>5, <2>1, ScanStep
  <2>3. QED
    BY <2>2
<1>6. CASE ShowTables \/ ScanLike
  <2>1. pc = "dispatch" /\ IsShowTables
    BY <1>3, <1>6 DEF ShowTables, ScanLike
  <2>2. IsStatement
    BY <1>2, StatementBranch
  <2>3. QED
    BY <2>1, <2>2 DEF IsShowTables, IsStatement
<1>7. CASE SetNames \/ Statement \/ Describe \/ SendTables \/ Reject \/ RearrangeNull \/ Rearrange
  <2>1. pc' \in Final
    BY <1>7 DEF SetNames, Statement, Describe, SendTables, Reject, RearrangeNull, Rearrange,
                Goto, Final
  <2>2. QED
    BY <2>1 DEF Final
<1>8. QED
  BY <1>4, <1>5, <1>6, <1>7 DEF Next

\* What is sent for a statement, when it is sent.
LEMMA StatementSends ==
  ASSUME NEW c \in Selects, NEW gap \in Gaps, query = SelectLimit(c, gap),
         IInv, StatementScan, Next, pc' \in Final
  PROVE  pc' = "sent" /\ sent' = SelectTop(c) <=> Plain(c, gap)
<1>1. TypeOK /\ Untouched /\ Ordered
  BY DEF IInv
<1>2. Received /\ text = Array(query)
  BY <1>1, AnyStepReceived
<1>3. IsStatementOf(c, gap)
  BY <1>2 DEF IsStatementOf
<1>4. IsStatement /\ HasLimit
  BY <1>3, StatementBranch
<1>5. pc \notin {"like", "like_done"} /\ (pc = "limit_done" => Located(c))
  BY DEF StatementScan
<1>6. CASE SetNames \/ Statement \/ Describe \/ SendTables
  <2>1. CASE SetNames
    BY <1>4, <2>1 DEF SetNames, IsStatement
  <2>2. CASE Statement
    BY <1>4, <2>2 DEF Statement
  <2>3. CASE Describe
    BY <1>4, <2>3 DEF Describe, IsDescribe, IsStatement
  <2>4. CASE SendTables
    BY <1>5, <2>4 DEF SendTables
  <2>5. QED
    BY <1>6, <2>1, <2>2, <2>3, <2>4
<1>7. CASE ShowTables \/ ScanLike \/ Limit \/ ScanLimit
  <2>1. pc' \in {"like", "like_done", "limit", "limit_done"}
    BY <1>1, <1>7 DEF ShowTables, ScanLike, Limit, ScanLimit, Goto
  <2>2. QED
    BY <2>1 DEF Final
<1>8. CASE Reject \/ RearrangeNull \/ Rearrange
  <2>1. pc = "limit_done"
    BY <1>8 DEF Reject, RearrangeNull, Rearrange
  <2>2. Located(c)
    BY <1>5, <2>1
  <2>3. clause # NoToken
    <3>1. clause.begin \in Nat
      <4>1. c \in Selects /\ Len(c.body) \in Nat
        BY StatementParts
      <4>2. CASE clause = LimitToken(c)
        BY <4>1, <4>2 DEF LimitToken, Token, LimitAt
      <4>3. CASE \E u \in c.tokens : clause = Moved(u)
        <5>1. PICK u \in c.tokens : clause = Moved(u)
          BY <4>3
        <5>2. u.begin \in Nat
          BY <4>1, BodyTokens
        <5>3. clause.begin = 7 + u.begin
          BY <5>1 DEF Moved, Token
        <5>4. QED
          BY <5>2, <5>3
      <4>4. QED
        BY <2>2, <4>2, <4>3 DEF Located
    <3>2. QED
      BY <3>1 DEF NoToken, Token, NULL
  <2>4. CASE Reject
    BY <2>3, <2>4 DEF Reject
  <2>5. CASE RearrangeNull
    <3>1. ShiftsNull /\ pc' = "null"
      BY <2>5 DEF RearrangeNull, Goto
    <3>2. Plain(c, gap) => ~ShiftsNull
      BY <1>1, <1>3, <2>1, <2>2, PlainRegular DEF RegularNow
    <3>3. QED
      BY <3>1, <3>2
  <2>6. CASE Rearrange
    <3>1. /\ ~ShiftsNull /\ text' = Rearranged
          /\ \/ /\ DOMAIN text' = DOMAIN text /\ \E p \in DOMAIN text' : text'[p] = NUL
                /\ pc' = "sent"
                /\ sent' = [k \in 1 .. EndOf(text') |-> text'[k - 1]]
             \/ /\ ~(DOMAIN text' = DOMAIN text /\ \E p \in DOMAIN text' : text'[p] = NUL)
                /\ pc' = "overrun"
      BY <2>6 DEF Rearrange, Goto
    <3>2. \/ /\ Rewritten /\ pc' = "sent"
             /\ sent' = [k \in 1 .. EndOf(Rearranged) |-> Rearranged[k - 1]]
          \/ ~Rewritten /\ pc' = "overrun"
      BY <3>1, Zenon DEF Rewritten
    <3>3. ASSUME Plain(c, gap) PROVE pc' = "sent" /\ sent' = SelectTop(c)
      <4>1. /\ RegularNow
            /\ [k \in 1 .. EndOf(Rearranged) |-> Rearranged[k - 1]] = SelectTop(c)
        BY <1>1, <1>3, <2>1, <2>2, <3>3, PlainSends
      <4>2. Rewritten
        BY <4>1, RearrangedSends
      <4>3. QED
        BY <3>2, <4>1, <4>2
    <3>4. ASSUME pc' = "sent", sent' = SelectTop(c) PROVE Plain(c, gap)
      <4>1. Rewritten /\ [k \in 1 .. EndOf(Rearranged) |-> Rearranged[k - 1]] = SelectTop(c)
        BY <3>2, <3>4
      <4>2. QED
        BY <1>1, <1>3, <2>1, <2>2, <2>3, <3>1, <4>1, SendsPlain
    <3>5. QED
      BY <3>3, <3>4
  <2>7. QED
    BY <1>8, <2>4, <2>5, <2>6
<1>9. QED
  BY <1>6, <1>7, <1>8 DEF Next

LEMMA BecomesTopNext ==
  ASSUME IInv, StatementScan, Next
  PROVE  SelectLimitBecomesTop'
<1>1. query' = query
  BY AnyStepReceived DEF IInv
<1> SUFFICES ASSUME pc' \in Final, NEW s \in Statements, query = s.limit
             PROVE  (pc' = "sent" /\ sent' = s.top) <=> s.plain
  BY <1>1, Zenon DEF SelectLimitBecomesTop, Final
<1>2. PICK c \in Selects, gap \in Gaps :
        s = [limit |-> SelectLimit(c, gap), top |-> SelectTop(c), plain |-> Plain(c, gap)]
  BY DEF Statements
<1>3. query = SelectLimit(c, gap)
  BY <1>2
<1>4. pc' = "sent" /\ sent' = SelectTop(c) <=> Plain(c, gap)
  BY <1>3, StatementSends
<1>5. s.top = SelectTop(c) /\ s.plain = Plain(c, gap)
  BY <1>2
<1>6. QED
  BY <1>4, <1>5

\* Whatever the statement, among its words, literals and separators
\* fxmy_rearrange_limit finds the right LIMIT and its number, and the SELECT
\* TOP is sent that it stands for, if and only if it is plain: it has a number
\* behind one blank, and no token that is taken for LIMIT.
THEOREM LimitBecomesTop == Spec => []SelectLimitBecomesTop
<1>1. Init => StatementScan /\ SelectLimitBecomesTop
  BY DEF Init, StatementScan, SelectLimitBecomesTop, Final
<1>2. IInv /\ StatementScan /\ SelectLimitBecomesTop /\ [Next]_vars =>
        StatementScan' /\ SelectLimitBecomesTop'
  <2>1. ASSUME IInv, StatementScan, Next PROVE StatementScan' /\ SelectLimitBecomesTop'
    BY <2>1, StatementScanNext, BecomesTopNext DEF IInv
  <2>2. ASSUME StatementScan, SelectLimitBecomesTop, UNCHANGED vars
        PROVE  StatementScan' /\ SelectLimitBecomesTop'
    <3>1. /\ query' = query /\ text' = text /\ pc' = pc /\ position' = position /\ sent' = sent
          /\ select_begin' = select_begin /\ next_token_after_select' = next_token_after_select
          /\ clause' = clause /\ number' = number
      BY <2>2 DEF vars, found
    <3>2. SelectLimitBecomesTop'
      BY <2>2, <3>1, Zenon DEF SelectLimitBecomesTop
    <3>3. StatementScan'
      BY <2>2, <3>1, Zenon DEF StatementScan, Scanning, Located
    <3>4. QED
      BY <3>2, <3>3
  <2>3. QED
    BY <2>1, <2>2
<1>3. QED
  BY <1>1, <1>2, QueryInvariance, PTL DEF Spec
=============================================================================
