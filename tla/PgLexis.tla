------------------------------ MODULE PgLexis ------------------------------
(***************************************************************************)
(* PostgreSQL's lexical structure, each kind of token defined by what it   *)
(* is and not by how it is scanned.  External: what Lexer is measured      *)
(* against.  A text is a sequence of symbols: punctuation by character,    *)
(* letters by word.                                                        *)
(***************************************************************************)
EXTENDS Integers, Sequences, FiniteSets

CONSTANT Word  \* letters and words; "E" is the one that may prefix a string

Nothing     == ""   \* what stands past the end of a text
Blank       == " "
DoubleQuote == "\""
Semicolon   == ";"

ASSUME TextAssumption ==
  /\ Word \subseteq STRING
  /\ Word \cap {"'", DoubleQuote, "$", "-", "/", "*", "\\", Semicolon, Blank, "\n", Nothing} = {}
  /\ "E" \in Word

Space == {Blank, "\n"}

at(s, k) == IF k \in 1..Len(s) THEN s[k] ELSE Nothing

\* Whether w stands at k.
isAt(s, k, w) == k + Len(w) - 1 <= Len(s) /\ SubSeq(s, k, k + Len(w) - 1) = w

least(S) == CHOOSE k \in S : \A j \in S : k <= j

\* The last symbol of what starts at from and goes on to the first k with P,
\* or to the end of the text.
upTo(s, ends) == IF ends = {} THEN Len(s) ELSE least(ends)

\* A symbol is escaped by an odd run of backslashes since from.
escaped(s, from, k) ==
  LET run == {j \in (from + 1)..(k - 1) : \A m \in j..(k - 1) : s[m] = "\\"}
  IN  Cardinality(run) % 2 = 1

\* A quoted text may close where its quotes pair up and no further one follows;
\* it does at the first such place.
closings(s, from, q, backslash) ==
  LET quote(k) == s[k] = q /\ ~(backslash /\ escaped(s, from, k))
      pairs(k) == Cardinality({j \in from..k : quote(j)}) % 2 = 0
  IN  {k \in (from + 1)..Len(s) : quote(k) /\ pairs(k) /\ at(s, k + 1) # q}

quotedEnd(s, from, q, backslash) == upTo(s, closings(s, from, q, backslash))

\* Nesting after each symbol of a block comment, and the symbol that may pair
\* with the next.
nesting(s, from) ==
  LET d[k \in from..Len(s)] ==
        IF k = from THEN [depth |-> 0, half |-> "/"]
        ELSE LET before == d[k - 1]
             IN  IF before.half = "/" /\ s[k] = "*"
                 THEN [depth |-> before.depth + 1, half |-> Nothing]
                 ELSE IF before.half = "*" /\ s[k] = "/"
                 THEN [depth |-> before.depth - 1, half |-> Nothing]
                 ELSE [before EXCEPT !.half = s[k]]
  IN  d

commentEnd(s, from) ==
  LET d == nesting(s, from)
  IN  upTo(s, {k \in (from + 2)..Len(s) : d[k].depth = 0})

lineEnd(s, from) == upTo(s, {k \in from..Len(s) : at(s, k + 1) = "\n"})

\* $tag$: where the opening delimiter ends, 0 when there is none.
delimiterEnd(s, from) ==
  LET ends == {k \in (from + 1)..Len(s) :
                 s[k] = "$" /\ \A j \in (from + 1)..(k - 1) : s[j] \in Word}
  IN  IF ends = {} THEN 0 ELSE least(ends)

dollarEnds(s, from) ==
  LET open == delimiterEnd(s, from)
      size == open - from
  IN  {k \in (open + size + 1)..Len(s) : SubSeq(s, k - size, k) = SubSeq(s, from, open)}

dollarEnd(s, from) == upTo(s, dollarEnds(s, from))

runEnd(s, from, S) ==
  upTo(s, {k \in from..Len(s) : at(s, k + 1) \notin S})

\* The symbols of an operator, and those that let it end in a sign.  (A backquote
\* is both; TLA+ has no string of it.)
OpMark == {"~", "!", "@", "#", "%", "^", "&", "|", "?"}
OpChar == OpMark \cup {"+", "-", "*", "/", "<", ">", "="}

pairAt(s, k) == <<at(s, k), at(s, k + 1)>>

opensComment(s, k) == pairAt(s, k) \in {<<"-", "-">>, <<"/", "*">>}

\* An operator goes on to where another symbol stands or a comment opens; a sign
\* is its last symbol only when it stands alone or follows a mark.
opReach(s, from) ==
  upTo(s, {k \in from..Len(s) : at(s, k + 1) \notin OpChar \/ opensComment(s, k + 1)})

opEnds(s, from) ==
  {k \in from..opReach(s, from) :
     k = from \/ s[k] \notin {"+", "-"} \/ \E m \in from..k : s[m] \in OpMark}

\* The longest operator; of the other punctuation only these go in pairs.
opEnd(s, from) ==
  IF s[from] \in OpChar
  THEN LET ends == opEnds(s, from)
       IN  CHOOSE k \in ends : \A j \in ends : j <= k
  ELSE IF pairAt(s, from) \in {<<":", ":">>, <<":", "=">>, <<".", ".">>} THEN from + 1
  ELSE from

lexeme(kind, to) == [kind |-> kind, to |-> to]

\* The token that starts at from.
Lexeme(s, from) ==
  LET c == s[from]
      d == at(s, from + 1)
  IN  CASE c \in Space                -> lexeme("space", runEnd(s, from, Space))
        [] c = "-" /\ d = "-"         -> lexeme("comment", lineEnd(s, from))
        [] c = "/" /\ d = "*"         -> lexeme("comment", commentEnd(s, from))
        [] c = "'"                    -> lexeme("string", quotedEnd(s, from, "'", FALSE))
        [] c = "E" /\ d = "'"         -> lexeme("string", quotedEnd(s, from + 1, "'", TRUE))
        [] c = DoubleQuote            -> lexeme("quoted", quotedEnd(s, from, DoubleQuote, FALSE))
        [] c = "$" /\ delimiterEnd(s, from) # 0 -> lexeme("string", dollarEnd(s, from))
        [] c \in Word /\ ~(c = "E" /\ d = "'") ->
             lexeme("ident", runEnd(s, from, Word \cup {"$"}))
        [] OTHER                      -> lexeme("op", opEnd(s, from))

\* What a closed quoted text says: pairs of quotes, and in an E string what
\* follows a backslash, stand for one symbol.
meant(body, q, backslash) ==
  LET n == Len(body)
      m[k \in 1..(n + 2)] ==
        IF k > n THEN <<>>
        ELSE IF k < n /\ (body[k] = q \/ (backslash /\ body[k] = "\\"))
             THEN <<body[k + 1]>> \o m[k + 2]
             ELSE <<body[k]>> \o m[k + 1]
  IN  m[1]

-----------------------------------------------------------------------------
\* The tokens of a text.

quoteOf(s, from) == IF s[from] = "E" THEN from + 1 ELSE from

Value(s, from) ==
  LET lx   == Lexeme(s, from)
      open == IF s[from] = "$" THEN delimiterEnd(s, from) ELSE quoteOf(s, from)
  IN  CASE lx.kind \in {"space", "comment"} -> <<>>
        [] lx.kind \in {"ident", "op"}      -> SubSeq(s, from, lx.to)
        [] lx.kind \in {"string", "quoted"} ->
             IF s[from] = "$" THEN SubSeq(s, open + 1, lx.to - (open - from) - 1)
             ELSE meant(SubSeq(s, open + 1, lx.to - 1), s[open], s[from] = "E")

tokenAt(s, from) ==
  [kind |-> Lexeme(s, from).kind, from |-> from, to |-> Lexeme(s, from).to,
   val |-> Value(s, from),
   line |-> 1 + Cardinality({k \in 1..(from - 1) : s[k] = "\n"})]

PgTokens(s) ==
  LET t[k \in 1..(Len(s) + 1)] ==
        IF k > Len(s) THEN <<>> ELSE <<tokenAt(s, k)>> \o t[Lexeme(s, k).to + 1]
  IN  t[1]

=============================================================================
