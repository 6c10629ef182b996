------------------------------- MODULE Lexer -------------------------------
(***************************************************************************)
(* lexSQL and splitStatements (lex.go, parse.go): one case of the switch   *)
(* is one action.  Numbers and positional parameters are left out: nothing *)
(* else can start inside one.                                              *)
(***************************************************************************)
EXTENDS PgLexis

CONSTANTS
  Sources,      \* the texts
  MultiOps      \* multiOps

ASSUME SourcesAssumption == Sources \subseteq Seq(Word \cup STRING)

\* The operators of several symbols that the code knows are PostgreSQL's.
ASSUME OperatorsAssumption ==
  \A op \in MultiOps : op \in Seq(STRING) /\ Len(op) >= 2 /\ opEnd(op, 1) = Len(op)

VARIABLES
  src,
  i,            \* the position the scan has reached
  toks,
  stmts,        \* the statements
  split         \* whether they are split

lexVars == <<src, i, toks, stmts, split>>

Kinds == {"space", "comment", "ident", "quoted", "string", "op"}

LexInit == src \in Sources /\ i = 1 /\ toks = <<>> /\ stmts = <<>> /\ split = FALSE

here(c) == i <= Len(src) /\ src[i] = c
next(c) == at(src, i + 1) = c

lines(from, to) == Cardinality({k \in from..to : src[k] = "\n"})

token(kind, end, val, line) ==
  [kind |-> kind, from |-> i, to |-> end - 1, val |-> val, line |-> line]

\* Mutated form: only white space ends lines.
emitPlainLines(kind, end, val) ==
  LET last == toks[Len(toks)]
      line == IF toks = <<>> THEN 1
              ELSE IF last.kind = "space" THEN last.line + lines(last.from, last.to)
              ELSE last.line
  IN  /\ toks' = Append(toks, token(kind, end, val, line))
      /\ i' = end
      /\ UNCHANGED <<src, stmts, split>>

\* The token from i up to end, exclusive; the line count moves past it.
emit(kind, end, val) ==
  LET last == toks[Len(toks)]
      line == IF toks = <<>> THEN 1 ELSE last.line + lines(last.from, last.to)
  IN  /\ toks' = Append(toks, token(kind, end, val, line))
      /\ i' = end
      /\ UNCHANGED <<src, stmts, split>>

past(k, S) == CHOOSE j \in k..(Len(src) + 1) :
                /\ j = Len(src) + 1 \/ src[j] \notin S
                /\ \A m \in k..(j - 1) : src[m] \in S

Whitespace == /\ i <= Len(src) /\ src[i] \in Space
              /\ emit("space", past(i, Space), <<>>)

LineComment ==
  /\ here("-") /\ next("-")
  /\ emit("comment", past(i, {src[k] : k \in 1..Len(src)} \ {"\n"}), <<>>)

\* Mutated form: comments do not nest.
afterCommentFlat(k) ==
  LET ends == {j \in (k + 3)..Len(src) : src[j - 1] = "*" /\ src[j] = "/"}
  IN  IF ends = {} THEN Len(src) + 1 ELSE least(ends) + 1

afterComment(k) ==
  LET f[p \in (1..(Len(src) + 1)) \X Nat] ==
        LET j == p[1]  depth == p[2]
        IN  IF depth = 0 \/ j > Len(src) THEN j
            ELSE IF src[j] = "/" /\ at(src, j + 1) = "*" THEN f[<<j + 2, depth + 1>>]
            ELSE IF src[j] = "*" /\ at(src, j + 1) = "/" THEN f[<<j + 2, depth - 1>>]
            ELSE f[<<j + 1, depth>>]
  IN  f[<<k + 2, 1>>]

BlockComment == /\ here("/") /\ next("*")
                /\ emit("comment", afterComment(i), <<>>)

\* The position past the quote that closes the one at k.
scanString(k, q, backslash) ==
  LET n == Len(src)
      f[j \in 1..(n + 2)] ==
        IF j > n THEN n + 1
        ELSE IF backslash /\ src[j] = "\\" THEN f[j + 2]
        ELSE IF src[j] # q THEN f[j + 1]
        ELSE IF at(src, j + 1) = q THEN f[j + 2] ELSE j + 1
  IN  f[k + 1]

\* strings.ReplaceAll, of a pair by one symbol.
replaceAll(s, pair, c) ==
  LET n == Len(s)
      r[k \in 1..(n + 2)] ==
        IF k > n THEN <<>>
        ELSE IF k < n /\ <<s[k], s[k + 1]>> = pair THEN <<c>> \o r[k + 2]
             ELSE <<s[k]>> \o r[k + 1]
  IN  r[1]

unquoted(raw, q) ==
  LET body == Tail(raw)
  IN  replaceAll(IF body[Len(body)] = q THEN SubSeq(body, 1, Len(body) - 1) ELSE body,
                 <<q, q>>, q)

\* Mutated form: backslashes first.
decodeStringBackslashFirst(raw, backslash) ==
  IF Len(raw) < 2 THEN raw
  ELSE IF backslash
       THEN replaceAll(replaceAll(unquoted(raw, "'"), <<"\\", "\\">>, "\\"),
                       <<"\\", "'">>, "'")
       ELSE unquoted(raw, "'")

decodeString(raw, backslash) ==
  IF Len(raw) < 2 THEN raw
  ELSE IF backslash
       THEN replaceAll(replaceAll(unquoted(raw, "'"), <<"\\", "'">>, "'"),
                       <<"\\", "\\">>, "\\")
       ELSE unquoted(raw, "'")

PlainString ==
  LET end == scanString(i, "'", FALSE)
  IN  /\ here("'")
      /\ emit("string", end, decodeString(SubSeq(src, i, end - 1), FALSE))

EscapeString ==
  LET end == scanString(i + 1, "'", TRUE)
  IN  /\ here("E") /\ next("'")
      /\ emit("string", end, decodeString(SubSeq(src, i + 1, end - 1), TRUE))

QuotedIdent ==
  LET end == scanString(i, DoubleQuote, FALSE)
      raw == SubSeq(src, i, end - 1)
  IN  /\ here(DoubleQuote)
      /\ emit("quoted", end, IF Len(raw) >= 2 /\ raw[Len(raw)] = DoubleQuote
                             THEN unquoted(raw, DoubleQuote) ELSE raw)

\* $tag$ ... $tag$, or an operator of its own.
Dollar ==
  LET j     == past(i + 1, Word)
      delim == SubSeq(src, i, j)
      close == {c \in (j + 1)..Len(src) : isAt(src, c, delim)}
  IN  /\ here("$")
      /\ IF at(src, j) # "$" THEN emit("op", i + 1, <<"$">>)
         ELSE IF close = {} THEN emit("string", Len(src) + 1, <<>>)
         ELSE emit("string", least(close) + Len(delim),
                   SubSeq(src, j + 1, least(close) - 1))

Identifier ==
  LET end == past(i, Word \cup {"$"})
  IN  /\ i <= Len(src) /\ src[i] \in Word
      /\ ~(here("E") /\ next("'"))
      /\ emit("ident", end, SubSeq(src, i, end - 1))

\* The longest operator first.
Operator ==
  LET fits == {op \in MultiOps : isAt(src, i, op)}
      size == IF fits = {} THEN 1
              ELSE Len(CHOOSE op \in fits : \A o \in fits : Len(o) <= Len(op))
  IN  /\ i <= Len(src)
      /\ src[i] \notin Word \cup Space \cup {"'", DoubleQuote, "$"}
      /\ ~(here("-") /\ next("-")) /\ ~(here("/") /\ next("*"))
      /\ emit("op", i + size, SubSeq(src, i, i + size - 1))

significant(t) == t.kind \notin {"space", "comment"}
isOp(t, op)    == t.kind = "op" /\ t.val = op
op_(t, c)      == isOp(t, <<c>>)
word(t, w)     == t.kind = "ident" /\ t.val = <<w>>
name(t)        == t.kind \in {"ident", "quoted"}

significants(ts) ==
  LET f[k \in 0..Len(ts)] ==
        IF k = 0 THEN <<>>
        ELSE IF significant(ts[k]) THEN Append(f[k - 1], ts[k]) ELSE f[k - 1]
  IN  f[Len(ts)]

sigToks == significants(toks)

\* flush keeps what has a significant token in it.
flush(acc) ==
  [stmts |-> IF \E k \in 1..Len(acc.cur) : significant(acc.cur[k])
             THEN Append(acc.stmts, acc.cur) ELSE acc.stmts,
   cur |-> <<>>]

\* The loop over the tokens, up to the k-th.
loop(ts) ==
  LET f[k \in 0..Len(ts)] ==
        IF k = 0 THEN [stmts |-> <<>>, cur |-> <<>>]
        ELSE IF isOp(ts[k], <<Semicolon>>) THEN flush(f[k - 1])
        ELSE [f[k - 1] EXCEPT !.cur = Append(@, ts[k])]
  IN  f[Len(ts)]

\* Mutated form: what no semicolon ends is lost.
splitStatementsEnded(ts) == loop(ts).stmts

splitStatements(ts) == flush(loop(ts)).stmts

Split == /\ i > Len(src) /\ ~split /\ split' = TRUE
         /\ stmts' = splitStatements(toks)
         /\ UNCHANGED <<src, i, toks>>

LexNext == \/ Whitespace \/ LineComment \/ BlockComment
           \/ PlainString \/ EscapeString \/ QuotedIdent
           \/ Dollar \/ Identifier \/ Operator \/ Split

LexSpec == LexInit /\ [][LexNext]_lexVars

-----------------------------------------------------------------------------
\* Properties.

Token == [kind : Kinds, from : Nat, to : Nat, val : Seq(STRING), line : Nat]

\* The tokens lie end to end, and the line a note, a blocker or an origin
\* quotes is the one its token is on.
LexTypeOK ==
  /\ toks \in Seq(Token) /\ stmts \in Seq(Seq(Token))
  /\ i \in 1..(Len(src) + 1) /\ split \in BOOLEAN
  /\ split => \A k \in 1..Len(toks) :
       /\ toks[k].from = IF k = 1 THEN 1 ELSE toks[k - 1].to + 1
       /\ toks[k].line = 1 + lines(1, toks[k].from - 1)
  /\ i = IF toks = <<>> THEN 1 ELSE toks[Len(toks)].to + 1

\* An operator of the code's table, or of one symbol.
known(s, from) ==
  LET to == opEnd(s, from)
  IN  to = from \/ SubSeq(s, from, to) \in MultiOps

\* An operator of the table, there, whose last symbol opens a comment (#--).
torn(s, from) ==
  \E k \in (from + 1)..Len(s) : opensComment(s, k) /\ SubSeq(s, from, k) \in MultiOps

\* PostgreSQL's token, or part of an operator that the code does not know.
agrees(kind, from, to) ==
  LET lx == Lexeme(src, from)
  IN  \/ lexeme(kind, to) = lx
      \/ /\ kind = "op" /\ lx.kind = "op"
         /\ torn(src, from) \/ (~known(src, from) /\ to <= lx.to)

\* lex.go: dollar-quoted bodies, nested block comments, escaped strings and
\* quoted identifiers all tokenize correctly.  Every token is PostgreSQL's,
\* unterminated ones included; an operator that is not in the table comes in
\* parts, and what goes for one token ends with it.
TokensRight ==
  split => \A k \in 1..Len(toks) : agrees(toks[k].kind, toks[k].from, toks[k].to)

\* A token says what it means: an operator when the code knows it, a quoted text
\* when it closes and, in an E string, only quotes and backslashes are escaped.
legible(s, from) ==
  LET lx   == Lexeme(s, from)
      open == quoteOf(s, from)
  IN  \/ lx.kind \in {"space", "comment", "ident"}
      \/ lx.kind = "op" /\ known(s, from) /\ ~torn(s, from)
      \/ lx.kind = "string" /\ s[from] = "$" /\ dollarEnds(s, from) # {}
      \/ /\ lx.kind \in {"string", "quoted"} /\ s[from] # "$"
         /\ lx.to \in closings(s, open, s[open], s[from] = "E")
         /\ s[from] = "E" => \A k \in (open + 1)..(lx.to - 2) :
              s[k] = "\\" => s[k + 1] \in {"'", "\\"}

\* Whether all of a text says what it means.
readable(s) == LET ts == PgTokens(s) IN \A k \in 1..Len(ts) : legible(s, ts[k].from)

\* A token is read as what it says: a name, a claim or a role is compared by
\* that, a dollar-quoted body is parsed again.  Escapes other than those of quote
\* and backslash are not decoded, which the code declares.
ValuesRight ==
  split => \A k \in 1..Len(toks) :
    legible(src, toks[k].from) => toks[k].val = Value(src, toks[k].from)

\* The statements of the history are PostgreSQL's, in their order: nothing
\* significant is lost, none runs over a semicolon that is one, and one that is
\* stands between any two of them.
StatementsWhole ==
  split =>
    LET ends   == {toks[k].from : k \in {j \in 1..Len(toks) : isOp(toks[j], <<Semicolon>>)}}
        starts == {toks[k].from : k \in {j \in 1..Len(toks) : significant(toks[j])}}
        lo(m)  == stmts[m][1].from
        hi(m)  == stmts[m][Len(stmts[m])].to
    IN  /\ \A k \in starts \ ends : \E m \in 1..Len(stmts) : lo(m) <= k /\ k <= hi(m)
        /\ \A m \in 1..Len(stmts) : ends \cap (lo(m)..hi(m)) = {}
        /\ \A m \in 1..(Len(stmts) - 1) : ends \cap (hi(m)..lo(m + 1)) # {}

=============================================================================
