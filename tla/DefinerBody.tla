---------------------------- MODULE DefinerBody ----------------------------
(***************************************************************************)
(* definer.go: whether the text of CREATE FUNCTION says SECURITY DEFINER,  *)
(* what the body in it is, and which tables the statements of a body       *)
(* write.  What should be found is said of the texts themselves.           *)
(***************************************************************************)
EXTENDS Lexer
LOCAL INSTANCE SequencesExt

CONSTANTS
  Definitions,  \* the texts that define routines
  Bodies        \* the texts that are the statements of a body

\* The last SECURITY clause wins.
isSecurityDefiner(sig) ==
  LET clauses == {k \in 2..Len(sig) : /\ word(sig[k - 1], "security")
                                      /\ word(sig[k], "definer") \/ word(sig[k], "invoker")}
  IN  \E k \in clauses : word(sig[k], "definer") /\ \A j \in clauses : j <= k

ended == <<"\n", ";", "\n">>

\* The values of the string literals, each a statement of its own.
routineBody(ts) ==
  FlattenSeq([k \in 1..Len(ts) |-> IF ts[k].kind = "string" THEN ts[k].val \o ended ELSE <<>>])

\* Words that, before UPDATE, mean it is not a statement.
notUpdateStatement == {<<w>> : w \in {"for", "key", "do", "on", "or", "before", "after", "of"}}

\* The table named at k, and where its name ends: a set of at most one.
qnameAt(sig, k) ==
  LET j == IF k <= Len(sig) /\ word(sig[k], "only") THEN k + 1 ELSE k
  IN  IF j > Len(sig) \/ ~name(sig[j]) THEN {}
      ELSE IF j + 2 <= Len(sig) /\ op_(sig[j + 1], ".") /\ name(sig[j + 2])
           THEN {[table |-> [schema |-> sig[j].val, name |-> sig[j + 2].val], next |-> j + 3]}
           ELSE {[table |-> [schema |-> <<>>, name |-> sig[j].val], next |-> j + 1]}

inserts(sig, k) ==
  /\ k < Len(sig)
  /\ \/ (word(sig[k], "insert") \/ word(sig[k], "merge")) /\ word(sig[k + 1], "into")
     \/ word(sig[k], "delete") /\ word(sig[k + 1], "from")

\* Mutated form: no room for AS between the table's name and its alias.
updatesNoAs(sig, k) ==
  IF /\ word(sig[k], "update")
     /\ ~(k > 1 /\ sig[k - 1].kind = "ident" /\ sig[k - 1].val \in notUpdateStatement)
  THEN {q \in qnameAt(sig, k + 1) :
          \E j \in q.next..(q.next + 1) : j <= Len(sig) /\ word(sig[j], "set")}
  ELSE {}

\* UPDATE t SET, UPDATE t alias SET, UPDATE t AS alias SET.
updates(sig, k) ==
  IF /\ word(sig[k], "update")
     /\ ~(k > 1 /\ sig[k - 1].kind = "ident" /\ sig[k - 1].val \in notUpdateStatement)
  THEN {q \in qnameAt(sig, k + 1) :
          \E j \in q.next..(q.next + 2) : j <= Len(sig) /\ word(sig[j], "set")}
  ELSE {}

writeAt(sig, k) == IF inserts(sig, k) THEN qnameAt(sig, k + 2) ELSE updates(sig, k)

\* The loop of writeTargets, before a table named twice is dropped.
writesIn(sig) ==
  FlattenSeq([k \in 1..Len(sig) |-> SetToSeq({q.table : q \in writeAt(sig, k)})])

-----------------------------------------------------------------------------
\* What a routine says, to measure the scan against.

reads(sig, k, ws) ==
  k >= 1 /\ k + Len(ws) - 1 <= Len(sig) /\ \A m \in 1..Len(ws) : word(sig[k + m - 1], ws[m])

\* Where a statement of SQL or PL/pgSQL may start.
begins(sig, k) ==
  \/ k = 1
  \/ \E c \in {Semicolon, "(", ")"} : op_(sig[k - 1], c)
  \/ \E w \in {"begin", "then", "else", "loop", "in", "query"} : word(sig[k - 1], w)

\* The whole name of a table, with its schema or without.
tableName(sig, a, b) ==
  /\ b \in {a, a + 2} /\ b <= Len(sig) /\ name(sig[a]) /\ name(sig[b])
  /\ ~word(sig[a], "only") /\ (b = a + 2 => op_(sig[a + 1], "."))
  /\ ~(b < Len(sig) /\ op_(sig[b + 1], "."))

tableOf(sig, a, b) ==
  [schema |-> IF a = b THEN <<>> ELSE sig[a].val, name |-> sig[b].val]

\* A statement that writes, its table named from a to b, by its synopsis.
statement(sig, k, a, b) ==
  /\ begins(sig, k) /\ tableName(sig, a, b)
  /\ \/ \E ws \in {<<"insert", "into">>, <<"merge", "into">>, <<"merge", "into", "only">>,
                   <<"delete", "from">>, <<"delete", "from", "only">>} :
          reads(sig, k, ws) /\ a = k + Len(ws)
     \/ /\ \E ws \in {<<"update">>, <<"update", "only">>} : reads(sig, k, ws) /\ a = k + Len(ws)
        /\ \/ reads(sig, b + 1, <<"set">>)
           \/ reads(sig, b + 2, <<"set">>) /\ name(sig[b + 1])
           \/ reads(sig, b + 3, <<"set">>) /\ name(sig[b + 2]) /\ word(sig[b + 1], "as")

spans(sig, k) ==
  {s \in ((k + 1)..(k + 3)) \X ((k + 1)..(k + 5)) : statement(sig, k, s[1], s[2])}

written(sig, k) == {tableOf(sig, s[1], s[2]) : s \in spans(sig, k)}

\* A lock, an ON CONFLICT or an action of MERGE, in which no column is called set,
\* or a word that is a text of its own.
clause(sig, k) ==
  \/ k = Len(sig) \/ op_(sig[k + 1], Semicolon)
  \/ reads(sig, k - 1, <<"for", "update">>) \/ reads(sig, k - 3, <<"for", "no", "key", "update">>)
  \/ reads(sig, k - 1, <<"do", "update", "set">>)
  \/ /\ reads(sig, k - 1, <<"then", "update", "set">>)
     /\ \A m \in (k + 2)..(k + 6) : ~reads(sig, m, <<"set">>)
  \/ reads(sig, k - 1, <<"then", "delete">>) /\ ~reads(sig, k + 1, <<"from">>)
  \/ reads(sig, k - 1, <<"then", "insert">>) /\ ~reads(sig, k + 1, <<"into">>)

\* Every word that could start a write does, or is one of a clause.
understood(sig) ==
  \A k \in 1..Len(sig) :
    \/ \A w \in {"insert", "merge", "delete", "update"} : ~word(sig[k], w)
    \/ spans(sig, k) # {} \/ clause(sig, k)

\* A text is in a body as statements of its own.
holds(body, text) ==
  \E p \in 0..Len(body) :
    /\ p = 0 \/ (p >= 3 /\ isAt(body, p - 2, ended))
    /\ isAt(body, p + 1, text \o ended)

oneSecurity(sig) ==
  \A j, k \in {m \in 1..Len(sig) : reads(sig, m, <<"security", "definer">>)
                                  \/ reads(sig, m, <<"security", "invoker">>)} : j = k

-----------------------------------------------------------------------------

\* definer.go: "Detection reads the function body's own statements".  Every
\* INSERT, UPDATE, DELETE and MERGE of a body is found with the table it names,
\* in order, and nothing that only looks like one: a lock, an ON CONFLICT, an
\* action of MERGE, a comment or a message.  A definition is a SECURITY DEFINER
\* one when its attributes say so, and what PostgreSQL would run is in its body.
DefinersRead ==
  split /\ (src \in Bodies \/ src \in Definitions) /\ readable(src) =>
    LET sig == significants(PgTokens(src))
    IN  /\ src \in Bodies /\ understood(sig) =>
             writesIn(sigToks) = FlattenSeq([k \in 1..Len(sig) |-> SetToSeq(written(sig, k))])
        /\ src \in Definitions =>
             /\ oneSecurity(sig) =>
                  (isSecurityDefiner(sigToks)
                     <=> \E k \in 1..Len(sig) : reads(sig, k, <<"security", "definer">>))
             /\ \A k \in 2..Len(sig) : word(sig[k - 1], "as") /\ sig[k].kind = "string" =>
                  holds(routineBody(toks), sig[k].val)

=============================================================================
