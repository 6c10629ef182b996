------------------------------- MODULE MCText -------------------------------
(***************************************************************************)
(* All short texts over four small alphabets, policy expressions rendered  *)
(* the ways people and pg_get_expr write them, and routines with bodies of *)
(* statements that write tables or only look as if they did.               *)
(***************************************************************************)
EXTENDS UidType, DefinerBody

LOCAL INSTANCE SequencesExt

CONSTANT Declared  \* the definitions, each with what it says

MCWord == {"E", "a", "auth", "uid", "role", "select", "as", "and", "not",
           "lower", "text", "uuid", "owner", "items", "teams", "public", "audit",
           "insert", "into", "values", "merge", "using", "on", "when", "matched",
           "then", "delete", "from", "where", "update", "only", "set", "do", "for",
           "no", "key", "of", "with", "returning", "raise", "begin", "end", "if",
           "loop", "in", "create", "function", "default", "external", "security",
           "definer", "invoker"}
MCMultiOps ==
  {<<"-", ">", ">">>, <<"#", ">", ">">>, <<"!", "~", "*">>, <<":", ":">>, <<":", "=">>,
   <<"=", ">">>, <<"-", ">">>, <<"#", ">">>, <<"|", "|">>, <<"!", "=">>, <<"<", ">">>,
   <<"<", "=">>, <<">", "=">>, <<"?", "|">>, <<"?", "&">>, <<"@", ">">>, <<"<", "@">>,
   <<"#", "-">>, <<"!", "~">>, <<"~", "*">>}

Texts(alphabet, n) == UNION {[1..k -> alphabet] : k \in 1..n}

Quoting  == Texts({"'", "\"", "E", "\\", ";"}, 7)
Dollars  == Texts({"$", "a", "'", ";"}, 8)
Comments == Texts({"/", "*", "-", "\n", ";"}, 7)
Operators == Texts({"#", "-", ">", "|", ":", "=", "@", "a"}, 4)

\* Expressions: an operand, with the column it is when it is one.
column(s, t, c) == <<<<s>>, <<t>>, <<c>>>>
MCPolicyTable == [schema |-> <<"audit">>, name |-> <<"items">>]
MCUuidColumns == {column("audit", "items", "owner"), column("public", "teams", "owner")}

columns ==
  {<<<<"owner">>, {column("audit", "items", "owner")}>>,
   <<<<"items", ".", "owner">>, {column("audit", "items", "owner")}>>,
   <<<<"teams", ".", "\"", "owner", "\"">>, {column("public", "teams", "owner")}>>,
   <<<<"public", ".", "items", ".", "owner">>, {column("public", "items", "owner")}>>}
others == {<<"owner", ":", ":", "text">>, <<"lower", "(", "owner", ")">>,
           <<"owner", "[", "a", "]">>, <<"'", "owner", "'">>,
           <<"a", ".", "audit", ".", "items", ".", "owner">>}
operands == columns \cup {<<o, {}>> : o \in others}

calls == {<<"auth", ".", "uid", "(", ")">>, <<"\"", "auth", "\"", ".", "uid", "(", ")">>}
wrapped(c) == {c, <<"(", "select", " ">> \o c \o <<")">>,
               <<"(", " ", "select", "\n">> \o c \o <<" ", "as", " ", "uid", ")">>}
uids  == UNION {wrapped(c) : c \in calls}
notUids == {<<"auth", ".", "role", "(", ")">>, <<"a", ".", "auth", ".", "uid", "(", ")">>}

equals   == {<<"=">>, <<" ", "<", ">", " ">>, <<"!", "=">>}
unequals == {<<" ", "<", " ">>, <<"|", "|">>}

joined(l, op, r) == {l \o op \o r, r \o op \o l}

\* One comparison, with the columns it compares the user id to.
comparisons ==
  UNION {{<<e, o[2]>> : e \in joined(o[1], op, u)} :
           o \in operands, op \in equals, u \in uids}
  \cup UNION {{<<e, {}>> : e \in joined(o[1], op, u)} :
           o \in columns, op \in unequals, u \in calls}
  \cup UNION {{<<e, {}>> : e \in joined(o[1], op, u)} :
           o \in columns, op \in {<<"=">>}, u \in notUids}

\* One with an operand that goes on: a cast or another operator beyond what
\* touches the comparison.
longer ==
  UNION {{<<o[1] \o op \o u \o <<":", ":", "uuid">>, {}>>,
          <<u \o <<":", ":", "uuid">> \o op \o o[1], {}>>,
          <<<<"a", "|", "|">> \o o[1] \o op \o u, {}>>,
          <<u \o op \o o[1] \o <<"|", "|", "a">>, {}>>} :
           o \in columns, op \in {<<"=">>}, u \in uids}

\* An argument, where the comparison is whole.
arguments ==
  UNION {{<<<<"lower", "(", "a", ",">> \o c[1] \o <<")">>, c[2]>>,
          <<<<"lower", "(", "a", "=", ">">> \o c[1] \o <<",", "a", ")">>, c[2]>>} :
           c \in {d \in comparisons : Len(d[1]) <= 8}}

\* Two of them, or one after a NOT and a comment.
first_ == {c \in comparisons : Len(c[1]) <= 8}
phrases ==
  comparisons \cup longer \cup arguments
  \cup {<<<<"not", "/", "*", "=", "*", "/">> \o c[1], c[2]>> : c \in comparisons}
  \cup {<<c[1] \o <<" ", "and", " ">> \o d[1], c[2] \cup d[2]>> : c, d \in first_}

MCExpressions == {p[1] : p \in phrases}

\* What the property takes an expression to say is what it was built to say.
ASSUME ExpressionsAssumption ==
  /\ \A p \in phrases :
       /\ readable(p[1])
       /\ besideUser(significants(PgTokens(p[1]))) = p[2] \cap MCUuidColumns
  /\ \A p \in comparisons \cup arguments : direct(significants(PgTokens(p[1])))

-----------------------------------------------------------------------------
\* Statements, with the targets of their writes.

\* Words, a space before each.
words(ws) == [k \in 1..(2 * Len(ws)) |-> IF k % 2 = 1 THEN " " ELSE ws[k \div 2]]

table(s, n) == [schema |-> s, name |-> n]
tables ==
  {<<<<"items">>, table(<<>>, <<"items">>)>>,
   <<<<"public", ".", "items">>, table(<<"public">>, <<"items">>)>>,
   <<<<"audit", " ", ".", "\"", "items", "\"">>, table(<<"audit">>, <<"items">>)>>}
onlys == {<<<<"only", " ">> \o t[1], t[2]>> : t \in tables}

\* A statement is what stands before the table and after it.
writing ==
  {<<<<"insert", " ", "into", " ">>, words(<<"values", "(", "a", ")">>)>>,
   <<<<"insert", "/", "*", "update", "*", "/", "into", "\n">>,
     words(<<"values", "(", "a", ")", "on", "a", "do", "update", "set", "a", "=", "a">>)>>,
   <<<<"merge", " ", "into", " ">>,
     words(<<"using", "a", "on", "a", "when", "matched", "then", "update", "set",
              "a", "=", "a">>)>>}
changing ==
  {<<<<"merge", " ", "into", " ">>,
     words(<<"using", "a", "on", "a", "when", "matched", "then", "delete">>)>>,
   <<<<"delete", " ", "from", " ">>, words(<<"where", "a">>)>>,
   <<<<"update", " ">>, words(<<"set", "a", "=", "a">>)>>,
   <<<<"update", " ">>, words(<<"a", "set", "a", "=", "a">>)>>,
   <<<<"update", " ">>, words(<<"as", "a", "set", "a", "=", "a">>)>>}

about(forms, ts) == {<<f[1] \o t[1] \o f[2], <<t[2]>>>> : f \in forms, t \in ts}

reading ==
  {<<words(<<"select", "a", "from", "items", "for", "update">>), <<>>>>,
   <<words(<<"select", "a", "from", "items", "for", "no", "key", "update", "of", "items">>), <<>>>>,
   <<<<"raise", "'", "delete", " ", "from", " ", "items", "'">>, <<>>>>,
   <<<<"raise", "'", "security", " ", "definer", "'">>, <<>>>>,
   <<<<"-", "-", "update", " ", "items", " ", "set", "\n", "select", " ", "a">>, <<>>>>,
   <<<<"select", "\"", "delete", "\"", "from", " ", "items">>, <<>>>>}

statements == about(writing \cup changing, tables) \cup about(changing, onlys) \cup reading

\* One statement in its surroundings, or two of them.
inner(s) ==
  {s,
   <<words(<<"begin", "if", "a", "then">>) \o <<" ">> \o s[1] \o <<";", "end">>, s[2]>>,
   <<words(<<"for", "a", "in">>) \o <<" ">> \o s[1] \o words(<<"loop", "end", "loop">>), s[2]>>,
   <<<<"with", " ", "a", " ", "as", "(">> \o s[1]
       \o words(<<")", "insert", "into", "a", "select", "a">>),
     s[2] \o <<table(<<>>, <<"a">>)>>>>}
short == {s \in statements : Len(s[1]) <= 14}
bodies == UNION {inner(s) : s \in statements}
          \cup {<<s[1] \o <<";">> \o r[1], s[2] \o r[2]>> : s, r \in short}

\* Definitions, with what they say of the routine.
attributes ==
  {<<<<>>, FALSE>>, <<words(<<"security", "invoker">>), FALSE>>,
   <<words(<<"security", "definer">>), TRUE>>,
   <<words(<<"external", "security", "\n", "definer">>), TRUE>>,
   <<<<"security", "/", "*", "a", "*", "/", "definer">>, TRUE>>,
   <<<<"/", "*", "security", " ", "definer", "*", "/">>, FALSE>>}

doubled(t) == FlattenSeq([k \in 1..Len(t) |-> IF t[k] = "'" THEN <<"'", "'">> ELSE <<t[k]>>])

literals(t) == {<<"$", "$">> \o t \o <<"$", "$">>,
                <<"$", "a", "$">> \o t \o <<"$", "a", "$">>,
                <<"'">> \o doubled(t) \o <<"'">>}

heads == {<<<<"(", ")">>, <<>>>>,
          <<<<"(", "a", " ", "text", " ", "default", "'", "update", "'", ")">>,
            <<"update">> \o ended>>}

MCDeclared ==
  UNION {{<<words(<<"create", "function", "a">>) \o h[1] \o p,
            a[2], h[2] \o s[1] \o ended, s[1]>> :
            p \in UNION {{a[1] \o <<" ", "as", " ">> \o l,
                          <<"as", " ">> \o l \o a[1]} : l \in literals(s[1])}} :
         h \in heads, a \in attributes, s \in short}

MCDefinitions == {d[1] : d \in MCDeclared}

\* The bodies, and those that the definitions hold.
bodiesRead == bodies \cup {<<h[2] \o s[1] \o ended, s[2]>> : h \in heads, s \in short}
MCBodies   == {b[1] : b \in bodiesRead}

\* The same of bodies and of definitions.
ASSUME BodiesAssumption ==
  \A b \in bodiesRead :
    LET sig == significants(PgTokens(b[1]))
    IN  /\ readable(b[1]) /\ understood(sig)
        /\ FlattenSeq([k \in 1..Len(sig) |-> SetToSeq(written(sig, k))]) = b[2]

ASSUME DefinitionsAssumption ==
  /\ Cardinality(Definitions) = Cardinality(Declared)
  /\ \A d \in Declared :
       LET ts  == PgTokens(d[1])
           sig == significants(ts)
       IN  /\ readable(d[1]) /\ oneSecurity(sig)
           /\ (\E k \in 1..Len(sig) : reads(sig, k, <<"security", "definer">>)) = d[2]
           /\ routineBody(ts) = d[3]
           /\ \E k \in 2..Len(sig) : /\ word(sig[k - 1], "as") /\ sig[k].kind = "string"
                                     /\ sig[k].val = d[4]

-----------------------------------------------------------------------------

MCSources == Quoting \cup Dollars \cup Comments \cup Operators \cup MCExpressions
             \cup MCDefinitions \cup MCBodies

=============================================================================
