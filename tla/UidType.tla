------------------------------ MODULE UidType ------------------------------
(***************************************************************************)
(* uidtype.go: under --uid-type text the report warns of every uuid column *)
(* a policy compares auth.uid() to.  The scan works on the tokens of the   *)
(* expression; what it should find is said of the expression's own text.   *)
(***************************************************************************)
EXTENDS Lexer

CONSTANTS
  policyTable,  \* the table of the policy, a [schema, name] record
  Expressions,  \* the texts that are policy expressions
  uuidColumns   \* the <<schema, table, column>> triples of type uuid

ASSUME UuidColumnsAssumption ==
  uuidColumns \subseteq Seq(STRING) \X Seq(STRING) \X Seq(STRING)

comparison(t) == \E op \in {<<"=">>, <<"<", ">">>, <<"!", "=">>} : isOp(t, op)

isUIDCall(sig, k) ==
  /\ k + 4 <= Len(sig)
  /\ name(sig[k]) /\ sig[k].val = <<"auth">>
  /\ ~(k > 1 /\ op_(sig[k - 1], "."))
  /\ op_(sig[k + 1], ".") /\ word(sig[k + 2], "uid")
  /\ op_(sig[k + 3], "(") /\ op_(sig[k + 4], ")")

\* Mutated form: the alias pg_get_expr gives the subquery is not skipped.
widenedNoAlias(sig, k) ==
  IF /\ k >= 3 /\ word(sig[k - 1], "select") /\ op_(sig[k - 2], "(")
     /\ k + 5 <= Len(sig) /\ op_(sig[k + 5], ")")
  THEN <<k - 2, k + 5>> ELSE <<k, k + 4>>

\* The call, or the scalar subquery ( select auth.uid() [as x] ) around it.
widened(sig, k) ==
  LET e == IF k + 5 <= Len(sig) /\ word(sig[k + 5], "as") THEN k + 7 ELSE k + 5
  IN  IF /\ k >= 3 /\ word(sig[k - 1], "select") /\ op_(sig[k - 2], "(")
         /\ e <= Len(sig) /\ op_(sig[e], ")")
      THEN <<k - 2, e>> ELSE <<k, k + 4>>

dotted(sig, from, to) ==
  \A k \in from..to : IF (k - from) % 2 = 0 THEN name(sig[k]) ELSE op_(sig[k], ".")

parts(sig, from, to) == [k \in 1..((to - from) \div 2 + 1) |-> sig[from + 2 * (k - 1)].val]

\* A dotted chain of names, <<>> when it is part of something else.
identChainEndingAt(sig, end) ==
  LET starts == {k \in 1..end : (end - k) % 2 = 0 /\ dotted(sig, k, end)}
      from   == least(starts)
  IN  IF starts = {} THEN <<>>
      ELSE IF from > 1 /\ (isOp(sig[from - 1], <<":", ":">>) \/ op_(sig[from - 1], "."))
           THEN <<>> ELSE parts(sig, from, end)

identChainStartingAt(sig, start) ==
  LET ends == {k \in start..Len(sig) : (k - start) % 2 = 0 /\ dotted(sig, start, k)}
      to   == CHOOSE k \in ends : \A j \in ends : j <= k
  IN  IF ends = {} THEN <<>>
      ELSE IF /\ to < Len(sig)
              /\ \/ isOp(sig[to + 1], <<":", ":">>)
                 \/ \E c \in {"(", "[", "."} : op_(sig[to + 1], c)
           THEN <<>> ELSE parts(sig, start, to)

\* The column a chain names: two parts may be the policy's own table or one of
\* public.
resolve(chain) ==
  CASE Len(chain) = 1 -> {<<policyTable.schema, policyTable.name, chain[1]>>}
    [] Len(chain) = 2 -> {<<IF chain[1] = policyTable.name THEN policyTable.schema
                            ELSE <<"public">>, chain[1], chain[2]>>}
    [] Len(chain) = 3 -> {chain}
    [] OTHER          -> {}

uidComparedColumns(sig) ==
  LET at_(k) ==
        LET w == widened(sig, k)
        IN  (IF w[1] >= 3 /\ comparison(sig[w[1] - 1])
             THEN resolve(identChainEndingAt(sig, w[1] - 2)) ELSE {})
            \cup
            (IF w[2] + 2 <= Len(sig) /\ comparison(sig[w[2] + 1])
             THEN resolve(identChainStartingAt(sig, w[2] + 2)) ELSE {})
  IN  UNION {at_(k) : k \in {j \in 1..Len(sig) : isUIDCall(sig, j)}}

\* uidTextCheck.policy: the columns the report warns of.
policyColumns == uidComparedColumns(sigToks) \cap uuidColumns

-----------------------------------------------------------------------------
\* What an expression says, to measure the scan against.

stands(sig, k, ops) == \E op \in ops : k \in 1..Len(sig) /\ isOp(sig[k], op)

\* From a to b a column is named and nothing done to it: no cast, call or
\* subscript, and not the name of a type.
reference(sig, a, b) ==
  /\ a <= b /\ (b - a) % 2 = 0 /\ dotted(sig, a, b)
  /\ ~stands(sig, a - 1, {<<".">>, <<":", ":">>})
  /\ ~stands(sig, b + 1, {<<".">>, <<":", ":">>, <<"(">>, <<"[">>})

\* auth.uid(), from a to b.
userId(sig, a, b) ==
  /\ b = a + 4 /\ b <= Len(sig) /\ ~stands(sig, a - 1, {<<".">>})
  /\ name(sig[a]) /\ sig[a].val = <<"auth">> /\ op_(sig[a + 1], ".")
  /\ word(sig[a + 2], "uid") /\ op_(sig[a + 3], "(") /\ op_(sig[b], ")")

\* The same as a scalar subquery, with or without a name for its column.
userQuery(sig, a, b) ==
  /\ a < b /\ op_(sig[a], "(") /\ word(sig[a + 1], "select") /\ op_(sig[b], ")")
  /\ \/ userId(sig, a + 2, b - 1)
     \/ userId(sig, a + 2, b - 3) /\ word(sig[b - 2], "as")

user(sig, a, b) == userId(sig, a, b) \/ userQuery(sig, a, b)

\* A column is named by the end of its full name: alone it is one of the policy's
\* table, with a table's name one of the policy's table or of one in public.
names(chain, column) ==
  LET n == Len(chain)
  IN  /\ n \in 1..3 /\ chain = SubSeq(column, 4 - n, 3)
      /\ n = 1 => column[2] = policyTable.name
      /\ n < 3 => column[1] = IF column[2] = policyTable.name THEN policyTable.schema
                              ELSE <<"public">>

comparisonsIn(sig) == {m \in 1..Len(sig) : comparison(sig[m])}

\* The comparison at m stands between the column and the user id, from a to b.
compared(sig, a, m, b, column) ==
  /\ a < m /\ m < b
  /\ \/ /\ reference(sig, a, m - 1) /\ user(sig, m + 1, b)
        /\ names(parts(sig, a, m - 1), column)
     \/ /\ user(sig, a, m - 1) /\ reference(sig, m + 1, b)
        /\ names(parts(sig, m + 1, b), column)

\* What stands around it leaves its operands whole: nothing that binds tighter
\* than a comparison, so no operator and no cast.  (The words that bind tighter,
\* COLLATE, AT, LIKE, BETWEEN and IN, neither take a uuid next to a comparison
\* nor yield one, and PostgreSQL rejects them here.)
whole(sig, a, b) ==
  /\ a > 1 /\ sig[a - 1].kind = "op" =>
       stands(sig, a - 1, {<<"(">>, <<"[">>, <<",">>, <<"=", ">">>, <<":", "=">>})
  /\ b < Len(sig) /\ sig[b + 1].kind = "op" =>
       stands(sig, b + 1, {<<")">>, <<"]">>, <<",">>, <<";">>})
  /\ b < Len(sig) => ~word(sig[b + 1], "operator")

\* The columns that are compared with the user id.
besideUser(sig) ==
  {column \in uuidColumns : \E m \in comparisonsIn(sig) : \E a \in 1..m, b \in m..Len(sig) :
     compared(sig, a, m, b, column) /\ whole(sig, a, b)}

\* Each comparison is of what touches it: no operand goes on beyond.
direct(sig) ==
  \A m \in comparisonsIn(sig) : \A a \in 1..m, b \in m..Len(sig), column \in uuidColumns :
    compared(sig, a, m, b, column) => whole(sig, a, b)

-----------------------------------------------------------------------------

\* uidtype.go: every column an expression compares auth.uid() to directly with =,
\* <> or !=, on either side, in pg_get_expr's rendering or the policy's own, is
\* warned of.  No other column is: not one behind a cast, a call or a subscript,
\* nor one of another table, as long as no operand goes on past what touches the
\* comparison; of those that do, CastsSkipped is about the ones cast.
UuidColumnsNamed ==
  split /\ src \in Expressions /\ readable(src) =>
    LET sig == significants(PgTokens(src))
    IN  /\ besideUser(sig) \subseteq policyColumns
        /\ direct(sig) => policyColumns \subseteq besideUser(sig)

-----------------------------------------------------------------------------
\* What uidtype.go says of itself and the code does not do.

\* "A cast on either side (owner_id::text) means the comparison is not text =
\* uuid and is skipped" (uidtype.go:152): each column warned of is in a comparison
\* that no cast follows.
CastsSkipped ==
  split /\ src \in Expressions /\ readable(src) =>
    LET sig == significants(PgTokens(src))
    IN  \A column \in policyColumns :
          \E m \in comparisonsIn(sig) : \E a \in 1..m, b \in m..Len(sig) :
            compared(sig, a, m, b, column) /\ ~stands(sig, b + 1, {<<":", ":">>})

=============================================================================
