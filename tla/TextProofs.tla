----------------------------- MODULE TextProofs -----------------------------
(***************************************************************************)
(* That the columns the report warns of, the tables a body writes and the  *)
(* attributes and bodies of definitions are those the texts name, for      *)
(* every text: the lexer reads a legible text as PostgreSQL's tokens, and  *)
(* each scan finds in a sequence of tokens what the grammar says is there. *)
(***************************************************************************)
EXTENDS LexerProofs, UidType, DefinerBody
LOCAL INSTANCE SequencesExt

-----------------------------------------------------------------------------
\* The significant tokens.

SignificantValues(f, Tok, ts) ==
  /\ f \in [0..Len(ts) -> Seq(Tok)]
  /\ significants(ts) = f[Len(ts)] /\ f[0] = <<>>
  /\ \A k \in 1..Len(ts) :
       f[k] = IF significant(ts[k]) THEN Append(f[k - 1], ts[k]) ELSE f[k - 1]

LEMMA SignificantsDefined ==
  ASSUME NEW Tok, NEW ts \in Seq(Tok)
  PROVE  \E f : SignificantValues(f, Tok, ts)
<1> DEFINE n == Len(ts)
           S == 0..n
           V == Seq(Tok)
           step(k, f) == IF k = 0 THEN <<>>
                         ELSE IF significant(ts[k]) THEN Append(f[k - 1], ts[k]) ELSE f[k - 1]
           D == [x \in S \X [S -> V] |-> step(x[1], x[2])]
           m == [k \in S |-> k]
<1>1. n \in Nat
  OBVIOUS
<1>2. ASSUME NEW k \in S, NEW f, k # 0 => f[k - 1] \in V
      PROVE  step(k, f) \in V
  <2>1. CASE k = 0
    <3>1. <<>> \in V
      OBVIOUS
    <3> HIDE DEF V
    <3> QED BY <2>1, <3>1
  <2>2. CASE k # 0
    <3>1. ts[k] \in Tok /\ f[k - 1] \in Seq(Tok)
      BY <1>1, <1>2, <2>2
    <3>2. Append(f[k - 1], ts[k]) \in V
      BY <3>1
    <3> HIDE DEF V
    <3> QED BY <1>2, <2>2, <3>2
  <2> QED BY <2>1, <2>2
<1>3. \A k \in S, f \in [S -> V] : step(k, f) \in V
  <2> SUFFICES ASSUME NEW k \in S, NEW f \in [S -> V]
               PROVE  step(k, f) \in V
    OBVIOUS
  <2>1. ASSUME k # 0
        PROVE  f[k - 1] \in V
    <3>1. k - 1 \in S
      BY <1>1, <2>1
    <3> HIDE DEF S, V
    <3> QED BY <3>1
  <2> HIDE DEF S, V, step
  <2> QED BY <1>2, <2>1
<1>4. D \in [S \X [S -> V] -> V]
  <2> HIDE DEF S, V, step
  <2> QED BY <1>3
<1>5. m \in [S -> 0..n]
  BY <1>1
<1>6. ASSUME NEW x \in S, NEW g \in [S -> V], NEW h \in [S -> V],
             \A y \in S : m[y] < m[x] => g[y] = h[y]
      PROVE  D[<<x, g>>] = D[<<x, h>>]
  <2>1. step(x, g) = step(x, h)
    <3>1. CASE x = 0
      BY <3>1
    <3>2. CASE x # 0
      <4>1. x - 1 \in S /\ m[x - 1] < m[x]
        BY <1>1, <3>2
      <4>2. g[x - 1] = h[x - 1]
        <5> HIDE DEF S, m
        <5> QED BY <1>6, <4>1
      <4> HIDE DEF S, m
      <4> QED BY <4>2
    <3> QED BY <3>1, <3>2
  <2> HIDE DEF step, S, V
  <2> QED BY <2>1
<1>7. \E f \in [S -> V] : f = [x \in S |-> D[<<x, f>>]]
  <2>1. V # {} /\ n \in Nat
    <3>1. <<>> \in V
      OBVIOUS
    <3> HIDE DEF V
    <3> QED BY <1>1, <3>1
  <2>2. \A x \in S, g, h \in [S -> V] :
          (\A y \in S : m[y] < m[x] => g[y] = h[y]) => D[<<x, g>>] = D[<<x, h>>]
    <3> HIDE DEF S, V, D, m
    <3> QED BY <1>6
  <2>3. Decreasing(S, V, n, m, D)
    <3> HIDE DEF S, V, D, m, n
    <3> QED BY <1>4, <1>5, <2>1, <2>2 DEF Decreasing
  <2> HIDE DEF S, V, D, m, n
  <2> QED BY <2>3, Recursion
<1> DEFINE r == CHOOSE f : f = [k \in S |-> step(k, f)]
<1>8. r = [k \in S |-> step(k, r)]
  <2>1. PICK f \in [S -> V] : f = [x \in S |-> D[<<x, f>>]]
    BY <1>7
  <2>2. f = [x \in S |-> step(x, f)]
    <3> HIDE DEF step, S, V
    <3> QED BY <2>1
  <2> HIDE DEF S, V, step
  <2> QED BY <2>2
<1>9. significants(ts) = r[Len(ts)]
  BY DEF significants
<1>10. \A k \in S : r[k] = step(k, r)
  <2> HIDE DEF S, step, r
  <2> QED BY <1>8
<1> DEFINE T == {k \in S : r[k] \in V}
<1>11. ASSUME NEW k \in 0..n, \A l \in 0..(k - 1) : l \in T
       PROVE  k \in T
  <2>1. ASSUME k # 0
        PROVE  r[k - 1] \in V
    <3>1. k - 1 \in 0..(k - 1)
      BY <1>1, <2>1
    <3> HIDE DEF V, r
    <3> QED BY <1>11, <3>1
  <2>2. r[k] = step(k, r)
    <3> HIDE DEF step, r
    <3> QED BY <1>10
  <2> HIDE DEF V, step, r
  <2> QED BY <1>2, <2>1, <2>2
<1>12. \A k \in 0..n : k \in T
  <2>1. \A k \in 0..n : (\A l \in 0..(k - 1) : l \in T) => k \in T
    BY <1>11
  <2>2. 0 \in Int /\ n \in Int
    BY <1>1
  <2> HIDE DEF T
  <2> QED BY <2>1, <2>2, Upward
<1>13. r \in [S -> V]
  <2> HIDE DEF V, step, r, S
  <2>1. r = [k \in S |-> r[k]]
    BY <1>8
  <2>2. \A k \in S : r[k] \in V
    BY <1>12 DEF S
  <2> QED BY <2>1, <2>2
<1>14. r[0] = <<>>
  <2>1. 0 \in S
    BY <1>1
  <2> HIDE DEF r
  <2> QED BY <1>10, <2>1
<1>15. ASSUME NEW k \in 1..n
       PROVE  r[k] = IF significant(ts[k]) THEN Append(r[k - 1], ts[k]) ELSE r[k - 1]
  <2>1. k \in S /\ k # 0
    BY <1>1
  <2>2. r[k] = step(k, r)
    <3> HIDE DEF step, r
    <3> QED BY <1>10, <2>1
  <2> HIDE DEF V, r
  <2> QED BY <2>1, <2>2
<1> HIDE DEF r
<1> QED BY <1>9, <1>13, <1>14, <1>15 DEF SignificantValues

\* They are tokens of the text.
LEMMA SignificantsOf ==
  ASSUME NEW Tok, NEW ts \in Seq(Tok)
  PROVE  /\ significants(ts) \in Seq(Tok)
         /\ \A k \in 1..Len(significants(ts)) : \E j \in 1..Len(ts) : significants(ts)[k] = ts[j]
<1> DEFINE n == Len(ts)
<1>1. n \in Nat
  OBVIOUS
<1>2. PICK f : SignificantValues(f, Tok, ts)
  BY SignificantsDefined
<1>3. \A k \in 0..n : f[k] \in Seq(Tok)
  BY <1>2 DEF SignificantValues
<1> DEFINE Of(s) == \A k \in 1..Len(s) : \E j \in 1..n : s[k] = ts[j]
           T == {k \in 0..n : Of(f[k])}
<1>4. ASSUME NEW k \in 0..n, \A l \in 0..(k - 1) : l \in T
      PROVE  Of(f[k])
  <2>1. CASE k = 0
    BY <1>2, <2>1 DEF SignificantValues
  <2>2. CASE k # 0
    <3>1. k \in 1..n /\ k - 1 \in 0..(k - 1) /\ k - 1 \in 0..n
      BY <1>1, <2>2
    <3>2. Of(f[k - 1]) /\ f[k - 1] \in Seq(Tok)
      <4>1. k - 1 \in T
        BY <1>4, <3>1
      <4> QED BY <1>3, <3>1, <4>1
    <3>3. f[k] = IF significant(ts[k]) THEN Append(f[k - 1], ts[k]) ELSE f[k - 1]
      BY <1>2, <3>1 DEF SignificantValues
    <3>4. Of(Append(f[k - 1], ts[k]))
      <4>1. ts[k] \in Tok
        BY <3>1
      <4>2. PICK s \in Seq(Tok) : s = f[k - 1]
        BY <3>2
      <4>3. Of(s)
        BY <3>2, <4>2
      <4>4. ASSUME NEW x \in 1..Len(Append(s, ts[k]))
            PROVE  \E j \in 1..n : Append(s, ts[k])[x] = ts[j]
        <5>1. CASE x = Len(s) + 1
          BY <3>1, <4>1, <5>1
        <5>2. CASE x # Len(s) + 1
          <6>1. x \in 1..Len(s) /\ Append(s, ts[k])[x] = s[x]
            BY <4>1, <5>2
          <6> QED BY <4>3, <6>1
        <5> QED BY <5>1, <5>2
      <4> QED BY <4>2, <4>4
    <3> HIDE DEF Of
    <3> QED BY <3>2, <3>3, <3>4
  <2> HIDE DEF Of
  <2> QED BY <2>1, <2>2
<1>5. \A k \in 0..n : k \in T
  <2>1. \A k \in 0..n : (\A l \in 0..(k - 1) : l \in T) => k \in T
    BY <1>4
  <2>2. 0 \in Int /\ n \in Int
    BY <1>1
  <2> HIDE DEF T
  <2> QED BY <2>1, <2>2, Upward
<1>6. n \in 0..n /\ significants(ts) = f[n]
  BY <1>1, <1>2 DEF SignificantValues
<1> QED BY <1>3, <1>5, <1>6

-----------------------------------------------------------------------------
\* What an expression compares the user id to.

\* An operator of one symbol is neither a name nor another operator, a word is no
\* operator, and a comparison is no bracket, dot or cast.
LEMMA Apart ==
  ASSUME NEW t
  PROVE  /\ \A op : isOp(t, op) => ~name(t)
         /\ \A w : word(t, w) => name(t)
         /\ \A c, d : op_(t, c) /\ op_(t, d) => c = d
         /\ \A w, v : word(t, w) /\ word(t, v) => w = v
         /\ comparison(t) => /\ ~name(t) /\ ~isOp(t, <<":", ":">>)
                             /\ \A c \in {".", "(", ")", "["} : ~op_(t, c)
<1>1. \A c, d : <<c>> = <<d>> => c = d
  OBVIOUS
<1>2. comparison(t) => t.kind = "op" /\ t.val \in {<<"=">>, <<"<", ">">>, <<"!", "=">>}
  BY DEF comparison, isOp
<1>3. \A op \in {<<"=">>, <<"<", ">">>, <<"!", "=">>} :
        op # <<":", ":">> /\ \A c \in {".", "(", ")", "["} : op # <<c>>
  OBVIOUS
<1> QED BY <1>1, <1>2, <1>3 DEF isOp, op_, word, name

\* isUIDCall finds auth.uid() and nothing else.
LEMMA CallIs ==
  ASSUME NEW sig \in Seq(Token), NEW k \in 1..Len(sig)
  PROVE  isUIDCall(sig, k) <=> userId(sig, k, k + 4)
<1>1. Len(sig) \in Nat
  OBVIOUS
<1>2. stands(sig, k - 1, {<<".">>}) <=> k > 1 /\ op_(sig[k - 1], ".")
  BY <1>1 DEF stands, op_
<1> QED BY <1>1, <1>2 DEF isUIDCall, userId

\* What widened returns is the user id, as a call or as a subquery.
LEMMA WidenedIs ==
  ASSUME NEW sig \in Seq(Token), NEW k \in 1..Len(sig), isUIDCall(sig, k)
  PROVE  LET w == widened(sig, k)
         IN  /\ w[1] \in 1..Len(sig) /\ w[2] \in (w[1] + 1)..Len(sig)
             /\ user(sig, w[1], w[2])
<1> DEFINE e == IF k + 5 <= Len(sig) /\ word(sig[k + 5], "as") THEN k + 7 ELSE k + 5
           wide == /\ k >= 3 /\ word(sig[k - 1], "select") /\ op_(sig[k - 2], "(")
                   /\ e <= Len(sig) /\ op_(sig[e], ")")
<1>1. Len(sig) \in Nat /\ userId(sig, k, k + 4) /\ k + 4 <= Len(sig)
  <2>1. userId(sig, k, k + 4)
    BY CallIs
  <2> QED BY <2>1 DEF userId
<1>2. CASE wide
  <2>1. widened(sig, k) = <<k - 2, e>>
    BY <1>2 DEF widened
  <2>2. k - 2 \in 1..Len(sig) /\ e \in (k - 2 + 1)..Len(sig)
    BY <1>1, <1>2
  <2>3. userQuery(sig, k - 2, e)
    <3>1. k - 2 + 2 = k /\ k - 2 + 1 = k - 1 /\ k - 2 < e
      BY <1>1
    <3>2. CASE e = k + 5
      <4>1. e - 1 = k + 4
        BY <3>2
      <4> QED BY <1>1, <1>2, <3>1, <4>1 DEF userQuery
    <3>3. CASE e # k + 5
      <4>1. e = k + 7 /\ word(sig[k + 5], "as")
        BY <3>3
      <4>2. e - 3 = k + 4 /\ e - 2 = k + 5
        BY <4>1
      <4> QED BY <1>1, <1>2, <3>1, <4>1, <4>2 DEF userQuery
    <3> QED BY <3>2, <3>3
  <2> HIDE DEF e
  <2> QED BY <2>1, <2>2, <2>3 DEF user
<1>3. CASE ~wide
  <2>1. widened(sig, k) = <<k, k + 4>>
    BY <1>3 DEF widened
  <2> QED BY <1>1, <2>1 DEF user
<1> QED BY <1>2, <1>3

\* And the user id is found with its whole extent: a call that stands beside a
\* comparison is in no subquery.
LEMMA UserFound ==
  ASSUME NEW sig \in Seq(Token), NEW a \in 1..Len(sig), NEW b \in 1..Len(sig),
         user(sig, a, b),
         \/ a > 1 /\ comparison(sig[a - 1])
         \/ b < Len(sig) /\ comparison(sig[b + 1])
  PROVE  \E k \in 1..Len(sig) : isUIDCall(sig, k) /\ widened(sig, k) = <<a, b>>
<1>1. Len(sig) \in Nat
  OBVIOUS
<1>2. CASE userId(sig, a, b)
  <2>1. b = a + 4
    BY <1>2 DEF userId
  <2>2. isUIDCall(sig, a)
    BY <1>2, <2>1, CallIs
  <2>3. widened(sig, a) = <<a, a + 4>>
    <3>1. CASE a > 1 /\ comparison(sig[a - 1])
      <4>1. ~word(sig[a - 1], "select")
        BY <3>1, Apart
      <4> QED BY <4>1 DEF widened
    <3>2. CASE b < Len(sig) /\ comparison(sig[b + 1])
      <4>1. b + 1 = a + 5
        BY <2>1
      <4>2. ~word(sig[a + 5], "as") /\ ~op_(sig[a + 5], ")")
        BY <3>2, <4>1, Apart
      <4> QED BY <4>2 DEF widened
    <3> QED BY <3>1, <3>2
  <2> QED BY <2>1, <2>2, <2>3
<1>3. CASE userQuery(sig, a, b)
  <2> DEFINE k == a + 2
  <2>1. /\ op_(sig[a], "(") /\ word(sig[a + 1], "select") /\ op_(sig[b], ")")
        /\ \/ userId(sig, k, b - 1)
           \/ userId(sig, k, b - 3) /\ word(sig[b - 2], "as")
    BY <1>3 DEF userQuery
  <2>2. k \in 1..Len(sig) /\ isUIDCall(sig, k)
    <3>1. userId(sig, k, k + 4) /\ k + 4 <= Len(sig)
      BY <2>1 DEF userId
    <3>2. k \in 1..Len(sig)
      BY <1>1, <3>1
    <3> QED BY <3>1, <3>2, CallIs
  <2>3. k >= 3 /\ word(sig[k - 1], "select") /\ op_(sig[k - 2], "(")
    <3>1. k - 1 = a + 1 /\ k - 2 = a
      OBVIOUS
    <3> QED BY <2>1, <3>1
  <2>4. CASE userId(sig, k, b - 1)
    <3>1. b = k + 5
      BY <2>4 DEF userId
    <3>2. ~word(sig[k + 5], "as")
      BY <2>1, <3>1, Apart DEF op_
    <3>3. widened(sig, k) = <<k - 2, b>>
      BY <2>1, <2>3, <3>1, <3>2 DEF widened
    <3> QED BY <2>2, <3>3
  <2>5. CASE userId(sig, k, b - 3) /\ word(sig[b - 2], "as")
    <3>1. b = k + 7
      BY <2>5 DEF userId
    <3>2. k + 5 <= Len(sig) /\ word(sig[k + 5], "as")
      <4>1. b - 2 = k + 5
        BY <3>1
      <4> QED BY <1>1, <2>5, <3>1, <4>1
    <3>3. widened(sig, k) = <<k - 2, b>>
      BY <2>1, <2>3, <3>1, <3>2 DEF widened
    <3> QED BY <2>2, <3>3
  <2> QED BY <2>1, <2>4, <2>5
<1> QED BY <1>2, <1>3 DEF user

\* A chain that ends before a comparison is the reference that stands there.
LEMMA ChainEnding ==
  ASSUME NEW sig \in Seq(Token), NEW m \in 2..Len(sig), comparison(sig[m])
  PROVE  LET chain == identChainEndingAt(sig, m - 1)
         IN  /\ chain # <<>> =>
                  \E a \in 1..(m - 1) : reference(sig, a, m - 1) /\ chain = parts(sig, a, m - 1)
             /\ \A a \in 1..(m - 1) : reference(sig, a, m - 1) => chain = parts(sig, a, m - 1)
<1> DEFINE n == Len(sig)
           end == m - 1
           starts == {k \in 1..end : (end - k) % 2 = 0 /\ dotted(sig, k, end)}
           chain == identChainEndingAt(sig, end)
<1>1. n \in Nat /\ m \in 1..n /\ end \in 1..n /\ starts \in SUBSET (1..end)
  OBVIOUS
<1>2. ~stands(sig, end + 1, {<<".">>, <<":", ":">>, <<"(">>, <<"[">>})
  <2>1. end + 1 = m
    BY <1>1
  <2>2. ~isOp(sig[m], <<":", ":">>) /\ ~op_(sig[m], ".") /\ ~op_(sig[m], "(") /\ ~op_(sig[m], "[")
    BY Apart
  <2> QED BY <2>1, <2>2 DEF stands, op_
<1>3. ASSUME NEW a \in 1..end
      PROVE  stands(sig, a - 1, {<<".">>, <<":", ":">>})
               <=> a > 1 /\ (isOp(sig[a - 1], <<":", ":">>) \/ op_(sig[a - 1], "."))
  BY <1>1 DEF stands, op_
<1>4. ASSUME chain # <<>>
      PROVE  \E a \in 1..end : reference(sig, a, end) /\ chain = parts(sig, a, end)
  <2>1. starts # {}
    BY <1>4 DEF identChainEndingAt
  <2>2. least(starts) \in starts
    <3> HIDE DEF starts
    <3> QED BY <1>1, <2>1, Least, 1 \in Int, end \in Int
  <2> DEFINE a == least(starts)
  <2>3. /\ ~(a > 1 /\ (isOp(sig[a - 1], <<":", ":">>) \/ op_(sig[a - 1], ".")))
        /\ chain = parts(sig, a, end)
    BY <1>4, <2>1 DEF identChainEndingAt
  <2>4. a \in 1..end /\ (end - a) % 2 = 0 /\ dotted(sig, a, end) /\ a <= end
    BY <2>2
  <2> HIDE DEF a, starts
  <2>5. reference(sig, a, end)
    BY <1>2, <1>3, <2>3, <2>4 DEF reference
  <2> QED BY <2>3, <2>4, <2>5
<1>5. ASSUME NEW a \in 1..end, reference(sig, a, end)
      PROVE  chain = parts(sig, a, end)
  <2>1. /\ (end - a) % 2 = 0 /\ dotted(sig, a, end)
        /\ ~stands(sig, a - 1, {<<".">>, <<":", ":">>})
    BY <1>5 DEF reference
  <2>2. a \in starts
    BY <2>1
  <2>3. ASSUME NEW k \in starts, k < a
        PROVE  FALSE
    <3>1. (end - k) % 2 = 0 /\ dotted(sig, k, end) /\ k \in 1..end
      OBVIOUS
    <3>2. a - 1 \in k..end /\ (a - 1 - k) % 2 # 0
      BY <1>1, <2>1, <2>3, <3>1
    <3>3. op_(sig[a - 1], ".")
      BY <3>1, <3>2 DEF dotted
    <3> QED BY <1>3, <2>1, <2>3, <3>1, <3>3
  <2>4. \A k \in starts : a <= k
    BY <1>1, <2>3
  <2>5. least(starts) = a
    <3> HIDE DEF starts
    <3> QED BY <1>1, <2>2, <2>4, LeastIs, 1 \in Int, end \in Int
  <2>6. ~(a > 1 /\ (isOp(sig[a - 1], <<":", ":">>) \/ op_(sig[a - 1], ".")))
    BY <1>3, <2>1
  <2> QED BY <2>2, <2>5, <2>6 DEF identChainEndingAt
<1> HIDE DEF chain
<1> QED BY <1>4, <1>5 DEF chain

\* The same of one that starts after a comparison.
LEMMA ChainStarting ==
  ASSUME NEW sig \in Seq(Token), NEW m \in 1..(Len(sig) - 1), comparison(sig[m])
  PROVE  LET chain == identChainStartingAt(sig, m + 1)
         IN  /\ chain # <<>> =>
                  \E b \in (m + 1)..Len(sig) :
                    reference(sig, m + 1, b) /\ chain = parts(sig, m + 1, b)
             /\ \A b \in (m + 1)..Len(sig) :
                  reference(sig, m + 1, b) => chain = parts(sig, m + 1, b)
<1> DEFINE n == Len(sig)
           start == m + 1
           ends == {k \in start..n : (k - start) % 2 = 0 /\ dotted(sig, start, k)}
           to == CHOOSE k \in ends : \A j \in ends : j <= k
           part(b) == /\ b < n
                      /\ \/ isOp(sig[b + 1], <<":", ":">>)
                         \/ \E c \in {"(", "[", "."} : op_(sig[b + 1], c)
           chain == identChainStartingAt(sig, start)
<1>1. n \in Nat /\ m \in 1..n /\ start \in 1..n /\ ends \in SUBSET (start..n)
  OBVIOUS
<1>2. ~stands(sig, start - 1, {<<".">>, <<":", ":">>})
  <2>1. start - 1 = m
    BY <1>1
  <2>2. ~isOp(sig[m], <<":", ":">>) /\ ~op_(sig[m], ".")
    BY Apart
  <2> QED BY <2>1, <2>2 DEF stands, op_
<1>3. ASSUME NEW b \in start..n
      PROVE  stands(sig, b + 1, {<<".">>, <<":", ":">>, <<"(">>, <<"[">>}) <=> part(b)
  <2>1. b + 1 \in 1..n <=> b < n
    BY <1>1
  <2> QED BY <2>1 DEF stands, op_
<1>4. chain = IF ends = {} THEN <<>> ELSE IF part(to) THEN <<>> ELSE parts(sig, start, to)
  BY DEF identChainStartingAt
<1>5. ASSUME chain # <<>>
      PROVE  \E b \in start..n : reference(sig, start, b) /\ chain = parts(sig, start, b)
  <2>1. ends # {} /\ ~part(to) /\ chain = parts(sig, start, to)
    <3> HIDE DEF ends, part, to, chain
    <3> QED BY <1>4, <1>5
  <2>2. to \in ends
    <3> HIDE DEF ends
    <3>1. PICK k \in ends : \A j \in ends : j <= k
      BY <1>1, <2>1, Greatest, start \in Int, n \in Int
    <3> QED BY <3>1
  <2>3. to \in start..n /\ (to - start) % 2 = 0 /\ dotted(sig, start, to) /\ start <= to
    <3> HIDE DEF to
    <3> QED BY <1>1, <2>2
  <2> HIDE DEF ends, to, part, chain
  <2>4. reference(sig, start, to)
    BY <1>2, <1>3, <2>1, <2>3 DEF reference
  <2> QED BY <2>1, <2>3, <2>4
<1>6. ASSUME NEW b \in start..n, reference(sig, start, b)
      PROVE  chain = parts(sig, start, b)
  <2>1. /\ (b - start) % 2 = 0 /\ dotted(sig, start, b)
        /\ ~stands(sig, b + 1, {<<".">>, <<":", ":">>, <<"(">>, <<"[">>})
    BY <1>6 DEF reference
  <2>2. b \in ends
    BY <2>1
  <2>3. ~part(b)
    <3> HIDE DEF part
    <3> QED BY <1>3, <2>1
  <2>4. ASSUME NEW k \in ends, b < k
        PROVE  FALSE
    <3>1. (k - start) % 2 = 0 /\ dotted(sig, start, k) /\ k \in start..n
      OBVIOUS
    <3>2. b + 1 \in start..k /\ (b + 1 - start) % 2 # 0 /\ b < n
      BY <1>1, <2>1, <2>4, <3>1
    <3>3. op_(sig[b + 1], ".")
      BY <3>1, <3>2 DEF dotted
    <3> QED BY <2>3, <3>2, <3>3
  <2>5. to = b
    <3>1. \A k \in ends : k <= b
      BY <1>1, <2>4
    <3>2. \A k \in ends : (\A j \in ends : j <= k) => k = b
      BY <1>1, <2>2, <3>1
    <3> HIDE DEF ends
    <3> QED BY <2>2, <3>1, <3>2
  <2> HIDE DEF ends, to, part, chain
  <2> QED BY <1>4, <2>2, <2>3, <2>5
<1> HIDE DEF chain
<1> QED BY <1>5, <1>6 DEF chain

\* The names of a reference.
LEMMA PartsType ==
  ASSUME NEW sig \in Seq(Token), NEW a \in 1..Len(sig), NEW b \in a..Len(sig)
  PROVE  parts(sig, a, b) \in Seq(Seq(STRING))
<1>1. Len(sig) \in Nat /\ (b - a) \div 2 + 1 \in Nat
  OBVIOUS
<1>2. ASSUME NEW k \in 1..((b - a) \div 2 + 1)
      PROVE  sig[a + 2 * (k - 1)].val \in Seq(STRING)
  <2>1. 2 * ((b - a) \div 2) <= b - a
    BY <1>1
  <2>2. a + 2 * (k - 1) \in 1..Len(sig)
    BY <1>1, <2>1
  <2>3. sig[a + 2 * (k - 1)] \in Token
    BY <2>2
  <2> QED BY <2>3 DEF Token
<1> QED BY <1>1, <1>2 DEF parts

\* The ends of a triple.
LEMMA TripleEnds ==
  ASSUME NEW S, NEW s \in Seq(S), Len(s) = 3
  PROVE  /\ SubSeq(s, 3, 3) = <<s[3]>> /\ SubSeq(s, 2, 3) = <<s[2], s[3]>>
         /\ SubSeq(s, 1, 3) = <<s[1], s[2], s[3]>>
<1>1. /\ \A j \in 3..3 : s[j] \in S
      /\ \A j \in 2..3 : s[j] \in S
      /\ \A j \in 1..3 : s[j] \in S
  OBVIOUS
<1>2. SubSeq(s, 3, 3) = <<s[3]>>
  <2> DEFINE u == SubSeq(s, 3, 3)
  <2>1. Len(u) = 1 /\ u[1] = s[3]
    OBVIOUS
  <2>2. u \in Seq(S)
    BY <1>1, SubSeqProperties, 3 \in Int, 3 \in Int, Zenon
  <2> HIDE DEF u
  <2>3. u = <<s[3]>>
    BY <2>1, <2>2
  <2> QED BY <2>3 DEF u
<1>3. SubSeq(s, 2, 3) = <<s[2], s[3]>>
  <2> DEFINE u == SubSeq(s, 2, 3)
  <2>1. Len(u) = 2 /\ u[1] = s[2] /\ u[2] = s[3]
    OBVIOUS
  <2>2. u \in Seq(S)
    BY <1>1, SubSeqProperties, 2 \in Int, 3 \in Int, Zenon
  <2> HIDE DEF u
  <2>3. u = <<s[2], s[3]>>
    BY <2>1, <2>2
  <2> QED BY <2>3 DEF u
<1>4. SubSeq(s, 1, 3) = <<s[1], s[2], s[3]>>
  <2> DEFINE u == SubSeq(s, 1, 3)
  <2>1. Len(u) = 3 /\ u[1] = s[1] /\ u[2] = s[2] /\ u[3] = s[3]
    OBVIOUS
  <2>2. u \in Seq(S)
    BY <1>1, SubSeqProperties, 1 \in Int, 3 \in Int, Zenon
  <2> HIDE DEF u
  <2>3. u = <<s[1], s[2], s[3]>>
    BY <2>1, <2>2
  <2> QED BY <2>3 DEF u
<1> QED BY <1>2, <1>3, <1>4

\* resolve looks a column up under the names the grammar gives it.
LEMMA Resolved ==
  ASSUME NEW chain \in Seq(Seq(STRING)), NEW column \in uuidColumns
  PROVE  column \in resolve(chain) <=> names(chain, column)
<1>1. PICK c1 \in Seq(STRING), c2 \in Seq(STRING), c3 \in Seq(STRING) : column = <<c1, c2, c3>>
  BY UuidColumnsAssumption
<1>2. Len(chain) \in Nat /\ column[1] = c1 /\ column[2] = c2 /\ column[3] = c3
  BY <1>1
<1>3. /\ SubSeq(column, 3, 3) = <<c3>> /\ SubSeq(column, 2, 3) = <<c2, c3>>
      /\ SubSeq(column, 1, 3) = <<c1, c2, c3>>
  <2> DEFINE S == Seq(STRING)
  <2>1. column \in Seq(S) /\ Len(column) = 3
    BY <1>1
  <2> HIDE DEF S
  <2> QED BY <1>2, <2>1, TripleEnds
<1>4. CASE Len(chain) = 1
  <2>1. chain = <<chain[1]>>
    BY <1>4
  <2>2. resolve(chain) = {<<policyTable.schema, policyTable.name, chain[1]>>}
    BY <1>4 DEF resolve
  <2>3. names(chain, column)
          <=> chain = <<c3>> /\ c2 = policyTable.name
              /\ c1 = IF c2 = policyTable.name THEN policyTable.schema ELSE <<"public">>
    <3>1. 4 - Len(chain) = 3
      BY <1>4
    <3> QED BY <1>2, <1>3, <1>4, <3>1 DEF names
  <2>4. chain = <<c3>> <=> chain[1] = c3
    BY <2>1
  <2> QED BY <1>1, <2>2, <2>3, <2>4
<1>5. CASE Len(chain) = 2
  <2>1. chain = <<chain[1], chain[2]>>
    BY <1>5
  <2>2. resolve(chain) = {<<IF chain[1] = policyTable.name THEN policyTable.schema
                            ELSE <<"public">>, chain[1], chain[2]>>}
    BY <1>5 DEF resolve
  <2>3. names(chain, column)
          <=> chain = <<c2, c3>>
              /\ c1 = IF c2 = policyTable.name THEN policyTable.schema ELSE <<"public">>
    <3>1. 4 - Len(chain) = 2
      BY <1>5
    <3> QED BY <1>2, <1>3, <1>5, <3>1 DEF names
  <2>4. chain = <<c2, c3>> <=> chain[1] = c2 /\ chain[2] = c3
    BY <2>1
  <2> QED BY <1>1, <2>2, <2>3, <2>4
<1>6. CASE Len(chain) = 3
  <2>1. resolve(chain) = {chain}
    BY <1>6 DEF resolve
  <2>2. names(chain, column) <=> chain = <<c1, c2, c3>>
    <3>1. 4 - Len(chain) = 1
      BY <1>6
    <3> QED BY <1>2, <1>3, <1>6, <3>1 DEF names
  <2> QED BY <1>1, <2>1, <2>2
<1>7. CASE Len(chain) \notin 1..3
  BY <1>2, <1>7 DEF resolve, names
<1> QED BY <1>2, <1>4, <1>5, <1>6, <1>7

\* The empty chain, of an operand that is no reference, names no column.
LEMMA NothingResolved == resolve(<<>>) = {}
BY DEF resolve

\* The columns next to a comparison with the user id, whatever goes on beyond.
adjacent(sig) ==
  {column \in uuidColumns : \E m \in comparisonsIn(sig) : \E a \in 1..m, b \in m..Len(sig) :
     compared(sig, a, m, b, column)}

\* They are the columns found.
LEMMA ColumnsFound ==
  ASSUME NEW sig \in Seq(Token)
  PROVE  uidComparedColumns(sig) \cap uuidColumns = adjacent(sig)
<1> DEFINE n == Len(sig)
           left(w) == IF w[1] >= 3 /\ comparison(sig[w[1] - 1])
                      THEN resolve(identChainEndingAt(sig, w[1] - 2)) ELSE {}
           right(w) == IF w[2] + 2 <= n /\ comparison(sig[w[2] + 1])
                       THEN resolve(identChainStartingAt(sig, w[2] + 2)) ELSE {}
           calls == {j \in 1..n : isUIDCall(sig, j)}
           LeftOf(column, m) == \E a \in 1..(m - 1), b \in (m + 1)..n :
             /\ reference(sig, a, m - 1) /\ user(sig, m + 1, b)
             /\ names(parts(sig, a, m - 1), column)
           RightOf(column, m) == \E a \in 1..(m - 1), b \in (m + 1)..n :
             /\ user(sig, a, m - 1) /\ reference(sig, m + 1, b)
             /\ names(parts(sig, m + 1, b), column)
<1>1. n \in Nat
  OBVIOUS
<1>2. uidComparedColumns(sig)
        = UNION {left(widened(sig, k)) \cup right(widened(sig, k)) : k \in calls}
  BY DEF uidComparedColumns
<1>3. ASSUME NEW column \in uuidColumns
      PROVE  column \in adjacent(sig) <=>
               \E m \in 1..n : comparison(sig[m]) /\ (LeftOf(column, m) \/ RightOf(column, m))
  <2>1. ASSUME NEW m \in 1..n
        PROVE  (\E a \in 1..m, b \in m..n : compared(sig, a, m, b, column))
                 <=> LeftOf(column, m) \/ RightOf(column, m)
    <3>1. /\ \A a : a \in 1..(m - 1) <=> a \in 1..m /\ a < m
          /\ \A b : b \in (m + 1)..n <=> b \in m..n /\ m < b
      BY <1>1
    <3> QED BY <3>1 DEF compared
  <2> QED BY <2>1 DEF adjacent, comparisonsIn
<1>4. ASSUME NEW column \in uuidColumns, NEW k \in calls,
             column \in left(widened(sig, k))
      PROVE  \E m \in 1..n : comparison(sig[m]) /\ LeftOf(column, m)
  <2> DEFINE w == widened(sig, k)
             m == w[1] - 1
             chain == identChainEndingAt(sig, m - 1)
  <2>1. w[1] \in 1..n /\ w[2] \in (w[1] + 1)..n /\ user(sig, w[1], w[2])
    BY WidenedIs
  <2>2. w[1] >= 3 /\ comparison(sig[m]) /\ column \in resolve(identChainEndingAt(sig, w[1] - 2))
    BY <1>4
  <2>3. m \in 2..n /\ m - 1 = w[1] - 2 /\ m + 1 = w[1]
    <3>1. w[1] \in Int /\ w[1] >= 3 /\ w[1] <= n
      BY <1>1, <2>1, <2>2
    <3> QED BY <1>1, <3>1
  <2>4. chain # <<>> /\ column \in resolve(chain)
    BY <2>2, <2>3, NothingResolved
  <2> HIDE DEF w, m, chain
  <2>5. PICK a \in 1..(m - 1) : reference(sig, a, m - 1) /\ chain = parts(sig, a, m - 1)
    BY <2>2, <2>3, <2>4, ChainEnding DEF chain
  <2>6. a \in 1..n /\ m - 1 \in a..n /\ w[2] \in (m + 1)..n /\ m \in 1..n
    BY <1>1, <2>1, <2>3
  <2>7. names(parts(sig, a, m - 1), column)
    BY <2>4, <2>5, <2>6, PartsType, Resolved
  <2>8. user(sig, m + 1, w[2])
    BY <2>1, <2>3
  <2> QED BY <2>2, <2>5, <2>6, <2>7, <2>8
<1>5. ASSUME NEW column \in uuidColumns, NEW k \in calls,
             column \in right(widened(sig, k))
      PROVE  \E m \in 1..n : comparison(sig[m]) /\ RightOf(column, m)
  <2> DEFINE w == widened(sig, k)
             m == w[2] + 1
             chain == identChainStartingAt(sig, m + 1)
  <2>1. w[1] \in 1..n /\ w[2] \in (w[1] + 1)..n /\ user(sig, w[1], w[2])
    BY WidenedIs
  <2>2. w[2] + 2 <= n /\ comparison(sig[m]) /\ column \in resolve(identChainStartingAt(sig, w[2] + 2))
    BY <1>5
  <2>3. m \in 1..(n - 1) /\ m + 1 = w[2] + 2 /\ m - 1 = w[2]
    BY <1>1, <2>1, <2>2
  <2>4. chain # <<>> /\ column \in resolve(chain)
    BY <2>2, <2>3, NothingResolved
  <2> HIDE DEF w, m, chain
  <2>5. PICK b \in (m + 1)..n : reference(sig, m + 1, b) /\ chain = parts(sig, m + 1, b)
    BY <2>2, <2>3, <2>4, ChainStarting DEF chain
  <2>6. m + 1 \in 1..n /\ w[1] \in 1..(m - 1) /\ m \in 1..n
    BY <1>1, <2>1, <2>3
  <2>7. names(parts(sig, m + 1, b), column)
    BY <2>4, <2>5, <2>6, PartsType, Resolved
  <2>8. user(sig, w[1], m - 1)
    BY <2>1, <2>3
  <2> QED BY <2>2, <2>5, <2>6, <2>7, <2>8
<1>6. ASSUME NEW column \in uuidColumns, NEW m \in 1..n, comparison(sig[m]), LeftOf(column, m)
      PROVE  \E k \in calls : column \in left(widened(sig, k))
  <2>1. PICK a \in 1..(m - 1), b \in (m + 1)..n :
          /\ reference(sig, a, m - 1) /\ user(sig, m + 1, b)
          /\ names(parts(sig, a, m - 1), column)
    BY <1>6
  <2>2. m \in 2..n /\ m + 1 \in 1..n /\ b \in 1..n /\ a \in 1..n /\ m - 1 \in a..n
        /\ m + 1 > 1 /\ m + 1 - 1 = m
    BY <1>1, <2>1
  <2>3. PICK k \in 1..n : isUIDCall(sig, k) /\ widened(sig, k) = <<m + 1, b>>
    BY <1>6, <2>1, <2>2, UserFound
  <2>4. identChainEndingAt(sig, m - 1) = parts(sig, a, m - 1)
    BY <1>6, <2>1, <2>2, ChainEnding
  <2>5. column \in resolve(parts(sig, a, m - 1))
    BY <2>1, <2>2, PartsType, Resolved
  <2>6. m + 1 >= 3 /\ m + 1 - 2 = m - 1
    BY <2>2
  <2>7. widened(sig, k)[1] = m + 1
    BY <2>3
  <2>8. left(widened(sig, k)) = resolve(identChainEndingAt(sig, m - 1))
    BY <1>6, <2>2, <2>6, <2>7
  <2> QED BY <2>3, <2>4, <2>5, <2>8
<1>7. ASSUME NEW column \in uuidColumns, NEW m \in 1..n, comparison(sig[m]), RightOf(column, m)
      PROVE  \E k \in calls : column \in right(widened(sig, k))
  <2>1. PICK a \in 1..(m - 1), b \in (m + 1)..n :
          /\ user(sig, a, m - 1) /\ reference(sig, m + 1, b)
          /\ names(parts(sig, m + 1, b), column)
    BY <1>7
  <2>2. m \in 1..(n - 1) /\ m + 1 \in 1..n /\ b \in (m + 1)..n /\ a \in 1..n /\ m - 1 \in 1..n
        /\ m - 1 < n /\ m - 1 + 1 = m
    BY <1>1, <2>1
  <2>3. PICK k \in 1..n : isUIDCall(sig, k) /\ widened(sig, k) = <<a, m - 1>>
    BY <1>7, <2>1, <2>2, UserFound
  <2>4. identChainStartingAt(sig, m + 1) = parts(sig, m + 1, b)
    BY <1>7, <2>1, <2>2, ChainStarting
  <2>5. column \in resolve(parts(sig, m + 1, b))
    BY <2>1, <2>2, PartsType, Resolved
  <2>6. m - 1 + 2 <= n /\ m - 1 + 2 = m + 1
    BY <2>2
  <2>7. widened(sig, k)[2] = m - 1
    BY <2>3
  <2>8. right(widened(sig, k)) = resolve(identChainStartingAt(sig, m + 1))
    BY <1>7, <2>2, <2>6, <2>7
  <2> QED BY <2>3, <2>4, <2>5, <2>8
<1> HIDE DEF left, right, LeftOf, RightOf, n
<1>8. ASSUME NEW column \in uuidColumns
      PROVE  column \in uidComparedColumns(sig) <=> column \in adjacent(sig)
  <2>1. column \in uidComparedColumns(sig) <=>
          \E k \in calls : column \in left(widened(sig, k)) \/ column \in right(widened(sig, k))
    <3> HIDE DEF calls
    <3> QED BY <1>2
  <2> HIDE DEF calls
  <2> QED BY <1>3, <1>4, <1>5, <1>6, <1>7, <2>1
<1>9. adjacent(sig) \subseteq uuidColumns
  BY DEF adjacent
<1> QED BY <1>8, <1>9

\* The significant tokens of a text that is read are those PostgreSQL reads in it.
LEMMA SignificantRead ==
  ASSUME LexInv, TextRead, split, readable(src)
  PROVE  /\ sigToks = significants(PgTokens(src)) /\ sigToks \in Seq(Token)
         /\ \A k \in 1..Len(sigToks) : \E j \in 1..Len(toks) : sigToks[k] = toks[j]
<1>1. toks \in Seq(Token) /\ toks = PgTokens(src)
  BY DEF LexInv, LexShape, TextRead
<1> QED BY <1>1, SignificantsOf DEF sigToks

\* uidtype.go: each column an expression compares auth.uid() to is warned of,
\* whatever else stands in it, and no other column is when each comparison is of
\* what touches it.
THEOREM UuidColumnsNamedTheorem == LexSpec => []UuidColumnsNamed
<1>1. ASSUME LexInv, TextRead
      PROVE  UuidColumnsNamed
  <2> SUFFICES ASSUME split, readable(src)
               PROVE  LET sig == significants(PgTokens(src))
                      IN  /\ besideUser(sig) \subseteq policyColumns
                          /\ direct(sig) => policyColumns \subseteq besideUser(sig)
    BY DEF UuidColumnsNamed
  <2> DEFINE sig == significants(PgTokens(src))
  <2>1. sigToks = sig /\ sig \in Seq(Token)
    BY <1>1, SignificantRead
  <2> HIDE DEF sig
  <2>2. policyColumns = adjacent(sig)
    BY <2>1, ColumnsFound DEF policyColumns
  <2>3. besideUser(sig) \subseteq adjacent(sig)
    BY DEF besideUser, adjacent
  <2>4. direct(sig) => adjacent(sig) \subseteq besideUser(sig)
    BY DEF direct, besideUser, adjacent
  <2> QED BY <2>2, <2>3, <2>4 DEF sig
<1>2. LexInv /\ TextRead => UuidColumnsNamed
  BY <1>1
<1> QED BY <1>2, LexInvariant, TextReadTheorem, PTL

-----------------------------------------------------------------------------
\* Which tables a body writes.

\* The words a phrase of up to four of them is.
LEMMA ReadsAre ==
  ASSUME NEW sig \in Seq(Token), NEW k \in Int
  PROVE  /\ \A w : reads(sig, k, <<w>>) <=> k >= 1 /\ k <= Len(sig) /\ word(sig[k], w)
         /\ \A w, v : reads(sig, k, <<w, v>>) <=>
              k >= 1 /\ k + 1 <= Len(sig) /\ word(sig[k], w) /\ word(sig[k + 1], v)
         /\ \A w, v, x : reads(sig, k, <<w, v, x>>) <=>
              /\ k >= 1 /\ k + 2 <= Len(sig)
              /\ word(sig[k], w) /\ word(sig[k + 1], v) /\ word(sig[k + 2], x)
         /\ \A w, v, x, y : reads(sig, k, <<w, v, x, y>>) =>
              k >= 1 /\ k + 3 <= Len(sig) /\ word(sig[k + 2], x) /\ word(sig[k + 3], y)
<1>1. Len(sig) \in Nat
  OBVIOUS
<1>2. ASSUME NEW w
      PROVE  reads(sig, k, <<w>>) <=> k >= 1 /\ k <= Len(sig) /\ word(sig[k], w)
  <2>1. Len(<<w>>) = 1 /\ k + 1 - 1 = k /\ 1..1 = {1} /\ <<w>>[1] = w
    OBVIOUS
  <2> QED BY <1>1, <2>1 DEF reads
<1>3. ASSUME NEW w, NEW v
      PROVE  reads(sig, k, <<w, v>>) <=>
               k >= 1 /\ k + 1 <= Len(sig) /\ word(sig[k], w) /\ word(sig[k + 1], v)
  <2>1. /\ Len(<<w, v>>) = 2 /\ k + 2 - 1 = k + 1 /\ k + 1 - 1 = k
        /\ 1..2 = {1, 2} /\ <<w, v>>[1] = w /\ <<w, v>>[2] = v
    OBVIOUS
  <2> QED BY <1>1, <2>1 DEF reads
<1>4. ASSUME NEW w, NEW v, NEW x
      PROVE  reads(sig, k, <<w, v, x>>) <=>
               /\ k >= 1 /\ k + 2 <= Len(sig)
               /\ word(sig[k], w) /\ word(sig[k + 1], v) /\ word(sig[k + 2], x)
  <2>1. /\ Len(<<w, v, x>>) = 3 /\ k + 3 - 1 = k + 2 /\ k + 2 - 1 = k + 1 /\ k + 1 - 1 = k
        /\ 1..3 = {1, 2, 3}
        /\ <<w, v, x>>[1] = w /\ <<w, v, x>>[2] = v /\ <<w, v, x>>[3] = x
    OBVIOUS
  <2> QED BY <1>1, <2>1 DEF reads
<1>5. ASSUME NEW w, NEW v, NEW x, NEW y, reads(sig, k, <<w, v, x, y>>)
      PROVE  k >= 1 /\ k + 3 <= Len(sig) /\ word(sig[k + 2], x) /\ word(sig[k + 3], y)
  <2>1. /\ Len(<<w, v, x, y>>) = 4 /\ k + 4 - 1 = k + 3 /\ k + 3 - 1 = k + 2
        /\ 3 \in 1..4 /\ 4 \in 1..4
        /\ <<w, v, x, y>>[3] = x /\ <<w, v, x, y>>[4] = y
    OBVIOUS
  <2> QED BY <1>5, <2>1 DEF reads
<1> QED BY <1>2, <1>3, <1>4, <1>5

\* qnameAt reads the whole name of a table, with ONLY before it or without.
LEMMA QnameIs ==
  ASSUME NEW sig \in Seq(Token), NEW a \in 1..Len(sig), NEW b \in Int, tableName(sig, a, b),
         NEW p \in 1..a, p = a \/ (p = a - 1 /\ word(sig[p], "only"))
  PROVE  qnameAt(sig, p) = {[table |-> tableOf(sig, a, b), next |-> b + 1]}
<1> DEFINE j == IF p <= Len(sig) /\ word(sig[p], "only") THEN p + 1 ELSE p
<1>1. /\ Len(sig) \in Nat /\ b \in {a, a + 2} /\ b <= Len(sig) /\ name(sig[a]) /\ name(sig[b])
      /\ ~word(sig[a], "only") /\ (b = a + 2 => op_(sig[a + 1], "."))
      /\ ~(b < Len(sig) /\ op_(sig[b + 1], "."))
  BY DEF tableName
<1>2. j = a
  BY <1>1
<1>3. CASE b = a + 2
  <2>1. tableOf(sig, a, b) = [schema |-> sig[a].val, name |-> sig[a + 2].val] /\ b + 1 = a + 3
    BY <1>3 DEF tableOf
  <2>2. a + 2 <= Len(sig) /\ op_(sig[a + 1], ".") /\ name(sig[a + 2])
    BY <1>1, <1>3
  <2> QED BY <1>1, <1>2, <2>1, <2>2 DEF qnameAt
<1>4. CASE b = a
  <2>1. tableOf(sig, a, b) = [schema |-> <<>>, name |-> sig[a].val] /\ b + 1 = a + 1
    BY <1>4 DEF tableOf
  <2>2. ~(a + 2 <= Len(sig) /\ op_(sig[a + 1], "."))
    BY <1>1, <1>4
  <2> QED BY <1>1, <1>2, <2>1, <2>2 DEF qnameAt
<1> QED BY <1>1, <1>3, <1>4

\* No statement starts after one of the words that make UPDATE part of a clause.
LEMMA BeginsApart ==
  ASSUME NEW sig \in Seq(Token), NEW k \in 1..Len(sig), begins(sig, k)
  PROVE  ~(k > 1 /\ sig[k - 1].kind = "ident" /\ sig[k - 1].val \in notUpdateStatement)
<1>1. CASE \E c \in {Semicolon, "(", ")"} : op_(sig[k - 1], c)
  BY <1>1 DEF op_, isOp
<1>2. CASE \E w \in {"begin", "then", "else", "loop", "in", "query"} : word(sig[k - 1], w)
  <2>1. PICK w \in {"begin", "then", "else", "loop", "in", "query"} : sig[k - 1].val = <<w>>
    BY <1>2 DEF word
  <2>2. \A v \in {"for", "key", "do", "on", "or", "before", "after", "of"} : <<v>> # <<w>>
    OBVIOUS
  <2> QED BY <2>1, <2>2 DEF notUpdateStatement
<1> QED BY <1>1, <1>2 DEF begins

\* A statement that writes is found, with its table.
LEMMA StatementFound ==
  ASSUME NEW sig \in Seq(Token), NEW k \in 1..Len(sig), NEW a \in Int, NEW b \in Int,
         statement(sig, k, a, b)
  PROVE  writeAt(sig, k) = {[table |-> tableOf(sig, a, b), next |-> b + 1]}
<1>1. Len(sig) \in Nat /\ begins(sig, k) /\ tableName(sig, a, b)
  BY DEF statement
<1>2. b \in {a, a + 2} /\ b <= Len(sig) /\ a <= Len(sig)
  BY <1>1 DEF tableName
<1>3. ASSUME NEW w, NEW v, word(sig[k], w), word(sig[k + 1], v),
             <<w, v>> \in {<<"insert", "into">>, <<"merge", "into">>, <<"delete", "from">>},
             a = k + 2 \/ (a = k + 3 /\ word(sig[k + 2], "only"))
      PROVE  writeAt(sig, k) = {[table |-> tableOf(sig, a, b), next |-> b + 1]}
  <2>1. inserts(sig, k)
    BY <1>2, <1>3 DEF inserts
  <2>2. k + 2 \in 1..a /\ a \in 1..Len(sig)
        /\ (k + 2 = a \/ (k + 2 = a - 1 /\ word(sig[k + 2], "only")))
    BY <1>2, <1>3
  <2>3. qnameAt(sig, k + 2) = {[table |-> tableOf(sig, a, b), next |-> b + 1]}
    BY <1>1, <2>2, QnameIs
  <2> QED BY <2>1, <2>3 DEF writeAt
<1>4. CASE \E ws \in {<<"insert", "into">>, <<"merge", "into">>, <<"merge", "into", "only">>,
                      <<"delete", "from">>, <<"delete", "from", "only">>} :
             reads(sig, k, ws) /\ a = k + Len(ws)
  <2>1. \/ reads(sig, k, <<"insert", "into">>) /\ a = k + 2
        \/ reads(sig, k, <<"merge", "into">>) /\ a = k + 2
        \/ reads(sig, k, <<"merge", "into", "only">>) /\ a = k + 3
        \/ reads(sig, k, <<"delete", "from">>) /\ a = k + 2
        \/ reads(sig, k, <<"delete", "from", "only">>) /\ a = k + 3
    BY <1>4
  <2>2. CASE reads(sig, k, <<"insert", "into">>) /\ a = k + 2
    <3>1. word(sig[k], "insert") /\ word(sig[k + 1], "into")
      BY <2>2, ReadsAre, k \in Int
    <3> QED BY <1>3, <2>2, <3>1
  <2>3. CASE reads(sig, k, <<"merge", "into">>) /\ a = k + 2
    <3>1. word(sig[k], "merge") /\ word(sig[k + 1], "into")
      BY <2>3, ReadsAre, k \in Int
    <3> QED BY <1>3, <2>3, <3>1
  <2>4. CASE reads(sig, k, <<"merge", "into", "only">>) /\ a = k + 3
    <3>1. word(sig[k], "merge") /\ word(sig[k + 1], "into") /\ word(sig[k + 2], "only")
      BY <2>4, ReadsAre, k \in Int
    <3> QED BY <1>3, <2>4, <3>1
  <2>5. CASE reads(sig, k, <<"delete", "from">>) /\ a = k + 2
    <3>1. word(sig[k], "delete") /\ word(sig[k + 1], "from")
      BY <2>5, ReadsAre, k \in Int
    <3> QED BY <1>3, <2>5, <3>1
  <2>6. CASE reads(sig, k, <<"delete", "from", "only">>) /\ a = k + 3
    <3>1. word(sig[k], "delete") /\ word(sig[k + 1], "from") /\ word(sig[k + 2], "only")
      BY <2>6, ReadsAre, k \in Int
    <3> QED BY <1>3, <2>6, <3>1
  <2> QED BY <2>1, <2>2, <2>3, <2>4, <2>5, <2>6
<1>5. CASE /\ \E ws \in {<<"update">>, <<"update", "only">>} : reads(sig, k, ws) /\ a = k + Len(ws)
           /\ \/ reads(sig, b + 1, <<"set">>)
              \/ reads(sig, b + 2, <<"set">>) /\ name(sig[b + 1])
              \/ reads(sig, b + 3, <<"set">>) /\ name(sig[b + 2]) /\ word(sig[b + 1], "as")
  <2>1. \/ reads(sig, k, <<"update">>) /\ a = k + 1
        \/ reads(sig, k, <<"update", "only">>) /\ a = k + 2
    BY <1>5
  <2>2. /\ word(sig[k], "update")
        /\ a = k + 1 \/ (a = k + 2 /\ word(sig[k + 1], "only"))
    BY <2>1, ReadsAre, k \in Int
  <2>3. ~inserts(sig, k)
    <3>1. \A w : word(sig[k], w) => w = "update"
      BY <2>2, Apart
    <3> QED BY <3>1 DEF inserts
  <2>4. k + 1 \in 1..a /\ a \in 1..Len(sig)
        /\ (k + 1 = a \/ (k + 1 = a - 1 /\ word(sig[k + 1], "only")))
    BY <1>2, <2>2
  <2>5. qnameAt(sig, k + 1) = {[table |-> tableOf(sig, a, b), next |-> b + 1]}
    BY <1>1, <2>4, QnameIs
  <2>6. \E j \in (b + 1)..(b + 1 + 2) : j <= Len(sig) /\ word(sig[j], "set")
    <3>1. PICK j \in {b + 1, b + 2, b + 3} : reads(sig, j, <<"set">>)
      BY <1>5
    <3>2. j <= Len(sig) /\ word(sig[j], "set")
      <4>1. j \in Int
        OBVIOUS
      <4> QED BY <3>1, <4>1, ReadsAre
    <3>3. j \in (b + 1)..(b + 1 + 2)
      OBVIOUS
    <3> QED BY <3>2, <3>3
  <2>7. updates(sig, k) = {[table |-> tableOf(sig, a, b), next |-> b + 1]}
    <3> DEFINE q == [table |-> tableOf(sig, a, b), next |-> b + 1]
    <3>1. q.next = b + 1
      OBVIOUS
    <3> HIDE DEF q
    <3>2. updates(sig, k) = {z \in {q} : \E j \in z.next..(z.next + 2) :
                                            j <= Len(sig) /\ word(sig[j], "set")}
      BY <1>1, <2>2, <2>5, BeginsApart DEF updates, q
    <3>3. updates(sig, k) = {q}
      BY <2>6, <3>1, <3>2
    <3> QED BY <3>3 DEF q
  <2> QED BY <2>3, <2>7 DEF writeAt
<1> QED BY <1>4, <1>5 DEF statement

\* In a clause, or where none of the four words stands, nothing is found.
LEMMA ClauseEmpty ==
  ASSUME NEW sig \in Seq(Token), NEW k \in 1..Len(sig), clause(sig, k)
  PROVE  writeAt(sig, k) = {}
<1>1. Len(sig) \in Nat /\ k \in Int /\ k - 1 \in Int /\ k - 3 \in Int /\ k + 1 \in Int
  OBVIOUS
<1>2. CASE k = Len(sig)
  <2>1. ~inserts(sig, k)
    BY <1>2 DEF inserts
  <2>2. qnameAt(sig, k + 1) = {}
    BY <1>1, <1>2 DEF qnameAt
  <2> QED BY <2>1, <2>2 DEF writeAt, updates
<1>3. CASE k # Len(sig) /\ op_(sig[k + 1], Semicolon)
  <2>1. ~name(sig[k + 1]) /\ \A w : ~word(sig[k + 1], w)
    BY <1>3, Apart DEF op_
  <2>2. ~inserts(sig, k)
    BY <2>1 DEF inserts
  <2>3. qnameAt(sig, k + 1) = {}
    BY <1>1, <2>1 DEF qnameAt
  <2> QED BY <2>2, <2>3 DEF writeAt, updates
<1>4. ASSUME word(sig[k], "update"), k > 1,
             \E w \in {"for", "key", "do"} : word(sig[k - 1], w)
      PROVE  writeAt(sig, k) = {}
  <2>1. ~inserts(sig, k)
    <3>1. \A w : word(sig[k], w) => w = "update"
      BY <1>4, Apart
    <3> QED BY <3>1 DEF inserts
  <2>2. sig[k - 1].kind = "ident" /\ sig[k - 1].val \in notUpdateStatement
    BY <1>4 DEF word, notUpdateStatement
  <2> QED BY <1>4, <2>1, <2>2 DEF writeAt, updates
<1>5. CASE reads(sig, k - 1, <<"for", "update">>)
  <2>1. k - 1 >= 1 /\ word(sig[k - 1], "for") /\ word(sig[k - 1 + 1], "update")
    BY <1>1, <1>5, ReadsAre
  <2>2. k - 1 + 1 = k /\ k > 1
    BY <2>1
  <2> QED BY <1>4, <2>1, <2>2
<1>6. CASE reads(sig, k - 3, <<"for", "no", "key", "update">>)
  <2>1. k - 3 >= 1 /\ word(sig[k - 3 + 2], "key") /\ word(sig[k - 3 + 3], "update")
    BY <1>1, <1>6, ReadsAre
  <2>2. k - 3 + 3 = k /\ k - 3 + 2 = k - 1 /\ k > 1
    BY <2>1
  <2> QED BY <1>4, <2>1, <2>2
<1>7. CASE reads(sig, k - 1, <<"do", "update", "set">>)
  <2>1. k - 1 >= 1 /\ word(sig[k - 1], "do") /\ word(sig[k - 1 + 1], "update")
    BY <1>1, <1>7, ReadsAre
  <2>2. k - 1 + 1 = k /\ k > 1
    BY <2>1
  <2> QED BY <1>4, <2>1, <2>2
<1>8. CASE /\ reads(sig, k - 1, <<"then", "update", "set">>)
           /\ \A m \in (k + 2)..(k + 6) : ~reads(sig, m, <<"set">>)
  <2>1. /\ k - 1 + 2 <= Len(sig)
        /\ word(sig[k - 1 + 1], "update") /\ word(sig[k - 1 + 2], "set")
    BY <1>1, <1>8, ReadsAre
  <2>2. k - 1 + 1 = k /\ k - 1 + 2 = k + 1
    BY <1>1
  <2>3. ~inserts(sig, k)
    <3>1. \A w : word(sig[k], w) => w = "update"
      BY <2>1, <2>2, Apart
    <3> QED BY <3>1 DEF inserts
  <2>4. \A q \in qnameAt(sig, k + 1) : q.next \in {k + 2, k + 4}
    <3>1. ~word(sig[k + 1], "only")
      BY <2>1, <2>2, Apart
    <3>2. k + 1 + 1 = k + 2 /\ k + 1 + 3 = k + 4
      BY <1>1
    <3> QED BY <3>1, <3>2 DEF qnameAt
  <2>5. \A j \in (k + 2)..(k + 6) : ~(j <= Len(sig) /\ word(sig[j], "set"))
    <3>1. \A j \in (k + 2)..(k + 6) : j \in Int /\ j >= 1
      BY <1>1
    <3> QED BY <1>8, <3>1, ReadsAre
  <2>6. \A x \in {k + 2, k + 4} : x..(x + 2) \subseteq (k + 2)..(k + 6)
    BY <1>1
  <2>7. updates(sig, k) = {}
    BY <2>4, <2>5, <2>6 DEF updates
  <2> QED BY <2>3, <2>7 DEF writeAt
<1>9. CASE reads(sig, k - 1, <<"then", "delete">>) /\ ~reads(sig, k + 1, <<"from">>)
  <2>1. word(sig[k - 1 + 1], "delete") /\ ~(k + 1 <= Len(sig) /\ word(sig[k + 1], "from"))
    <3>1. k + 1 >= 1
      BY <1>1
    <3> QED BY <1>1, <1>9, <3>1, ReadsAre
  <2>2. k - 1 + 1 = k /\ (k < Len(sig) => k + 1 <= Len(sig))
    BY <1>1
  <2>3. \A w : word(sig[k], w) => w = "delete"
    BY <2>1, <2>2, Apart
  <2>4. ~inserts(sig, k) /\ ~word(sig[k], "update")
    BY <2>1, <2>2, <2>3 DEF inserts
  <2> QED BY <2>4 DEF writeAt, updates
<1>10. CASE reads(sig, k - 1, <<"then", "insert">>) /\ ~reads(sig, k + 1, <<"into">>)
  <2>1. word(sig[k - 1 + 1], "insert") /\ ~(k + 1 <= Len(sig) /\ word(sig[k + 1], "into"))
    <3>1. k + 1 >= 1
      BY <1>1
    <3> QED BY <1>1, <1>10, <3>1, ReadsAre
  <2>2. k - 1 + 1 = k /\ (k < Len(sig) => k + 1 <= Len(sig))
    BY <1>1
  <2>3. \A w : word(sig[k], w) => w = "insert"
    BY <2>1, <2>2, Apart
  <2>4. ~inserts(sig, k) /\ ~word(sig[k], "update")
    BY <2>1, <2>2, <2>3 DEF inserts
  <2> QED BY <2>4 DEF writeAt, updates
<1> QED BY <1>2, <1>3, <1>5, <1>6, <1>7, <1>8, <1>9, <1>10 DEF clause

\* The tables found at a position are those of the statements there.
LEMMA WrittenFound ==
  ASSUME NEW sig \in Seq(Token), understood(sig), NEW k \in 1..Len(sig)
  PROVE  {q.table : q \in writeAt(sig, k)} = written(sig, k)
<1>1. ASSUME NEW s \in spans(sig, k)
      PROVE  {q.table : q \in writeAt(sig, k)} = {tableOf(sig, s[1], s[2])}
  <2>1. s[1] \in Int /\ s[2] \in Int /\ statement(sig, k, s[1], s[2])
    BY DEF spans
  <2> DEFINE q == [table |-> tableOf(sig, s[1], s[2]), next |-> s[2] + 1]
  <2>2. writeAt(sig, k) = {q}
    BY <2>1, StatementFound
  <2>3. q.table = tableOf(sig, s[1], s[2])
    OBVIOUS
  <2> HIDE DEF q
  <2> QED BY <2>2, <2>3
<1>2. CASE spans(sig, k) # {}
  BY <1>1, <1>2 DEF written
<1>3. CASE spans(sig, k) = {}
  <2>1. writeAt(sig, k) = {}
    <3>1. CASE clause(sig, k)
      BY <3>1, ClauseEmpty
    <3>2. CASE \A w \in {"insert", "merge", "delete", "update"} : ~word(sig[k], w)
      BY <3>2 DEF writeAt, inserts, updates
    <3> QED BY <1>3, <3>1, <3>2 DEF understood
  <2> QED BY <1>3, <2>1 DEF written
<1> QED BY <1>2, <1>3

\* And so are all of them, in order.
LEMMA WritesFound ==
  ASSUME NEW sig \in Seq(Token), understood(sig)
  PROVE  writesIn(sig) = FlattenSeq([k \in 1..Len(sig) |-> SetToSeq(written(sig, k))])
<1>1. [k \in 1..Len(sig) |-> SetToSeq({q.table : q \in writeAt(sig, k)})]
        = [k \in 1..Len(sig) |-> SetToSeq(written(sig, k))]
  BY WrittenFound
<1> QED BY <1>1 DEF writesIn

-----------------------------------------------------------------------------
\* What a definition says.

\* Of the one SECURITY clause, isSecurityDefiner tells which it is.
LEMMA SecurityFound ==
  ASSUME NEW sig \in Seq(Token), oneSecurity(sig)
  PROVE  isSecurityDefiner(sig)
           <=> \E k \in 1..Len(sig) : reads(sig, k, <<"security", "definer">>)
<1> DEFINE n == Len(sig)
           clauses == {k \in 2..n : /\ word(sig[k - 1], "security")
                                    /\ word(sig[k], "definer") \/ word(sig[k], "invoker")}
<1>1. n \in Nat
  OBVIOUS
<1>2. isSecurityDefiner(sig)
        <=> \E k \in clauses : word(sig[k], "definer") /\ \A j \in clauses : j <= k
  BY DEF isSecurityDefiner
<1>3. ASSUME NEW k \in 2..n, NEW w
      PROVE  reads(sig, k - 1, <<"security", w>>)
               <=> word(sig[k - 1], "security") /\ word(sig[k], w)
  <2>1. k - 1 \in Int /\ k - 1 >= 1 /\ k - 1 + 1 = k /\ k <= n
    BY <1>1
  <2> QED BY <2>1, ReadsAre
<1>4. ASSUME NEW k \in clauses, word(sig[k], "definer")
      PROVE  \E m \in 1..n : reads(sig, m, <<"security", "definer">>)
  <2>1. k - 1 \in 1..n
    BY <1>1
  <2> QED BY <1>3, <1>4, <2>1
<1>5. ASSUME NEW m \in 1..n, reads(sig, m, <<"security", "definer">>)
      PROVE  \E k \in clauses : word(sig[k], "definer") /\ \A j \in clauses : j <= k
  <2>1. m + 1 <= n /\ word(sig[m], "security") /\ word(sig[m + 1], "definer")
    BY <1>5, ReadsAre, m \in Int
  <2>2. m + 1 \in clauses
    <3>1. m + 1 \in 2..n /\ m + 1 - 1 = m
      BY <1>1, <2>1
    <3> QED BY <2>1, <3>1
  <2>3. ASSUME NEW j \in clauses
        PROVE  j <= m + 1
    <3>1. j \in 2..n /\ j - 1 \in 1..n
      BY <1>1
    <3>2. \/ reads(sig, j - 1, <<"security", "definer">>)
          \/ reads(sig, j - 1, <<"security", "invoker">>)
      BY <1>3, <3>1
    <3>3. j - 1 = m
      BY <1>5, <3>1, <3>2 DEF oneSecurity
    <3> QED BY <3>1, <3>3
  <2> QED BY <2>1, <2>2, <2>3
<1> HIDE DEF clauses
<1> QED BY <1>2, <1>4, <1>5

\* FlattenSeq joins one sequence after the other.
LEMMA FlattenDefined ==
  ASSUME NEW T, NEW g \in Seq(Seq(T)), Len(g) > 0
  PROVE  \E f \in [1..Len(g) -> Seq(T)] :
           /\ FlattenSeq(g) = f[Len(g)] /\ f[1] = g[1]
           /\ \A k \in 2..Len(g) : f[k] = f[k - 1] \o g[k]
<1> DEFINE n == Len(g)
           S == 1..n
           V == Seq(T)
           step(k, f) == IF k = 1 THEN g[k] ELSE f[k - 1] \o g[k]
           D == [x \in S \X [S -> V] |-> step(x[1], x[2])]
           m == [k \in S |-> k]
<1>1. n \in Nat /\ n > 0 /\ \A k \in S : g[k] \in V
  OBVIOUS
<1>2. \A k \in S, f \in [S -> V] : step(k, f) \in V
  <2> SUFFICES ASSUME NEW k \in S, NEW f \in [S -> V]
               PROVE  step(k, f) \in V
    OBVIOUS
  <2>1. CASE k = 1
    <3> HIDE DEF V
    <3> QED BY <1>1, <2>1
  <2>2. CASE k # 1
    <3>1. k - 1 \in S
      BY <1>1, <2>2
    <3>2. f[k - 1] \in V
      <4> HIDE DEF V, S
      <4> QED BY <3>1
    <3>3. f[k - 1] \o g[k] \in V
      <4>1. g[k] \in Seq(T) /\ f[k - 1] \in Seq(T)
        BY <1>1, <3>2
      <4> HIDE DEF S
      <4> QED BY <4>1
    <3> HIDE DEF V, S
    <3> QED BY <2>2, <3>3
  <2> QED BY <2>1, <2>2
<1>3. D \in [S \X [S -> V] -> V]
  <2> HIDE DEF S, V, step
  <2> QED BY <1>2
<1>4. m \in [S -> 0..n]
  BY <1>1
<1>5. ASSUME NEW x \in S, NEW p \in [S -> V], NEW q \in [S -> V],
             \A y \in S : m[y] < m[x] => p[y] = q[y]
      PROVE  D[<<x, p>>] = D[<<x, q>>]
  <2>1. step(x, p) = step(x, q)
    <3>1. CASE x = 1
      BY <3>1
    <3>2. CASE x # 1
      <4>1. x - 1 \in S /\ m[x - 1] < m[x]
        BY <1>1, <3>2
      <4>2. p[x - 1] = q[x - 1]
        <5> HIDE DEF S, m
        <5> QED BY <1>5, <4>1
      <4> HIDE DEF S, m
      <4> QED BY <4>2
    <3> QED BY <3>1, <3>2
  <2> HIDE DEF step, S, V
  <2> QED BY <2>1
<1>6. \E f \in [S -> V] : f = [x \in S |-> D[<<x, f>>]]
  <2>1. V # {} /\ n \in Nat
    <3>1. <<>> \in V
      OBVIOUS
    <3> HIDE DEF V
    <3> QED BY <1>1, <3>1
  <2>2. \A x \in S, p, q \in [S -> V] :
          (\A y \in S : m[y] < m[x] => p[y] = q[y]) => D[<<x, p>>] = D[<<x, q>>]
    <3> HIDE DEF S, V, D, m
    <3> QED BY <1>5
  <2>3. Decreasing(S, V, n, m, D)
    <3> HIDE DEF S, V, D, m, n
    <3> QED BY <1>3, <1>4, <2>1, <2>2 DEF Decreasing
  <2> HIDE DEF S, V, D, m, n
  <2> QED BY <2>3, Recursion
<1> DEFINE r == CHOOSE f : f = [k \in S |-> step(k, f)]
<1>7. r = [k \in S |-> step(k, r)]
  <2>1. PICK f \in [S -> V] : f = [x \in S |-> D[<<x, f>>]]
    BY <1>6
  <2>2. f = [x \in S |-> step(x, f)]
    <3> HIDE DEF step, S, V
    <3> QED BY <2>1
  <2> HIDE DEF S, V, step
  <2> QED BY <2>2
<1>8. FlattenSeq(g) = r[n]
  BY <1>1 DEF FlattenSeq
<1>9. \A k \in S : r[k] = step(k, r)
  <2> HIDE DEF S, step, r
  <2> QED BY <1>7
<1> DEFINE W == {k \in S : r[k] \in V}
<1>10. ASSUME NEW k \in 1..n, \A l \in 1..(k - 1) : l \in W
       PROVE  k \in W
  <2>1. r[k] = step(k, r)
    <3> HIDE DEF step, r
    <3> QED BY <1>9
  <2>2. CASE k = 1
    <3> HIDE DEF r, V
    <3> QED BY <1>1, <2>1, <2>2
  <2>3. CASE k # 1
    <3>1. k - 1 \in 1..(k - 1)
      BY <1>1, <2>3
    <3>2. r[k - 1] \in V /\ g[k] \in V
      <4> HIDE DEF V, r
      <4> QED BY <1>1, <1>10, <3>1
    <3>3. r[k - 1] \o g[k] \in V
      <4> HIDE DEF r
      <4> QED BY <3>2
    <3> HIDE DEF r, V
    <3> QED BY <2>1, <2>3, <3>3
  <2> QED BY <2>2, <2>3
<1>11. \A k \in 1..n : k \in W
  <2>1. \A k \in 1..n : (\A l \in 1..(k - 1) : l \in W) => k \in W
    BY <1>10
  <2>2. 1 \in Int /\ n \in Int
    BY <1>1
  <2> HIDE DEF W
  <2> QED BY <2>1, <2>2, Upward
<1>12. r \in [S -> V]
  <2> HIDE DEF V, step, r
  <2>1. r = [k \in S |-> r[k]]
    <3> HIDE DEF S
    <3> QED BY <1>7, <1>9
  <2> QED BY <1>11, <2>1
<1>13. r[1] = g[1] /\ \A k \in 2..n : r[k] = r[k - 1] \o g[k]
  <2>1. 1 \in S /\ 2..n \subseteq S /\ \A k \in 2..n : k # 1
    BY <1>1
  <2> HIDE DEF r, S
  <2> QED BY <1>9, <2>1
<1> HIDE DEF r
<1> QED BY <1>8, <1>12, <1>13

\* What stands between two texts is there.
LEMMA Between ==
  ASSUME NEW T, NEW x \in Seq(T), NEW w \in Seq(T), NEW y \in Seq(T), Len(w) > 0
  PROVE  isAt((x \o w) \o y, Len(x) + 1, w)
<1> DEFINE s == (x \o w) \o y
           a == Len(x) + 1
           k == Len(x) + Len(w)
<1>1. Len(x) \in Nat /\ Len(w) \in Nat /\ Len(y) \in Nat
  OBVIOUS
<1>2. x \o w \in Seq(T) /\ Len(x \o w) = k
  OBVIOUS
<1>3. s \in Seq(T) /\ Len(s) = k + Len(y)
  <2> DEFINE z == x \o w
  <2>1. z \in Seq(T) /\ Len(z) = k
    BY <1>2
  <2> HIDE DEF z, k
  <2>2. z \o y \in Seq(T) /\ Len(z \o y) = k + Len(y)
    BY <2>1, ConcatProperties
  <2> QED BY <2>2 DEF z
<1>4. ASSUME NEW j \in 1..Len(w)
      PROVE  s[Len(x) + j] = w[j]
  <2>1. (x \o w)[Len(x) + j] = w[j]
    BY <1>1
  <2>2. Len(x) + j \in 1..k
    BY <1>1
  <2> DEFINE z == x \o w
  <2>3. z \in Seq(T) /\ Len(z) = k
    BY <1>2
  <2> HIDE DEF z, k
  <2>4. \A l \in 1..k : (z \o y)[l] = z[l]
    BY <2>3
  <2> QED BY <2>1, <2>2, <2>4 DEF z
<1>5. a \in 1..Len(s) /\ k \in a..Len(s) /\ a + Len(w) - 1 = k
  BY <1>1, <1>3
<1> DEFINE u == SubSeq(s, a, k)
<1>6. u \in Seq(T) /\ Len(u) = Len(w) /\ \A j \in 1..Len(w) : u[j] = s[a + j - 1]
  <2>1. k - a + 1 = Len(w)
    BY <1>1
  <2> HIDE DEF s, a, k
  <2>2. u \in Seq(T) /\ Len(u) = k - a + 1 /\ \A j \in 1..(k - a + 1) : u[j] = s[a + j - 1]
    BY <1>3, <1>5
  <2> QED BY <2>1, <2>2
<1>7. u = w
  <2>1. \A j \in 1..Len(w) : a + j - 1 = Len(x) + j
    BY <1>1
  <2>2. \A j \in 1..Len(w) : u[j] = w[j]
    <3> HIDE DEF u, s, a
    <3> QED BY <1>4, <1>6, <2>1
  <2> HIDE DEF u
  <2> QED BY <1>6, <2>2, SeqEqual
<1> HIDE DEF s, a, k
<1>8. isAt(s, a, w)
  BY <1>5, <1>7 DEF isAt, u
<1> QED BY <1>8 DEF s, a

\* The symbols of a body: the prover does not know that a literal is a string.
Symbols == STRING \cup {"\n", ";"}

LEMMA EndedIs == ended \in Seq(Symbols) /\ Len(ended) = 3
<1>1. "\n" \in Symbols /\ ";" \in Symbols
  BY DEF Symbols
<1>2. ASSUME NEW x \in Symbols, NEW y \in Symbols
      PROVE  <<x, y, x>> \in Seq(Symbols) /\ Len(<<x, y, x>>) = 3
  OBVIOUS
<1>3. <<"\n", ";", "\n">> \in Seq(Symbols) /\ Len(<<"\n", ";", "\n">>) = 3
  BY <1>1, <1>2, Zenon
<1> QED BY <1>3 DEF ended

\* What a text joined to another is.
LEMMA Joined ==
  ASSUME NEW x \in Seq(Symbols), NEW y \in Seq(Symbols)
  PROVE  x \o y \in Seq(Symbols) /\ Len(x \o y) = Len(x) + Len(y) /\ Len(x) \in Nat
BY ConcatProperties

LEMMA JoinedInTurn ==
  ASSUME NEW x \in Seq(Symbols), NEW y \in Seq(Symbols), NEW z \in Seq(Symbols)
  PROVE  (x \o y) \o z = x \o (y \o z)
BY ConcatAssociative

\* A body so far is nothing, or its last statement is ended.
Closed(s) == s = <<>> \/ \E t \in Seq(Symbols) : s = t \o ended

\* Joining keeps it so.
LEMMA ClosedJoin ==
  ASSUME NEW x \in Seq(Symbols), NEW y \in Seq(Symbols), Closed(x), Closed(y)
  PROVE  Closed(x \o y)
<1>1. CASE y = <<>>
  <2>1. x \o y = x
    BY <1>1
  <2> QED BY <2>1
<1>2. CASE y # <<>>
  <2>1. PICK t \in Seq(Symbols) : y = t \o ended
    BY <1>2 DEF Closed
  <2>2. ended \in Seq(Symbols)
    BY EndedIs
  <2>3. x \o t \in Seq(Symbols)
    BY Joined
  <2>4. (x \o t) \o ended = x \o (t \o ended)
    BY <2>2, JoinedInTurn
  <2> QED BY <2>1, <2>3, <2>4 DEF Closed
<1> QED BY <1>1, <1>2

\* Every string of a definition is in the body as statements of its own.
LEMMA BodyHolds ==
  ASSUME NEW ts \in Seq(Token), NEW j \in 1..Len(ts), ts[j].kind = "string"
  PROVE  holds(routineBody(ts), ts[j].val)
<1> DEFINE n == Len(ts)
           g == [k \in 1..n |-> IF ts[k].kind = "string" THEN ts[k].val \o ended ELSE <<>>]
           text == ts[j].val
<1>1. n \in Nat /\ n > 0 /\ j \in 1..n
  OBVIOUS
<1>2. /\ ended \in Seq(Symbols) /\ Len(ended) = 3
      /\ \A k \in 1..n : ts[k].val \in Seq(Symbols)
  <2>1. \A k \in 1..n : ts[k] \in Token
    BY <1>1
  <2>2. \A k \in 1..n : ts[k].val \in Seq(STRING)
    BY <2>1 DEF Token
  <2>3. \A s \in Seq(STRING) : s \in Seq(Symbols)
    BY SeqMonotonic DEF Symbols
  <2> QED BY <2>2, <2>3, EndedIs
<1>3. \A k \in 1..n : g[k] \in Seq(Symbols) /\ Closed(g[k])
  <2> SUFFICES ASSUME NEW k \in 1..n PROVE g[k] \in Seq(Symbols) /\ Closed(g[k])
    OBVIOUS
  <2>1. CASE ts[k].kind = "string"
    <3>1. g[k] = ts[k].val \o ended
      BY <2>1
    <3>2. ts[k].val \in Seq(Symbols)
      BY <1>2
    <3>3. ts[k].val \o ended \in Seq(Symbols)
      BY <1>2, <3>2
    <3> QED BY <3>1, <3>2, <3>3 DEF Closed
  <2>2. CASE ts[k].kind # "string"
    <3>1. g[k] = <<>>
      BY <2>2
    <3>2. <<>> \in Seq(Symbols)
      OBVIOUS
    <3> HIDE DEF g
    <3> QED BY <3>1, <3>2 DEF Closed
  <2> QED BY <2>1, <2>2
<1>4. g \in Seq(Seq(Symbols)) /\ Len(g) = n
  <2> DEFINE V == Seq(Symbols)
  <2>1. \A k \in 1..n : g[k] \in V
    BY <1>3
  <2>2. g = [k \in 1..n |-> g[k]]
    OBVIOUS
  <2> HIDE DEF V, g
  <2>3. g \in Seq(V) /\ Len(g) = n
    BY <1>1, <2>1, <2>2
  <2> QED BY <2>3 DEF V
<1>5. g[j] = text \o ended /\ routineBody(ts) = FlattenSeq(g)
  BY DEF routineBody
<1> HIDE DEF g
<1>6. PICK f \in [1..n -> Seq(Symbols)] :
        /\ FlattenSeq(g) = f[n] /\ f[1] = g[1]
        /\ \A k \in 2..n : f[k] = f[k - 1] \o g[k]
  <2>1. \E f \in [1..Len(g) -> Seq(Symbols)] :
          /\ FlattenSeq(g) = f[Len(g)] /\ f[1] = g[1]
          /\ \A k \in 2..Len(g) : f[k] = f[k - 1] \o g[k]
    BY <1>1, <1>4, FlattenDefined
  <2> QED BY <1>4, <2>1
<1>7. \A k \in 1..n : Closed(f[k])
  <2> DEFINE W == {k \in 1..n : Closed(f[k])}
  <2>1. ASSUME NEW k \in 1..n, \A l \in 1..(k - 1) : l \in W
        PROVE  k \in W
    <3>1. CASE k = 1
      BY <1>3, <1>6, <3>1
    <3>2. CASE k # 1
      <4>1. k \in 2..n /\ k - 1 \in 1..(k - 1) /\ k - 1 \in 1..n
        BY <1>1, <3>2
      <4>2. f[k] = f[k - 1] \o g[k] /\ Closed(f[k - 1]) /\ f[k - 1] \in Seq(Symbols)
        BY <1>6, <2>1, <4>1
      <4> QED BY <1>3, <4>2, ClosedJoin
    <3> QED BY <3>1, <3>2
  <2>2. \A k \in 1..n : k \in W
    <3>1. \A k \in 1..n : (\A l \in 1..(k - 1) : l \in W) => k \in W
      BY <2>1
    <3>2. 1 \in Int /\ n \in Int
      BY <1>1
    <3> HIDE DEF W
    <3> QED BY <3>1, <3>2, Upward
  <2> QED BY <2>2
<1>8. \A k \in j..n : \E t \in Seq(Symbols) : f[k] = f[j] \o t
  <2> DEFINE W == {k \in j..n : \E t \in Seq(Symbols) : f[k] = f[j] \o t}
  <2>1. ASSUME NEW k \in j..n, \A l \in j..(k - 1) : l \in W
        PROVE  k \in W
    <3>1. f[j] \in Seq(Symbols)
      BY <1>6
    <3>2. CASE k = j
      <4>1. f[j] \o <<>> = f[j] /\ <<>> \in Seq(Symbols)
        BY <3>1
      <4> QED BY <3>2, <4>1
    <3>3. CASE k # j
      <4>1. k \in 2..n /\ k - 1 \in j..(k - 1) /\ k \in 1..n
        BY <1>1, <3>3
      <4>2. PICK t \in Seq(Symbols) : f[k - 1] = f[j] \o t
        BY <2>1, <4>1
      <4>3. f[k] = (f[j] \o t) \o g[k] /\ g[k] \in Seq(Symbols)
        BY <1>3, <1>6, <4>1, <4>2
      <4>4. t \o g[k] \in Seq(Symbols)
        BY <4>3, Joined
      <4>5. (f[j] \o t) \o g[k] = f[j] \o (t \o g[k])
        BY <3>1, <4>3, JoinedInTurn
      <4> QED BY <4>3, <4>4, <4>5
    <3> QED BY <3>2, <3>3
  <2>2. \A k \in j..n : k \in W
    <3>1. \A k \in j..n : (\A l \in j..(k - 1) : l \in W) => k \in W
      BY <2>1
    <3>2. j \in Int /\ n \in Int
      BY <1>1
    <3> HIDE DEF W
    <3> QED BY <3>1, <3>2, Upward
  <2> QED BY <2>2
<1>9. PICK t \in Seq(Symbols) : f[n] = f[j] \o t
  <2>1. n \in j..n
    BY <1>1
  <2> QED BY <1>8, <2>1
<1>10. PICK b \in Seq(Symbols) : Closed(b) /\ f[j] = b \o (text \o ended)
  <2>1. CASE j = 1
    <3>1. f[j] = g[j] /\ g[j] \in Seq(Symbols)
      BY <1>3, <1>6, <2>1
    <3>2. <<>> \o g[j] = g[j] /\ <<>> \in Seq(Symbols) /\ Closed(<<>>)
      BY <3>1 DEF Closed
    <3> QED BY <1>5, <3>1, <3>2
  <2>2. CASE j # 1
    <3>1. j \in 2..n /\ j - 1 \in 1..n
      BY <1>1, <2>2
    <3>2. f[j] = f[j - 1] \o g[j] /\ f[j - 1] \in Seq(Symbols) /\ Closed(f[j - 1])
      BY <1>6, <1>7, <3>1
    <3> QED BY <1>5, <3>2
  <2> QED BY <2>1, <2>2
<1> DEFINE w == text \o ended
           body == routineBody(ts)
<1>11. w \in Seq(Symbols) /\ Len(w) > 0
  <2>1. text \in Seq(Symbols) /\ Len(text) \in Nat
    BY <1>1, <1>2
  <2> HIDE DEF text
  <2>2. w \in Seq(Symbols) /\ Len(w) = Len(text) + 3
    <3>1. ended \in Seq(Symbols) /\ Len(ended) = 3
      BY EndedIs
    <3>2. text \o ended \in Seq(Symbols) /\ Len(text \o ended) = Len(text) + Len(ended)
      BY <2>1, <3>1, Joined
    <3> QED BY <3>1, <3>2
  <2> HIDE DEF w
  <2> QED BY <2>1, <2>2
<1>12. body = (b \o w) \o t
  BY <1>5, <1>6, <1>9, <1>10
<1> HIDE DEF w, body
<1>13. isAt(body, Len(b) + 1, w)
  BY <1>11, <1>12, Between
<1>14. Len(b) \in 0..Len(body)
  <2>1. Len(b) \in Nat
    OBVIOUS
  <2>2. Len(b) + 1 + Len(w) - 1 <= Len(body)
    BY <1>13 DEF isAt
  <2>3. Len(body) \in Nat
    <3>1. b \o w \in Seq(Symbols)
      BY <1>11
    <3>2. (b \o w) \o t \in Seq(Symbols)
      BY <3>1
    <3> QED BY <1>12, <3>2
  <2>4. Len(w) \in Nat
    BY <1>11
  <2> QED BY <1>11, <2>1, <2>2, <2>3, <2>4
<1>15. Len(b) = 0 \/ (Len(b) >= 3 /\ isAt(body, Len(b) - 2, ended))
  <2>1. CASE b = <<>>
    BY <2>1
  <2>2. CASE b # <<>>
    <3>1. PICK v \in Seq(Symbols) : b = v \o ended
      BY <1>10, <2>2 DEF Closed
    <3>2. Len(v) \in Nat /\ Len(b) = Len(v) + 3
      BY <1>2, <3>1, Joined
    <3>3. body = (v \o ended) \o (w \o t) /\ w \o t \in Seq(Symbols)
      <4>1. (b \o w) \o t = b \o (w \o t)
        BY <1>11, JoinedInTurn
      <4>2. w \o t \in Seq(Symbols)
        BY <1>11, Joined
      <4> QED BY <1>12, <3>1, <4>1, <4>2
    <3>4. isAt(body, Len(v) + 1, ended)
      <4>1. Len(ended) > 0
        BY <1>2
      <4> QED BY <1>2, <3>3, <4>1, Between
    <3>5. Len(b) - 2 = Len(v) + 1 /\ Len(b) >= 3
      BY <3>2
    <3> QED BY <3>4, <3>5
  <2> QED BY <2>1, <2>2
<1>16. \E p \in 0..Len(body) : /\ p = 0 \/ (p >= 3 /\ isAt(body, p - 2, ended))
                               /\ isAt(body, p + 1, w)
  BY <1>13, <1>14, <1>15
<1> QED BY <1>16 DEF holds, w, body

\* definer.go: every write of a body is found with its table and nothing that only
\* looks like one, and a definition is read as its attributes and its body.
THEOREM DefinersReadTheorem == LexSpec => []DefinersRead
<1>1. ASSUME LexInv, TextRead, split, readable(src)
      PROVE  LET sig == significants(PgTokens(src))
             IN  /\ src \in Bodies /\ understood(sig) =>
                      writesIn(sigToks)
                        = FlattenSeq([k \in 1..Len(sig) |-> SetToSeq(written(sig, k))])
                 /\ src \in Definitions =>
                      /\ oneSecurity(sig) =>
                           (isSecurityDefiner(sigToks)
                              <=> \E k \in 1..Len(sig) : reads(sig, k, <<"security", "definer">>))
                      /\ \A k \in 2..Len(sig) :
                           word(sig[k - 1], "as") /\ sig[k].kind = "string" =>
                             holds(routineBody(toks), sig[k].val)
  <2> DEFINE sig == significants(PgTokens(src))
  <2>1. /\ sigToks = sig /\ sig \in Seq(Token) /\ toks \in Seq(Token)
        /\ \A k \in 1..Len(sig) : \E j \in 1..Len(toks) : sig[k] = toks[j]
    BY <1>1, SignificantRead DEF LexInv, LexShape
  <2> HIDE DEF sig
  <2>2. ASSUME NEW k \in 2..Len(sig), sig[k].kind = "string"
        PROVE  holds(routineBody(toks), sig[k].val)
    <3>1. k \in 1..Len(sig)
      BY <2>1
    <3>2. PICK j \in 1..Len(toks) : sig[k] = toks[j]
      BY <2>1, <3>1
    <3> QED BY <2>1, <2>2, <3>2, BodyHolds
  <2>3. understood(sig) =>
          writesIn(sigToks) = FlattenSeq([k \in 1..Len(sig) |-> SetToSeq(written(sig, k))])
    BY <2>1, WritesFound
  <2>4. oneSecurity(sig) =>
          (isSecurityDefiner(sigToks)
             <=> \E k \in 1..Len(sig) : reads(sig, k, <<"security", "definer">>))
    BY <2>1, SecurityFound
  <2> QED BY <2>2, <2>3, <2>4 DEF sig
<1>2. LexInv /\ TextRead => DefinersRead
  BY <1>1 DEF DefinersRead
<1> QED BY <1>2, LexInvariant, TextReadTheorem, PTL

=============================================================================
