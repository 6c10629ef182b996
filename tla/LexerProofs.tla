----------------------------- MODULE LexerProofs -----------------------------
(***************************************************************************)
(* That the tokens the lexer cuts are PostgreSQL's, for every text, and    *)
(* that the statements are the tokens between its semicolons.  What a      *)
(* recursive definition computes is shown by induction over positions,     *)
(* which the first section derives from the order of finite sets.          *)
(***************************************************************************)
EXTENDS Lexer, FiniteSetTheorems, WellFoundedInduction, SequenceTheorems, TLAPS

-----------------------------------------------------------------------------
\* Induction over positions, as facts about sets of them.

\* Every set of naturals has a least member, as the naturals are well-founded.
LEMMA LeastNatural ==
  ASSUME NEW S \in SUBSET Nat, S # {}
  PROVE  \E j \in S : \A l \in S : j <= l
<1> DEFINE R == {ss \in Nat \X Nat : ss[1] < ss[2]}
<1>1. IsWellFoundedOn(R, Nat)
  BY NatLessThanWellFounded DEF OpToRel
<1>2. PICK j \in S : \A l \in S : <<l, j>> \notin R
  <2> HIDE DEF R
  <2> QED BY <1>1, WFMin
<1>3. ASSUME NEW l \in S PROVE j <= l
  <2>1. ~(l < j)
    BY <1>2
  <2> QED BY <2>1
<1> QED BY <1>3

\* So a set of positions has a first one.
LEMMA Least ==
  ASSUME NEW a \in Int, NEW b \in Int, NEW S \in SUBSET (a..b), S # {}
  PROVE  least(S) \in S /\ \A j \in S : least(S) <= j
<1> DEFINE T == {j - a : j \in S}
<1>1. T \in SUBSET Nat /\ T # {}
  OBVIOUS
<1>2. PICK m \in T : \A l \in T : m <= l
  <2> HIDE DEF T
  <2> QED BY <1>1, LeastNatural
<1>3. PICK k \in S : m = k - a
  OBVIOUS
<1>4. ASSUME NEW j \in S PROVE k <= j
  <2>1. j - a \in T
    OBVIOUS
  <2>2. k - a <= j - a
    <3> HIDE DEF T
    <3> QED BY <1>2, <1>3, <2>1
  <2>3. k \in Int /\ j \in Int
    OBVIOUS
  <2> HIDE DEF T
  <2> QED BY <2>2, <2>3
<1> HIDE DEF T
<1> QED BY <1>4 DEF least

\* What holds of a position when it holds of all before it holds of all.
LEMMA Upward ==
  ASSUME NEW a \in Int, NEW b \in Int, NEW S,
         \A k \in a..b : (\A j \in a..(k - 1) : j \in S) => k \in S
  PROVE  \A k \in a..b : k \in S
<1> DEFINE bad == {k \in a..b : k \notin S}
<1> SUFFICES ASSUME bad # {} PROVE FALSE
  OBVIOUS
<1>1. bad \in SUBSET (a..b)
  OBVIOUS
<1>2. least(bad) \in bad /\ \A j \in bad : least(bad) <= j
  <2> HIDE DEF bad
  <2> QED BY <1>1, Least
<1>3. \A j \in a..(least(bad) - 1) : j \in S
  <2> SUFFICES ASSUME NEW j \in a..(least(bad) - 1), j \notin S PROVE FALSE
    OBVIOUS
  <2>1. j \in bad
    BY <1>2
  <2>2. least(bad) \in Int /\ least(bad) <= j
    BY <1>2, <2>1
  <2> HIDE DEF bad
  <2> QED BY <2>2
<1> QED BY <1>2, <1>3

\* And the other way.
LEMMA Downward ==
  ASSUME NEW a \in Int, NEW b \in Int, NEW S,
         \A k \in a..b : (\A j \in (k + 1)..b : j \in S) => k \in S
  PROVE  \A k \in a..b : k \in S
<1> DEFINE T == {k \in a..b : a + b - k \in S}
<1>1. ASSUME NEW k \in a..b, \A j \in a..(k - 1) : j \in T
      PROVE  k \in T
  <2>1. \A j \in (a + b - k + 1)..b : j \in S
    <3> SUFFICES ASSUME NEW j \in (a + b - k + 1)..b PROVE j \in S
      OBVIOUS
    <3>1. a + b - j \in a..(k - 1) /\ a + b - (a + b - j) = j
      OBVIOUS
    <3> QED BY <1>1, <3>1
  <2>2. a + b - k \in a..b
    OBVIOUS
  <2> QED BY <2>1, <2>2
<1>2. \A k \in a..b : k \in T
  <2> HIDE DEF T
  <2> QED BY <1>1, Upward
<1>3. ASSUME NEW k \in a..b
      PROVE  k \in S
  <2>1. a + b - k \in a..b /\ a + b - (a + b - k) = k
    OBVIOUS
  <2> QED BY <1>2, <2>1
<1> QED BY <1>3

\* A set of positions has a last one.
LEMMA Greatest ==
  ASSUME NEW a \in Int, NEW b \in Int, NEW S \in SUBSET (a..b), S # {}
  PROVE  \E k \in S : \A j \in S : j <= k
<1> DEFINE T == {a + b - k : k \in S}
<1>1. T \in SUBSET (a..b) /\ T # {}
  <2>1. ASSUME NEW k \in S
        PROVE  a + b - k \in a..b
    <3>1. k \in a..b
      OBVIOUS
    <3> QED BY <3>1
  <2> QED BY <2>1
<1>2. least(T) \in T /\ \A j \in T : least(T) <= j
  <2> HIDE DEF T
  <2> QED BY <1>1, Least
<1>3. PICK k \in S : least(T) = a + b - k
  BY <1>2
<1>4. ASSUME NEW j \in S
      PROVE  j <= k
  <2>1. a + b - j \in T
    OBVIOUS
  <2>2. j \in Int /\ k \in Int
    OBVIOUS
  <2>3. a + b - k <= a + b - j
    BY <1>2, <1>3, <2>1
  <2> HIDE DEF T
  <2> QED BY <2>2, <2>3
<1> QED BY <1>4

\* D gives the value at x of the function it defines on S from the values at
\* the elements of smaller measure.
Decreasing(S, V, n, m, D) ==
  /\ V # {} /\ n \in Nat /\ m \in [S -> 0..n]
  /\ D \in [S \X [S -> V] -> V]
  /\ \A x \in S, g, h \in [S -> V] :
       (\A y \in S : m[y] < m[x] => g[y] = h[y]) => D[<<x, g>>] = D[<<x, h>>]

\* Such a recursive definition does define a function.
LEMMA Recursion ==
  ASSUME NEW S, NEW V, NEW n, NEW m, NEW D, Decreasing(S, V, n, m, D)
  PROVE  \E f \in [S -> V] : f = [x \in S |-> D[<<x, f>>]]
<1> USE DEF Decreasing
<1> DEFINE Good(k, f) == \A x \in S : m[x] < k => f[x] = D[<<x, f>>]
           T == {k \in 0..(n + 1) : \E f \in [S -> V] : Good(k, f)}
<1>1. ASSUME NEW k \in 0..(n + 1), \A j \in 0..(k - 1) : j \in T
      PROVE  k \in T
  <2>1. CASE k = 0
    <3>1. PICK v \in V : TRUE
      OBVIOUS
    <3>2. [x \in S |-> v] \in [S -> V]
      OBVIOUS
    <3>3. Good(0, [x \in S |-> v])
      OBVIOUS
    <3> HIDE DEF Good
    <3> QED BY <2>1, <3>2, <3>3
  <2>2. CASE k > 0
    <3>1. k - 1 \in T
      <4>1. k - 1 \in 0..(k - 1)
        BY <2>2
      <4> HIDE DEF T
      <4> QED BY <1>1, <4>1
    <3>2. PICK f \in [S -> V] : Good(k - 1, f)
      BY <3>1
    <3> DEFINE g == [x \in S |-> D[<<x, f>>]]
    <3>3. g \in [S -> V]
      OBVIOUS
    <3>4. ASSUME NEW x \in S, m[x] < k
          PROVE  g[x] = D[<<x, g>>]
      <4>1. ASSUME NEW y \in S, m[y] < m[x]
            PROVE  f[y] = g[y]
        <5>1. m[y] < k - 1
          <6>1. m[y] \in Int /\ m[x] \in Int
            OBVIOUS
          <6> QED BY <3>4, <4>1, <6>1
        <5> QED BY <3>2, <5>1
      <4>2. D[<<x, f>>] = D[<<x, g>>]
        <5> HIDE DEF g, Good
        <5> QED BY <3>3, <4>1
      <4> QED BY <4>2
    <3>5. Good(k, g)
      <4> HIDE DEF g
      <4> QED BY <3>4
    <3> HIDE DEF g, Good
    <3> QED BY <3>3, <3>5
  <2> HIDE DEF T, Good
  <2> QED BY <2>1, <2>2
<1>2. n + 1 \in T
  <2> HIDE DEF T
  <2>1. \A k \in 0..(n + 1) : (\A j \in 0..(k - 1) : j \in T) => k \in T
    BY <1>1
  <2>2. \A k \in 0..(n + 1) : k \in T
    BY <2>1, Upward, 0 \in Int, n + 1 \in Int
  <2> QED BY <2>2
<1>3. PICK f \in [S -> V] : Good(n + 1, f)
  BY <1>2
<1>4. \A x \in S : f[x] = D[<<x, f>>]
  <2>1. \A x \in S : m[x] \in Int /\ m[x] < n + 1
    OBVIOUS
  <2> HIDE DEF T
  <2> QED BY <1>3, <2>1
<1>5. f = [x \in S |-> D[<<x, f>>]]
  <2> HIDE DEF Good, T
  <2> QED BY <1>4
<1> QED BY <1>5

-----------------------------------------------------------------------------
\* Ends of tokens.

LEMMA LeastIs ==
  ASSUME NEW a \in Int, NEW b \in Int, NEW S \in SUBSET (a..b), NEW k \in S,
         \A j \in S : k <= j
  PROVE  least(S) = k
<1>1. PICK m \in S : m = least(S) /\ \A j \in S : m <= j
  BY Least
<1>2. k \in Int /\ m \in Int
  OBVIOUS
<1>3. k <= m /\ m <= k
  BY <1>1
<1> QED BY <1>1, <1>2, <1>3

LEMMA UpToIs ==
  ASSUME NEW a \in Int, NEW b \in Int, NEW S \in SUBSET (a..b), NEW k \in S,
         \A j \in S : k <= j, NEW s
  PROVE  upTo(s, S) = k
BY LeastIs DEF upTo

\* past stops at the first symbol that is not one of S.
LEMMA Past ==
  ASSUME src \in Seq(STRING), NEW k \in 1..(Len(src) + 1), NEW S
  PROVE  /\ past(k, S) \in k..(Len(src) + 1)
         /\ past(k, S) = Len(src) + 1 \/ src[past(k, S)] \notin S
         /\ \A m \in k..(past(k, S) - 1) : src[m] \in S
<1> DEFINE stops == {j \in k..(Len(src) + 1) : j = Len(src) + 1 \/ src[j] \notin S}
<1>1. Len(src) \in Nat
  OBVIOUS
<1>2. Len(src) + 1 \in stops /\ stops \in SUBSET (k..(Len(src) + 1))
  BY <1>1
<1>3. least(stops) \in stops /\ \A j \in stops : least(stops) <= j
  <2>1. k \in Int /\ Len(src) + 1 \in Int
    BY <1>1
  <2> HIDE DEF stops
  <2> QED BY <1>2, <2>1, Least
<1>4. ASSUME NEW m \in k..(least(stops) - 1), src[m] \notin S
      PROVE  FALSE
  <2>1. least(stops) \in Int /\ least(stops) <= Len(src) + 1
    BY <1>1, <1>3
  <2>2. m \in stops
    <3> HIDE DEF stops
    <3>1. m \in k..(Len(src) + 1)
      BY <1>1, <2>1
    <3> QED BY <1>4, <3>1 DEF stops
  <2> HIDE DEF stops
  <2> QED BY <1>3, <2>1, <2>2
<1> DEFINE e == least(stops)
<1>5. /\ e \in k..(Len(src) + 1)
      /\ e = Len(src) + 1 \/ src[e] \notin S
      /\ \A m \in k..(e - 1) : src[m] \in S
  BY <1>3, <1>4
<1> HIDE DEF e
<1> QED BY <1>5 DEF past

\* A run of symbols ends where PostgreSQL's does.
LEMMA RunRight ==
  ASSUME src \in Seq(STRING), NEW k \in 1..Len(src), NEW S, src[k] \in S, Nothing \notin S
  PROVE  past(k, S) \in (k + 1)..(Len(src) + 1) /\ past(k, S) - 1 = runEnd(src, k, S)
<1> DEFINE e == past(k, S)
           ends == {m \in k..Len(src) : at(src, m + 1) \notin S}
<1>1. Len(src) \in Nat
  OBVIOUS
<1>2. /\ e \in k..(Len(src) + 1)
      /\ e = Len(src) + 1 \/ src[e] \notin S
      /\ \A m \in k..(e - 1) : src[m] \in S
  BY <1>1, Past
<1> HIDE DEF e
<1>3. e \in (k + 1)..(Len(src) + 1)
  BY <1>1, <1>2
<1>4. e - 1 \in ends
  BY <1>1, <1>2, <1>3 DEF at
<1>5. \A m \in ends : e - 1 <= m
  <2> SUFFICES ASSUME NEW m \in k..Len(src), at(src, m + 1) \notin S, m < e - 1
               PROVE  FALSE
    BY <1>1, <1>3
  <2> QED BY <1>1, <1>2, <1>3 DEF at
<1>6. ends \in SUBSET (k..Len(src))
  OBVIOUS
<1>7. upTo(src, ends) = e - 1
  <2>1. k \in Int /\ Len(src) \in Int
    BY <1>1
  <2> HIDE DEF ends
  <2> QED BY <1>4, <1>5, <1>6, <2>1, UpToIs
<1> QED BY <1>3, <1>7 DEF runEnd, e

\* So does a line comment.
LEMMA LineRight ==
  ASSUME src \in Seq(STRING), NEW k \in 1..Len(src), src[k] # "\n"
  PROVE  LET e == past(k, {src[m] : m \in 1..Len(src)} \ {"\n"})
         IN  e \in (k + 1)..(Len(src) + 1) /\ e - 1 = lineEnd(src, k)
<1> DEFINE S == {src[m] : m \in 1..Len(src)} \ {"\n"}
           e == past(k, S)
           ends == {m \in k..Len(src) : at(src, m + 1) = "\n"}
<1>1. Len(src) \in Nat
  OBVIOUS
<1>2. /\ e \in k..(Len(src) + 1)
      /\ e = Len(src) + 1 \/ src[e] \notin S
      /\ \A m \in k..(e - 1) : src[m] \in S
  <2>1. k \in 1..(Len(src) + 1)
    BY <1>1
  <2> HIDE DEF S
  <2> QED BY <2>1, Past
<1>3. \A m \in 1..Len(src) : src[m] \in S <=> src[m] # "\n"
  OBVIOUS
<1> HIDE DEF e, S
<1>4. e \in (k + 1)..(Len(src) + 1)
  BY <1>1, <1>2, <1>3
<1>5. ASSUME NEW m \in ends
      PROVE  e - 1 <= m
  <2>1. m + 1 \in 1..Len(src) /\ src[m + 1] = "\n"
    <3>1. Nothing # "\n"
      BY Zenon DEF Nothing
    <3> QED BY <1>1, <1>5, <3>1 DEF at
  <2> QED BY <1>1, <1>2, <1>4, <2>1, <1>3
<1>6. ends \in SUBSET (k..Len(src))
  OBVIOUS
<1>7. CASE e = Len(src) + 1
  <2>1. \A m \in ends : m < Len(src)
    <3>1. Nothing # "\n"
      BY Zenon DEF Nothing
    <3> QED BY <1>1, <3>1 DEF at
  <2>2. ends = {}
    <3> HIDE DEF ends
    <3> QED BY <1>1, <1>5, <1>6, <1>7, <2>1
  <2>3. lineEnd(src, k) = Len(src)
    BY <2>2 DEF lineEnd, upTo
  <2> QED BY <1>1, <1>4, <1>7, <2>3 DEF e, S
<1>8. CASE e # Len(src) + 1
  <2>1. e \in 1..Len(src) /\ src[e] = "\n"
    BY <1>1, <1>2, <1>4, <1>8, <1>3
  <2>2. e - 1 \in ends
    BY <1>1, <1>4, <2>1 DEF at
  <2>3. upTo(src, ends) = e - 1
    <3>1. k \in Int /\ Len(src) \in Int
      BY <1>1
    <3> HIDE DEF ends
    <3> QED BY <1>5, <1>6, <2>2, <3>1, UpToIs
  <2> QED BY <1>4, <2>3 DEF lineEnd, e, S
<1> QED BY <1>7, <1>8

-----------------------------------------------------------------------------
\* Quoted texts.

\* How many from k to j are in Q, and how many more one position further.
counted(Q, k, j) == Cardinality({m \in k..j : m \in Q})

LEMMA CountStep ==
  ASSUME NEW k \in Int, NEW j \in Int, k <= j, NEW Q
  PROVE  /\ counted(Q, k, j - 1) \in Nat
         /\ counted(Q, k, j) = IF j \in Q THEN counted(Q, k, j - 1) + 1
                               ELSE counted(Q, k, j - 1)
<1> USE DEF counted
<1> DEFINE below(n) == {m \in k..n : m \in Q}
<1>1. IsFiniteSet(below(j - 1)) /\ j \notin below(j - 1)
  <2>1. IsFiniteSet(k..(j - 1))
    BY FS_Interval
  <2> QED BY <2>1, FS_Subset
<1>2. Cardinality(below(j - 1)) \in Nat
  BY <1>1, FS_CardinalityType
<1>3. CASE j \in Q
  <2>1. below(j) = below(j - 1) \cup {j}
    BY <1>3
  <2>2. Cardinality(below(j)) = Cardinality(below(j - 1)) + 1
    <3> HIDE DEF below
    <3> QED BY <1>1, <2>1, FS_AddElement
  <2> QED BY <1>2, <1>3, <2>2
<1>4. CASE j \notin Q
  <2>1. below(j) = below(j - 1)
    BY <1>4
  <2> QED BY <1>2, <1>4, <2>1
<1> QED BY <1>3, <1>4

\* A symbol is escaped when the one before it is a backslash that is not.
LEMMA EscapedStep ==
  ASSUME src \in Seq(STRING), NEW k \in 1..Len(src), NEW j \in (k + 1)..Len(src)
  PROVE  escaped(src, k, j + 1) <=> src[j] = "\\" /\ ~escaped(src, k, j)
<1> DEFINE run(x) == {l \in (k + 1)..(x - 1) : \A m \in l..(x - 1) : src[m] = "\\"}
<1>1. IsFiniteSet(run(j)) /\ j \notin run(j)
  <2>1. IsFiniteSet((k + 1)..(j - 1))
    BY FS_Interval
  <2> QED BY <2>1, FS_Subset
<1>2. Cardinality(run(j)) \in Nat
  BY <1>1, FS_CardinalityType
<1>3. CASE src[j] = "\\"
  <2>1. run(j + 1) = run(j) \cup {j}
    BY <1>3
  <2>2. Cardinality(run(j + 1)) = Cardinality(run(j)) + 1
    <3> HIDE DEF run
    <3> QED BY <1>1, <2>1, FS_AddElement
  <2>3. Cardinality(run(j + 1)) % 2 = 1 <=> Cardinality(run(j)) % 2 # 1
    <3> HIDE DEF run
    <3> QED BY <1>2, <2>2
  <2> QED BY <1>3, <2>3 DEF escaped
<1>4. CASE src[j] # "\\"
  <2>1. run(j + 1) = {}
    BY <1>4
  <2>2. Cardinality(run(j + 1)) = 0
    <3> HIDE DEF run
    <3> QED BY <2>1, FS_EmptySet
  <2>3. Cardinality(run(j + 1)) % 2 # 1
    <3> HIDE DEF run
    <3> QED BY <2>2
  <2> QED BY <1>4, <2>3 DEF escaped
<1> QED BY <1>3, <1>4

LEMMA EscapedStart ==
  ASSUME NEW k \in Nat
  PROVE  ~escaped(src, k, k) /\ ~escaped(src, k, k + 1)
<1>1. /\ {j \in (k + 1)..(k - 1) : \A m \in j..(k - 1) : src[m] = "\\"} = {}
      /\ {j \in (k + 1)..(k + 1 - 1) : \A m \in j..(k + 1 - 1) : src[m] = "\\"} = {}
  OBVIOUS
<1>2. Cardinality({}) % 2 # 1
  <2>1. Cardinality({}) = 0
    BY FS_EmptySet
  <2> QED BY <2>1
<1> QED BY <1>1, <1>2 DEF escaped

\* What scanString computes.
LEMMA ScanDefined ==
  ASSUME src \in Seq(STRING), NEW k \in 1..Len(src), NEW q, NEW backslash \in BOOLEAN
  PROVE  \E f :
           /\ scanString(k, q, backslash) = f[k + 1]
           /\ \A j \in 1..(Len(src) + 2) :
                f[j] = IF j > Len(src) THEN Len(src) + 1
                       ELSE IF backslash /\ src[j] = "\\" THEN f[j + 2]
                       ELSE IF src[j] # q THEN f[j + 1]
                       ELSE IF at(src, j + 1) = q THEN f[j + 2] ELSE j + 1
<1> DEFINE n == Len(src)
           S == 1..(n + 2)
           V == 1..(n + 1)
           top == n + 1
           step(j, f) == IF j > n THEN n + 1
                         ELSE IF backslash /\ src[j] = "\\" THEN f[j + 2]
                         ELSE IF src[j] # q THEN f[j + 1]
                         ELSE IF at(src, j + 1) = q THEN f[j + 2] ELSE j + 1
           D == [x \in S \X [S -> V] |-> step(x[1], x[2])]
           m == [j \in S |-> n + 2 - j]
<1>1. n \in Nat
  OBVIOUS
<1>2. ASSUME NEW j \in S, NEW f \in [S -> V]
      PROVE  step(j, f) \in V
  <2>1. CASE j > n
    BY <1>1, <2>1
  <2>2. CASE j <= n
    <3>1. j + 1 \in S /\ j + 2 \in S /\ j + 1 \in V /\ ~(j > n)
      BY <1>1, <2>2
    <3>2. f[j + 1] \in V /\ f[j + 2] \in V
      <4> HIDE DEF S, V
      <4> QED BY <3>1
    <3> HIDE DEF V, S
    <3> QED BY <3>1, <3>2
  <2> QED BY <1>1, <2>1, <2>2
<1>3. D \in [S \X [S -> V] -> V]
  <2> HIDE DEF S, V, step
  <2> QED BY <1>2
<1>4. m \in [S -> 0..top]
  BY <1>1
<1>5. ASSUME NEW x \in S, NEW g \in [S -> V], NEW h \in [S -> V],
             \A y \in S : m[y] < m[x] => g[y] = h[y]
      PROVE  D[<<x, g>>] = D[<<x, h>>]
  <2>1. step(x, g) = step(x, h)
    <3>1. CASE x > n
      BY <3>1
    <3>2. CASE x <= n
      <4>1. x + 1 \in S /\ x + 2 \in S /\ m[x + 1] < m[x] /\ m[x + 2] < m[x]
        BY <1>1, <3>2
      <4>2. g[x + 1] = h[x + 1] /\ g[x + 2] = h[x + 2]
        <5> HIDE DEF S, m
        <5> QED BY <1>5, <4>1
      <4> HIDE DEF S, m
      <4> QED BY <4>2
    <3> QED BY <1>1, <3>1, <3>2
  <2> HIDE DEF step, S, V
  <2> QED BY <2>1
<1>6. \E f \in [S -> V] : f = [x \in S |-> D[<<x, f>>]]
  <2>1. V # {} /\ top \in Nat
    BY <1>1
  <2>2. \A x \in S, g, h \in [S -> V] :
          (\A y \in S : m[y] < m[x] => g[y] = h[y]) => D[<<x, g>>] = D[<<x, h>>]
    <3> HIDE DEF S, V, D, m
    <3> QED BY <1>5
  <2>3. Decreasing(S, V, top, m, D)
    <3> HIDE DEF S, V, D, m, top
    <3> QED BY <1>3, <1>4, <2>1, <2>2 DEF Decreasing
  <2> HIDE DEF S, V, D, m, top
  <2> QED BY <2>3, Recursion
<1> DEFINE r == CHOOSE f : f = [j \in S |-> step(j, f)]
<1>7. r = [j \in S |-> step(j, r)]
  <2>1. PICK f \in [S -> V] : f = [x \in S |-> D[<<x, f>>]]
    BY <1>6
  <2>2. f = [x \in S |-> step(x, f)]
    <3> HIDE DEF step, S, V
    <3> QED BY <2>1
  <2> HIDE DEF S, V, step
  <2> QED BY <2>2
<1>8. scanString(k, q, backslash) = r[k + 1]
  BY DEF scanString
<1>9. \A j \in S : r[j] = step(j, r)
  <2> HIDE DEF S, step, r
  <2> QED BY <1>7
<1> HIDE DEF r
<1> QED BY <1>8, <1>9

\* The quotes of a text that opens at k, and the places inside it that a scan
\* comes to: not escaped, and the quotes before them odd in number.
quotesOf(k, q, backslash) ==
  {m \in k..Len(src) : src[m] = q /\ ~(backslash /\ escaped(src, k, m))}
Within(k, q, backslash, j) ==
  /\ ~(backslash /\ escaped(src, k, j))
  /\ counted(quotesOf(k, q, backslash), k, j - 1) % 2 = 1

LEMMA ClosingsAre ==
  ASSUME src \in Seq(STRING), NEW k \in 1..Len(src), NEW q, NEW backslash
  PROVE  closings(src, k, q, backslash)
           = {c \in (k + 1)..Len(src) :
                /\ c \in quotesOf(k, q, backslash)
                /\ counted(quotesOf(k, q, backslash), k, c) % 2 = 0
                /\ at(src, c + 1) # q}
<1> DEFINE n == Len(src)
           Q == quotesOf(k, q, backslash)
           C == closings(src, k, q, backslash)
<1>1. n \in Nat
  OBVIOUS
<1>2. ASSUME NEW c \in (k + 1)..n
      PROVE  {j \in k..c : src[j] = q /\ ~(backslash /\ escaped(src, k, j))}
               = {m \in k..c : m \in Q}
  <2>1. \A j \in k..c : j \in k..n
    BY <1>1
  <2> QED BY <2>1 DEF quotesOf
<1>3. C = {c \in (k + 1)..n :
             /\ src[c] = q /\ ~(backslash /\ escaped(src, k, c))
             /\ Cardinality({j \in k..c : src[j] = q
                               /\ ~(backslash /\ escaped(src, k, j))}) % 2 = 0
             /\ at(src, c + 1) # q}
  BY DEF closings
<1>4. \A c \in (k + 1)..n : c \in Q <=> src[c] = q /\ ~(backslash /\ escaped(src, k, c))
  BY <1>1 DEF quotesOf
<1> HIDE DEF Q, C
<1>5. C = {c \in (k + 1)..n : c \in Q /\ counted(Q, k, c) % 2 = 0 /\ at(src, c + 1) # q}
  BY <1>2, <1>3, <1>4 DEF counted
<1> QED BY <1>5 DEF C, Q

LEMMA WithinStart ==
  ASSUME src \in Seq(STRING), NEW k \in 1..Len(src), NEW q, NEW backslash, src[k] = q
  PROVE  Within(k, q, backslash, k + 1)
<1> DEFINE Q == quotesOf(k, q, backslash)
<1>1. k \in Nat /\ k \in Int /\ k \in k..Len(src) /\ k <= k
  OBVIOUS
<1>2. ~escaped(src, k, k) /\ ~escaped(src, k, k + 1)
  BY <1>1, EscapedStart
<1>3. k \in Q
  BY <1>1, <1>2 DEF quotesOf
<1>4. counted(Q, k, k - 1) = 0
  <2>1. {m \in k..(k - 1) : m \in Q} = {}
    BY <1>1
  <2> QED BY <2>1, FS_EmptySet DEF counted
<1>5. counted(Q, k, k) = 1
  <2> HIDE DEF Q
  <2>1. counted(Q, k, k) = IF k \in Q THEN counted(Q, k, k - 1) + 1 ELSE counted(Q, k, k - 1)
    BY <1>1, CountStep
  <2> QED BY <1>3, <1>4, <2>1
<1>6. counted(Q, k, k + 1 - 1) % 2 = 1
  <2>1. k + 1 - 1 = k
    BY <1>1
  <2> HIDE DEF Q
  <2> QED BY <1>5, <2>1
<1> QED BY <1>2, <1>6 DEF Within

\* Where the scan goes on from such a place, and what of it closes the text.
LEMMA WithinStep ==
  ASSUME src \in Seq(STRING), NEW k \in 1..Len(src), NEW q, q # "\\", q # Nothing,
         NEW backslash, NEW j \in (k + 1)..Len(src), Within(k, q, backslash, j)
  PROVE  LET C    == closings(src, k, q, backslash)
             mark == backslash /\ src[j] = "\\"
         IN  /\ mark => /\ j \notin C /\ j + 1 \notin C
                        /\ j + 2 <= Len(src) + 1 => Within(k, q, backslash, j + 2)
             /\ ~mark /\ src[j] # q => j \notin C /\ Within(k, q, backslash, j + 1)
             /\ ~mark /\ src[j] = q /\ at(src, j + 1) = q =>
                  /\ j \notin C /\ j + 1 \notin C /\ j + 1 \in 1..Len(src)
                  /\ Within(k, q, backslash, j + 2)
             /\ ~mark /\ src[j] = q /\ at(src, j + 1) # q => j \in C
<1> DEFINE n == Len(src)
           Q == quotesOf(k, q, backslash)
           C == closings(src, k, q, backslash)
           mark == backslash /\ src[j] = "\\"
           esc(l) == backslash /\ escaped(src, k, l)
           count(l) == counted(Q, k, l)
<1>1. /\ n \in Nat /\ k \in Nat /\ j \in Nat /\ j \in (k + 1)..n /\ j \in k..n
      /\ j + 1 - 1 = j /\ j + 2 - 1 = j + 1 /\ j + 1 + 1 = j + 2
  OBVIOUS
<1>2. C = {c \in (k + 1)..n : c \in Q /\ count(c) % 2 = 0 /\ at(src, c + 1) # q}
  BY ClosingsAre
<1>3. \A l \in k..n : l \in Q <=> src[l] = q /\ ~esc(l)
  BY DEF quotesOf
<1>4. /\ count(j - 1) \in Nat /\ count(j - 1) % 2 = 1 /\ ~esc(j)
      /\ count(j) = IF j \in Q THEN count(j - 1) + 1 ELSE count(j - 1)
      /\ count(j + 1) = IF j + 1 \in Q THEN count(j) + 1 ELSE count(j)
  <2>1. k \in Int /\ j \in Int /\ k <= j /\ j + 1 \in Int /\ k <= j + 1
    BY <1>1
  <2> HIDE DEF Q
  <2>2. /\ counted(Q, k, j - 1) \in Nat
        /\ counted(Q, k, j) = IF j \in Q THEN counted(Q, k, j - 1) + 1 ELSE counted(Q, k, j - 1)
    BY <2>1, CountStep
  <2>3. counted(Q, k, j + 1) = IF j + 1 \in Q THEN counted(Q, k, j + 1 - 1) + 1
                               ELSE counted(Q, k, j + 1 - 1)
    <3> DEFINE l == j + 1
    <3>1. l \in Int /\ k <= l
      BY <2>1
    <3> HIDE DEF l
    <3>2. counted(Q, k, l) = IF l \in Q THEN counted(Q, k, l - 1) + 1 ELSE counted(Q, k, l - 1)
      BY <2>1, <3>1, CountStep
    <3> QED BY <3>2 DEF l
  <2> QED BY <1>1, <2>2, <2>3 DEF Within, Q
<1>5. \A l \in (k + 1)..n : esc(l + 1) <=> backslash /\ src[l] = "\\" /\ ~esc(l)
  BY EscapedStep
<1>6. \A l : Within(k, q, backslash, l) <=> ~esc(l) /\ count(l - 1) % 2 = 1
  BY DEF Within
<1> HIDE DEF Q, C, esc, count
<1>7. ASSUME mark
      PROVE  /\ j \notin C /\ j + 1 \notin C
             /\ j + 2 <= n + 1 => Within(k, q, backslash, j + 2)
  <2>1. j \notin Q /\ count(j) = count(j - 1) /\ esc(j + 1)
    BY <1>1, <1>3, <1>4, <1>5, <1>7
  <2>2. ASSUME j + 1 <= n
        PROVE  j + 1 \notin Q /\ count(j + 1) = count(j) /\ ~esc(j + 2)
    <3>1. j + 1 \in k..n /\ j + 1 \in (k + 1)..n
      BY <1>1, <2>2
    <3> QED BY <1>1, <1>3, <1>4, <1>5, <2>1, <3>1
  <2>3. \A c \in C : c \in Q /\ c <= n
    BY <1>1, <1>2
  <2>4. j + 2 <= n + 1 => j + 1 <= n
    BY <1>1
  <2> QED BY <1>1, <1>4, <1>6, <2>1, <2>2, <2>3, <2>4
<1>8. ASSUME ~mark, src[j] # q
      PROVE  j \notin C /\ Within(k, q, backslash, j + 1)
  <2>1. j \notin Q /\ count(j) = count(j - 1) /\ ~esc(j + 1)
    BY <1>1, <1>3, <1>4, <1>5, <1>8
  <2> QED BY <1>1, <1>2, <1>4, <1>6, <2>1
<1>9. ASSUME ~mark, src[j] = q
      PROVE  j \in Q /\ count(j) = count(j - 1) + 1 /\ count(j) % 2 = 0
             /\ ~esc(j + 1)
  <2>1. j \in Q /\ count(j) = count(j - 1) + 1 /\ ~esc(j + 1)
    BY <1>1, <1>3, <1>4, <1>5, <1>9
  <2> QED BY <1>4, <2>1
<1>10. ASSUME ~mark, src[j] = q, at(src, j + 1) = q
       PROVE  /\ j \notin C /\ j + 1 \notin C /\ j + 1 \in 1..n
              /\ Within(k, q, backslash, j + 2)
  <2>1. j + 1 \in 1..n /\ src[j + 1] = q /\ j + 1 \in k..n /\ j + 1 \in (k + 1)..n
    <3>1. j + 1 \in 1..n /\ src[j + 1] = q
      BY <1>10 DEF at
    <3> QED BY <1>1, <3>1
  <2>2. j + 1 \in Q /\ ~esc(j + 2)
    BY <1>1, <1>3, <1>5, <1>9, <1>10, <2>1
  <2>3. count(j + 1) = count(j) + 1 /\ count(j + 1) % 2 = 1
    <3>1. count(j + 1) = count(j) + 1 /\ count(j) \in Nat /\ count(j) % 2 = 0
      BY <1>4, <1>9, <1>10, <2>2
    <3> QED BY <3>1
  <2>4. \A c \in C : count(c) % 2 = 0 /\ at(src, c + 1) # q
    BY <1>2
  <2>5. j \notin C
    BY <1>10, <2>4
  <2>6. j + 1 \notin C
    <3>1. count(j + 1) % 2 # 0
      BY <2>3
    <3> QED BY <2>4, <3>1
  <2> QED BY <1>1, <1>6, <2>1, <2>2, <2>3, <2>5, <2>6
<1>11. ASSUME ~mark, src[j] = q, at(src, j + 1) # q
       PROVE  j \in C
  BY <1>1, <1>2, <1>9, <1>11
<1> HIDE DEF mark
<1> QED BY <1>7, <1>8, <1>10, <1>11 DEF C, mark

\* The scan of a quoted text stops where PostgreSQL's does: it only comes to
\* places inside the text, and none before them has closed it.
LEMMA ScanRight ==
  ASSUME src \in Seq(STRING), NEW k \in 1..Len(src), NEW q, q # "\\", q # Nothing,
         NEW backslash \in BOOLEAN, src[k] = q
  PROVE  /\ scanString(k, q, backslash) \in (k + 1)..(Len(src) + 1)
         /\ scanString(k, q, backslash) - 1 = quotedEnd(src, k, q, backslash)
<1> DEFINE n == Len(src)
           C == closings(src, k, q, backslash)
           end == quotedEnd(src, k, q, backslash)
           In(j) == Within(k, q, backslash, j)
           mark(j) == backslash /\ src[j] = "\\"
           Open(j) == /\ \A c \in C : j <= c
                      /\ j <= n => In(j)
<1>1. n \in Nat /\ n = Len(src) /\ k \in Nat /\ k \in 1..n
  OBVIOUS
<1>2. PICK f :
        /\ scanString(k, q, backslash) = f[k + 1]
        /\ \A j \in 1..(n + 2) :
             f[j] = IF j > n THEN n + 1
                    ELSE IF mark(j) THEN f[j + 2]
                    ELSE IF src[j] # q THEN f[j + 1]
                    ELSE IF at(src, j + 1) = q THEN f[j + 2] ELSE j + 1
  BY ScanDefined
<1>3. C \in SUBSET ((k + 1)..n)
  BY ClosingsAre
<1>4. In(k + 1)
  BY WithinStart
<1>5. \A j \in (k + 1)..n : In(j) =>
        /\ mark(j) => j \notin C /\ j + 1 \notin C /\ (j + 2 <= n + 1 => In(j + 2))
        /\ ~mark(j) /\ src[j] # q => j \notin C /\ In(j + 1)
        /\ ~mark(j) /\ src[j] = q /\ at(src, j + 1) = q =>
             j \notin C /\ j + 1 \notin C /\ In(j + 2)
        /\ ~mark(j) /\ src[j] = q /\ at(src, j + 1) # q => j \in C
  BY WithinStep
<1>6. ASSUME C = {}
      PROVE  end = n
  BY <1>6 DEF quotedEnd, upTo
<1>7. ASSUME NEW c \in C, \A j \in C : c <= j
      PROVE  end = c
  <2>1. k + 1 \in Int /\ n \in Int
    BY <1>1
  <2>2. upTo(src, C) = c
    <3> HIDE DEF C, n
    <3> QED BY <1>3, <1>7, <2>1, UpToIs
  <2> QED BY <2>2 DEF quotedEnd
<1> HIDE DEF n, C, end, In, mark
<1>8. Open(k + 1)
  BY <1>1, <1>3, <1>4
<1> DEFINE T == {j \in (k + 1)..(n + 2) : Open(j) => f[j] = end + 1 /\ end \in k..n}
<1>9. ASSUME NEW j \in (k + 1)..(n + 2), \A l \in (j + 1)..(n + 2) : l \in T, Open(j)
      PROVE  f[j] = end + 1 /\ end \in k..n
  <2>1. j \in 1..(n + 2) /\ j \in Nat
    BY <1>1
  <2>2. CASE j > n
    <3>1. C = {}
      BY <1>1, <1>3, <1>9, <2>1, <2>2
    <3>2. f[j] = n + 1
      BY <1>2, <2>1, <2>2
    <3>3. end = n
      BY <1>6, <3>1
    <3> QED BY <1>1, <3>2, <3>3
  <2>3. CASE j <= n
    <3>1. j \in (k + 1)..n /\ In(j) /\ ~(j > n)
          /\ j + 1 \in (j + 1)..(n + 2) /\ j + 2 \in (j + 1)..(n + 2)
      BY <1>1, <1>9, <2>1, <2>3
    <3>2. /\ Open(j + 1) => f[j + 1] = end + 1 /\ end \in k..n
          /\ Open(j + 2) => f[j + 2] = end + 1 /\ end \in k..n
      <4>1. j + 1 \in T /\ j + 2 \in T
        BY <1>9, <3>1
      <4> QED BY <4>1
    <3>3. /\ j \notin C => \A c \in C : j + 1 <= c
          /\ j \notin C /\ j + 1 \notin C => \A c \in C : j + 2 <= c
      <4>1. \A c \in C : c \in Int /\ j <= c
        BY <1>1, <1>3, <1>9
      <4> QED BY <2>1, <4>1
    <3>4. CASE mark(j)
      <4>1. f[j] = f[j + 2]
        BY <1>2, <2>1, <3>1, <3>4
      <4>2. j + 2 <= n => j + 2 <= n + 1
        BY <1>1, <2>1
      <4>3. Open(j + 2)
        BY <1>5, <3>1, <3>3, <3>4, <4>2
      <4> QED BY <3>2, <4>1, <4>3
    <3>5. CASE ~mark(j) /\ src[j] # q
      <4>1. f[j] = f[j + 1]
        BY <1>2, <2>1, <3>1, <3>5
      <4>2. Open(j + 1)
        BY <1>5, <3>1, <3>3, <3>5
      <4> QED BY <3>2, <4>1, <4>2
    <3>6. CASE ~mark(j) /\ src[j] = q /\ at(src, j + 1) = q
      <4>1. f[j] = f[j + 2]
        BY <1>2, <2>1, <3>1, <3>6
      <4>2. Open(j + 2)
        BY <1>5, <3>1, <3>3, <3>6
      <4> QED BY <3>2, <4>1, <4>2
    <3>7. CASE ~mark(j) /\ src[j] = q /\ at(src, j + 1) # q
      <4>1. f[j] = j + 1
        BY <1>2, <2>1, <3>1, <3>7
      <4>2. j \in C
        BY <1>5, <3>1, <3>7
      <4>3. end = j
        BY <1>7, <1>9, <4>2
      <4> QED BY <1>1, <3>1, <4>1, <4>3
    <3> QED BY <3>4, <3>5, <3>6, <3>7
  <2> QED BY <1>1, <2>1, <2>2, <2>3
<1>10. \A j \in (k + 1)..(n + 2) : j \in T
  <2> DEFINE a == k + 1
             b == n + 2
  <2>1. \A j \in a..b : (\A l \in (j + 1)..b : l \in T) => j \in T
    BY <1>9
  <2>2. a \in Int /\ b \in Int
    BY <1>1
  <2>3. \A j \in a..b : j \in T
    <3> HIDE DEF a, b, T
    <3> QED BY <2>1, <2>2, Downward
  <2> QED BY <2>3
<1>11. k + 1 \in (k + 1)..(n + 2)
  BY <1>1
<1>12. f[k + 1] = end + 1 /\ end \in k..n
  BY <1>8, <1>10, <1>11
<1> QED BY <1>1, <1>2, <1>12 DEF end, n

\* f[k] is what is left of s from k on when the first symbol of every pair in W,
\* by its position, is dropped; a pair is passed as a whole.
Drops(f, s, W) ==
  \A k \in 1..(Len(s) + 2) :
    f[k] = IF k > Len(s) THEN <<>>
           ELSE IF k \in W THEN <<s[k + 1]>> \o f[k + 2]
           ELSE <<s[k]>> \o f[k + 1]

LEMMA DropsDefined ==
  ASSUME NEW Symbol, NEW s \in Seq(Symbol), NEW W \in SUBSET (1..(Len(s) - 1))
  PROVE  \E f \in [1..(Len(s) + 2) -> Seq(Symbol)] : Drops(f, s, W)
<1> DEFINE n == Len(s)
           S == 1..(n + 2)
           V == Seq(Symbol)
           top == n + 1
           step(k, r) == IF k > n THEN <<>>
                         ELSE IF k \in W THEN <<s[k + 1]>> \o r[k + 2]
                         ELSE <<s[k]>> \o r[k + 1]
           D == [x \in S \X [S -> V] |-> step(x[1], x[2])]
           m == [k \in S |-> n + 2 - k]
<1>1. n \in Nat
  OBVIOUS
<1>2. ASSUME NEW k \in S, NEW r \in [S -> V]
      PROVE  step(k, r) \in V
  <2>1. CASE k > n
    BY <2>1
  <2>2. CASE k <= n
    <3>1. k + 1 \in S /\ k + 2 \in S /\ s[k] \in Symbol /\ ~(k > n)
      BY <1>1, <2>2
    <3>2. r[k + 1] \in V /\ r[k + 2] \in V
      <4> HIDE DEF S, V
      <4> QED BY <3>1
    <3>3. CASE k \in W
      <4>1. s[k + 1] \in Symbol
        BY <1>1, <3>3
      <4>2. <<s[k + 1]>> \o r[k + 2] \in V
        BY <3>2, <4>1
      <4> HIDE DEF V, S, n
      <4> QED BY <3>1, <3>3, <4>2
    <3>4. CASE k \notin W
      <4>1. <<s[k]>> \o r[k + 1] \in V
        BY <3>1, <3>2
      <4> HIDE DEF V, S, n
      <4> QED BY <3>1, <3>4, <4>1
    <3> QED BY <3>3, <3>4
  <2> QED BY <1>1, <2>1, <2>2
<1>3. D \in [S \X [S -> V] -> V]
  <2> HIDE DEF S, V, step
  <2> QED BY <1>2
<1>4. m \in [S -> 0..top]
  BY <1>1
<1>5. ASSUME NEW x \in S, NEW g \in [S -> V], NEW h \in [S -> V],
             \A y \in S : m[y] < m[x] => g[y] = h[y]
      PROVE  D[<<x, g>>] = D[<<x, h>>]
  <2>1. step(x, g) = step(x, h)
    <3>1. CASE x > n
      BY <3>1
    <3>2. CASE x <= n
      <4>1. x + 1 \in S /\ x + 2 \in S /\ m[x + 1] < m[x] /\ m[x + 2] < m[x]
        BY <1>1, <3>2
      <4>2. g[x + 1] = h[x + 1] /\ g[x + 2] = h[x + 2]
        <5> HIDE DEF S, m
        <5> QED BY <1>5, <4>1
      <4> HIDE DEF S, m
      <4> QED BY <4>2
    <3> QED BY <1>1, <3>1, <3>2
  <2> HIDE DEF step, S, V
  <2> QED BY <2>1
<1>6. PICK f \in [S -> V] : f = [x \in S |-> D[<<x, f>>]]
  <2>1. V # {} /\ top \in Nat
    <3>1. <<>> \in V
      OBVIOUS
    <3> HIDE DEF V
    <3> QED BY <1>1, <3>1
  <2>2. \A x \in S, g, h \in [S -> V] :
          (\A y \in S : m[y] < m[x] => g[y] = h[y]) => D[<<x, g>>] = D[<<x, h>>]
    <3> HIDE DEF S, V, D, m
    <3> QED BY <1>5
  <2>3. Decreasing(S, V, top, m, D)
    <3> HIDE DEF S, V, D, m, top
    <3> QED BY <1>3, <1>4, <2>1, <2>2 DEF Decreasing
  <2> HIDE DEF S, V, D, m, top
  <2> QED BY <2>3, Recursion
<1>7. \A k \in S : f[k] = step(k, f)
  <2> HIDE DEF S, step, V
  <2> QED BY <1>6
<1>8. Drops(f, s, W)
  BY <1>7 DEF Drops
<1> HIDE DEF S, V
<1> QED BY <1>6, <1>8 DEF S, V

\* It is the only such function, position by position.
LEMMA DropsUnique ==
  ASSUME NEW Symbol, NEW s \in Seq(Symbol), NEW W,
         NEW f, NEW g, Drops(f, s, W), Drops(g, s, W)
  PROVE  \A k \in 1..(Len(s) + 2) : f[k] = g[k]
<1> DEFINE n == Len(s)
           T == {k \in 1..(n + 2) : f[k] = g[k]}
<1>1. n \in Nat
  OBVIOUS
<1>2. ASSUME NEW k \in 1..(n + 2), \A l \in (k + 1)..(n + 2) : l \in T
      PROVE  k \in T
  <2>1. CASE k > n
    BY <2>1 DEF Drops
  <2>2. CASE k <= n
    <3>1. k + 1 \in (k + 1)..(n + 2) /\ k + 2 \in (k + 1)..(n + 2)
      BY <1>1, <2>2
    <3>2. f[k + 1] = g[k + 1] /\ f[k + 2] = g[k + 2]
      BY <1>2, <3>1
    <3> QED BY <3>2 DEF Drops
  <2> QED BY <1>1, <2>1, <2>2
<1>3. \A k \in 1..(n + 2) : k \in T
  <2>1. \A k \in 1..(n + 2) : (\A l \in (k + 1)..(n + 2) : l \in T) => k \in T
    BY <1>2
  <2>2. 1 \in Int /\ n + 2 \in Int
    BY <1>1
  <2> HIDE DEF T
  <2> QED BY <2>1, <2>2, Downward
<1> QED BY <1>3

\* Where b and c follow each other.
pairsOf(s, b, c) == {k \in 1..(Len(s) - 1) : s[k] = b /\ s[k + 1] = c}

\* replaceAll drops the first symbol of each such pair.
LEMMA ReplaceDrops ==
  ASSUME NEW Symbol, NEW s \in Seq(Symbol), NEW b, NEW c
  PROVE  \E f \in [1..(Len(s) + 2) -> Seq(Symbol)] :
           Drops(f, s, pairsOf(s, b, c)) /\ replaceAll(s, <<b, c>>, c) = f[1]
<1> DEFINE n == Len(s)
           S == 1..(n + 2)
           W == pairsOf(s, b, c)
           step(k, r) == IF k > n THEN <<>>
                         ELSE IF k < n /\ <<s[k], s[k + 1]>> = <<b, c>> THEN <<c>> \o r[k + 2]
                              ELSE <<s[k]>> \o r[k + 1]
           r == CHOOSE f : f = [k \in S |-> step(k, f)]
<1>1. n \in Nat
  OBVIOUS
<1>2. PICK f \in [1..(Len(s) + 2) -> Seq(Symbol)] : Drops(f, s, W)
  <2>1. W \in SUBSET (1..(Len(s) - 1))
    BY DEF pairsOf
  <2> HIDE DEF W
  <2> QED BY <2>1, DropsDefined
<1>3. ASSUME NEW g, NEW k \in S
      PROVE  step(k, g) = IF k > n THEN <<>>
                          ELSE IF k \in W THEN <<s[k + 1]>> \o g[k + 2]
                          ELSE <<s[k]>> \o g[k + 1]
  <2>1. CASE k > n
    BY <2>1
  <2>2. CASE k <= n
    <3>1. k \in W <=> k < n /\ <<s[k], s[k + 1]>> = <<b, c>>
      BY <1>1, <2>2 DEF pairsOf
    <3>2. k \in W => s[k + 1] = c
      BY DEF pairsOf
    <3> HIDE DEF W, n
    <3> QED BY <3>1, <3>2
  <2> QED BY <1>1, <2>1, <2>2
<1>4. f = [k \in S |-> step(k, f)]
  <2>1. \A k \in S : f[k] = step(k, f)
    <3> HIDE DEF step, W
    <3> QED BY <1>2, <1>3 DEF Drops
  <2> HIDE DEF step
  <2> QED BY <1>2, <2>1
<1>5. r = [k \in S |-> step(k, r)]
  <2> HIDE DEF step, S
  <2> QED BY <1>4
<1>6. Drops(r, s, W)
  <2>1. \A k \in S : r[k] = step(k, r)
    <3> HIDE DEF step, S, r
    <3> QED BY <1>5
  <2> HIDE DEF step, r, W
  <2> QED BY <1>3, <2>1 DEF Drops
<1>7. r[1] = f[1]
  <2>1. 1 \in 1..(Len(s) + 2)
    BY <1>1
  <2> HIDE DEF r, W
  <2> QED BY <1>2, <1>6, <2>1, DropsUnique
<1>8. replaceAll(s, <<b, c>>, c) = r[1]
  BY DEF replaceAll
<1> HIDE DEF r
<1> QED BY <1>2, <1>7, <1>8

\* What a quoted text is read as is a text.
LEMMA ReplaceType ==
  ASSUME NEW Symbol, NEW s \in Seq(Symbol), NEW b, NEW c
  PROVE  replaceAll(s, <<b, c>>, c) \in Seq(Symbol)
<1>1. PICK f \in [1..(Len(s) + 2) -> Seq(Symbol)] : replaceAll(s, <<b, c>>, c) = f[1]
  BY ReplaceDrops
<1>2. 1 \in 1..(Len(s) + 2)
  OBVIOUS
<1> QED BY <1>1, <1>2

LEMMA DecodeType ==
  ASSUME NEW Symbol, NEW raw \in Seq(Symbol), NEW backslash \in BOOLEAN
  PROVE  /\ decodeString(raw, backslash) \in Seq(Symbol)
         /\ \A q : Len(raw) >= 2 => unquoted(raw, q) \in Seq(Symbol)
<1>1. ASSUME NEW q, Len(raw) >= 2
      PROVE  unquoted(raw, q) \in Seq(Symbol)
  <2>1. Tail(raw) \in Seq(Symbol) /\ Len(Tail(raw)) \in Nat /\ Len(Tail(raw)) >= 1
    BY <1>1
  <2>2. SubSeq(Tail(raw), 1, Len(Tail(raw)) - 1) \in Seq(Symbol)
    BY <2>1
  <2> QED BY <2>1, <2>2, ReplaceType DEF unquoted
<1>2. CASE Len(raw) < 2
  BY <1>1, <1>2 DEF decodeString
<1>3. CASE ~(Len(raw) < 2)
  <2>1. Len(raw) >= 2
    <3>1. Len(raw) \in Nat
      OBVIOUS
    <3> QED BY <1>3, <3>1
  <2>2. unquoted(raw, "'") \in Seq(Symbol)
    BY <1>1, <2>1
  <2>3. replaceAll(unquoted(raw, "'"), <<"\\", "'">>, "'") \in Seq(Symbol)
    BY <2>2, ReplaceType
  <2>4. replaceAll(replaceAll(unquoted(raw, "'"), <<"\\", "'">>, "'"),
                   <<"\\", "\\">>, "\\") \in Seq(Symbol)
    BY <2>3, ReplaceType
  <2>5. decodeString(raw, TRUE) \in Seq(Symbol) /\ decodeString(raw, FALSE) \in Seq(Symbol)
    <3> HIDE DEF unquoted, replaceAll
    <3> QED BY <1>3, <2>2, <2>4 DEF decodeString
  <2>6. decodeString(raw, backslash) \in Seq(Symbol)
    <3>1. backslash = TRUE \/ backslash = FALSE
      OBVIOUS
    <3> QED BY <2>5, <3>1
  <2> QED BY <1>1, <2>6
<1> QED BY <1>1, <1>2, <1>3

\* The symbols that give the one behind them another meaning, and where they
\* have one behind them.
marks(q, backslash) == IF backslash THEN {q, "\\"} ELSE {q}
marksOf(s, M) == {k \in 1..(Len(s) - 1) : s[k] \in M}

\* PostgreSQL drops those.
LEMMA MeantDrops ==
  ASSUME NEW Symbol, NEW s \in Seq(Symbol), NEW q, NEW backslash
  PROVE  \E f \in [1..(Len(s) + 2) -> Seq(Symbol)] :
           /\ Drops(f, s, marksOf(s, marks(q, backslash)))
           /\ meant(s, q, backslash) = f[1]
<1> DEFINE n == Len(s)
           S == 1..(n + 2)
           W == marksOf(s, marks(q, backslash))
           step(k, r) == IF k > n THEN <<>>
                         ELSE IF k < n /\ (s[k] = q \/ (backslash /\ s[k] = "\\"))
                              THEN <<s[k + 1]>> \o r[k + 2]
                              ELSE <<s[k]>> \o r[k + 1]
           r == CHOOSE f : f = [k \in S |-> step(k, f)]
<1>1. n \in Nat
  OBVIOUS
<1>2. PICK f \in [1..(Len(s) + 2) -> Seq(Symbol)] : Drops(f, s, W)
  <2>1. W \in SUBSET (1..(Len(s) - 1))
    BY DEF marksOf
  <2> HIDE DEF W
  <2> QED BY <2>1, DropsDefined
<1>3. ASSUME NEW g, NEW k \in S
      PROVE  step(k, g) = IF k > n THEN <<>>
                          ELSE IF k \in W THEN <<s[k + 1]>> \o g[k + 2]
                          ELSE <<s[k]>> \o g[k + 1]
  <2>1. CASE k > n
    BY <2>1
  <2>2. CASE k <= n
    <3>1. k \in W <=> k < n /\ (s[k] = q \/ (backslash /\ s[k] = "\\"))
      BY <1>1, <2>2 DEF marksOf, marks
    <3> HIDE DEF W, n
    <3> QED BY <3>1
  <2> QED BY <1>1, <2>1, <2>2
<1>4. f = [k \in S |-> step(k, f)]
  <2>1. \A k \in S : f[k] = step(k, f)
    <3> HIDE DEF step, W
    <3> QED BY <1>2, <1>3 DEF Drops
  <2> HIDE DEF step
  <2> QED BY <1>2, <2>1
<1>5. r = [k \in S |-> step(k, r)]
  <2> HIDE DEF step, S
  <2> QED BY <1>4
<1>6. Drops(r, s, W)
  <2>1. \A k \in S : r[k] = step(k, r)
    <3> HIDE DEF step, S, r
    <3> QED BY <1>5
  <2> HIDE DEF step, r, W
  <2> QED BY <1>3, <2>1 DEF Drops
<1>7. r[1] = f[1]
  <2>1. 1 \in 1..(Len(s) + 2)
    BY <1>1
  <2> HIDE DEF r, W
  <2> QED BY <1>2, <1>6, <2>1, DropsUnique
<1>8. meant(s, q, backslash) = r[1]
  BY DEF meant
<1> HIDE DEF r
<1> QED BY <1>2, <1>7, <1>8

\* A first symbol before a text.
LEMMA Before ==
  ASSUME NEW Symbol, NEW a \in Symbol, NEW s \in Seq(Symbol)
  PROVE  /\ <<a>> \o s \in Seq(Symbol) /\ <<a>> \o s # <<>>
         /\ Len(<<a>> \o s) = Len(s) + 1
         /\ (<<a>> \o s)[1] = a /\ Tail(<<a>> \o s) = s
         /\ \A k \in 1..Len(s) : (<<a>> \o s)[k + 1] = s[k]
<1>1. /\ <<a>> \o s \in Seq(Symbol) /\ <<a>> \o s # <<>>
      /\ Len(<<a>> \o s) = Len(s) + 1 /\ (<<a>> \o s)[1] = a
  OBVIOUS
<1>2. \A k \in 1..Len(s) : (<<a>> \o s)[k + 1] = s[k]
  OBVIOUS
<1>3. Tail(<<a>> \o s) = s
  <2> DEFINE t == Tail(<<a>> \o s)
  <2>1. t \in Seq(Symbol) /\ Len(t) = Len(s)
    BY <1>1
  <2>2. \A k \in 1..Len(s) : t[k] = s[k]
    BY <1>1, <1>2
  <2> HIDE DEF t
  <2>3. t = s
    BY <2>1, <2>2, SeqEqual
  <2> QED BY <2>3 DEF t
<1> QED BY <1>1, <1>2, <1>3

LEMMA FirstAndRest ==
  ASSUME NEW Symbol, NEW s \in Seq(Symbol), s # <<>>
  PROVE  s[1] \in Symbol /\ Tail(s) \in Seq(Symbol) /\ s = <<s[1]>> \o Tail(s)
<1>1. s[1] \in Symbol /\ Tail(s) \in Seq(Symbol) /\ Len(s) \in Nat \ {0}
  OBVIOUS
<1>2. Len(<<s[1]>> \o Tail(s)) = Len(s)
  BY <1>1
<1>3. \A k \in 1..Len(s) : (<<s[1]>> \o Tail(s))[k] = s[k]
  BY <1>1
<1>4. <<s[1]>> \o Tail(s) \in Seq(Symbol)
  BY <1>1
<1> DEFINE t == <<s[1]>> \o Tail(s)
<1>5. t = s
  <2> HIDE DEF t
  <2> QED BY <1>2, <1>3, <1>4, SeqEqual DEF t
<1> QED BY <1>1, <1>5

\* What is dropped of a text does not depend on what stands before it.
LEMMA DropsShift ==
  ASSUME NEW Symbol, NEW a \in Symbol, NEW s \in Seq(Symbol), NEW b, NEW c, NEW f, NEW g,
         Drops(f, <<a>> \o s, pairsOf(<<a>> \o s, b, c)), Drops(g, s, pairsOf(s, b, c))
  PROVE  \A k \in 1..(Len(s) + 2) : f[k + 1] = g[k]
<1> DEFINE n == Len(s)
           t == <<a>> \o s
           T == {k \in 1..(n + 2) : f[k + 1] = g[k]}
<1>1. n \in Nat /\ Len(t) = n + 1 /\ \A k \in 1..n : t[k + 1] = s[k]
  BY Before
<1> HIDE DEF t
<1>2. ASSUME NEW k \in 1..(n + 2), \A l \in (k + 1)..(n + 2) : l \in T
      PROVE  k \in T
  <2>1. k + 1 \in 1..(Len(t) + 2)
    BY <1>1
  <2>2. CASE k > n
    <3>1. k + 1 > Len(t)
      BY <1>1, <2>2
    <3> QED BY <2>1, <2>2, <3>1 DEF Drops, t
  <2>3. CASE k <= n
    <3>1. k + 1 \in (k + 1)..(n + 2) /\ k + 2 \in (k + 1)..(n + 2) /\ ~(k + 1 > Len(t))
          /\ ~(k > n) /\ k + 1 + 1 = k + 2 /\ k + 1 + 2 = k + 2 + 1
      BY <1>1, <2>3
    <3>2. f[k + 1 + 1] = g[k + 1] /\ f[k + 1 + 2] = g[k + 2]
      BY <1>2, <3>1
    <3>3. t[k + 1] = s[k] /\ (k < n => t[k + 1 + 1] = s[k + 1])
      <4>1. k \in 1..n /\ (k < n => k + 1 \in 1..n)
        BY <1>1, <2>3
      <4> QED BY <1>1, <4>1
    <3>4. k + 1 \in pairsOf(t, b, c) <=> k \in pairsOf(s, b, c)
      <4>1. k + 1 \in 1..(Len(t) - 1) <=> k \in 1..(n - 1)
        BY <1>1
      <4>2. k \in 1..(n - 1) => k < n
        BY <1>1
      <4> QED BY <3>3, <4>1, <4>2 DEF pairsOf
    <3>5. k \in pairsOf(s, b, c) => k < n
      BY <1>1 DEF pairsOf
    <3>6. g[k] = IF k \in pairsOf(s, b, c) THEN <<s[k + 1]>> \o g[k + 2]
                 ELSE <<s[k]>> \o g[k + 1]
      BY <3>1 DEF Drops
    <3>7. f[k + 1] = IF k + 1 \in pairsOf(t, b, c) THEN <<t[k + 1 + 1]>> \o f[k + 1 + 2]
                     ELSE <<t[k + 1]>> \o f[k + 1 + 1]
      BY <2>1, <3>1 DEF Drops, t
    <3> QED BY <3>2, <3>3, <3>4, <3>5, <3>6, <3>7
  <2> QED BY <1>1, <2>2, <2>3
<1>3. \A k \in 1..(n + 2) : k \in T
  <2>1. \A k \in 1..(n + 2) : (\A l \in (k + 1)..(n + 2) : l \in T) => k \in T
    BY <1>2
  <2>2. 1 \in Int /\ n + 2 \in Int
    BY <1>1
  <2> HIDE DEF T
  <2> QED BY <2>1, <2>2, Downward
<1> QED BY <1>3

\* Every pair of b and c made one c.
merged(s, b, c) == replaceAll(s, <<b, c>>, c)

cons(a, s) == <<a>> \o s

\* So replaceAll goes through a text from its first symbol on.
LEMMA ReplaceFirst ==
  ASSUME NEW Symbol, NEW a \in Symbol, NEW s \in Seq(Symbol), NEW b, NEW c
  PROVE  merged(cons(a, s), b, c) =
           IF s # <<>> /\ a = b /\ s[1] = c
           THEN cons(c, merged(Tail(s), b, c)) ELSE cons(a, merged(s, b, c))
<1> DEFINE t == <<a>> \o s
<1>1. /\ t \in Seq(Symbol) /\ Len(t) = Len(s) + 1 /\ t[1] = a
      /\ \A k \in 1..Len(s) : t[k + 1] = s[k]
  BY Before
<1>2. Len(s) \in Nat
  OBVIOUS
<1>3. PICK f : Drops(f, t, pairsOf(t, b, c)) /\ replaceAll(t, <<b, c>>, c) = f[1]
  <2> HIDE DEF t
  <2> QED BY <1>1, ReplaceDrops
<1>4. PICK g : Drops(g, s, pairsOf(s, b, c)) /\ replaceAll(s, <<b, c>>, c) = g[1]
  BY ReplaceDrops
<1>5. f[2] = g[1] /\ f[3] = g[2]
  <2>1. \A k \in 1..(Len(s) + 2) : f[k + 1] = g[k]
    BY <1>3, <1>4, DropsShift
  <2>2. 1 \in 1..(Len(s) + 2) /\ 2 \in 1..(Len(s) + 2) /\ 1 + 1 = 2 /\ 2 + 1 = 3
    BY <1>2
  <2> QED BY <2>1, <2>2
<1>6. ASSUME s # <<>>
      PROVE  g[2] = replaceAll(Tail(s), <<b, c>>, c)
  <2>1. s[1] \in Symbol /\ Tail(s) \in Seq(Symbol) /\ s = <<s[1]>> \o Tail(s)
    BY <1>6, FirstAndRest
  <2> DEFINE u == Tail(s)
             x == s[1]
  <2>2. Drops(g, <<x>> \o u, pairsOf(<<x>> \o u, b, c)) /\ x \in Symbol /\ u \in Seq(Symbol)
    BY <1>4, <2>1
  <2> HIDE DEF u, x
  <2>3. PICK h : Drops(h, u, pairsOf(u, b, c)) /\ replaceAll(u, <<b, c>>, c) = h[1]
    BY <2>2, ReplaceDrops
  <2>4. \A k \in 1..(Len(u) + 2) : g[k + 1] = h[k]
    BY <2>2, <2>3, DropsShift
  <2>5. 1 \in 1..(Len(u) + 2) /\ 1 + 1 = 2
    BY <2>2
  <2> QED BY <2>3, <2>4, <2>5 DEF u
<1>7. 1 \in pairsOf(t, b, c) <=> s # <<>> /\ a = b /\ s[1] = c
  <2>1. s # <<>> <=> Len(s) >= 1
    OBVIOUS
  <2>2. s # <<>> => t[2] = s[1]
    BY <1>1, <1>2, <2>1
  <2>3. 1 \in 1..(Len(t) - 1) <=> Len(s) >= 1
    BY <1>1, <1>2
  <2> HIDE DEF t
  <2> QED BY <1>1, <2>1, <2>2, <2>3 DEF pairsOf
<1>8. f[1] = IF 1 \in pairsOf(t, b, c) THEN <<t[1 + 1]>> \o f[1 + 2] ELSE <<t[1]>> \o f[1 + 1]
  <2>1. 1 \in 1..(Len(t) + 2) /\ ~(1 > Len(t))
    BY <1>1, <1>2
  <2> HIDE DEF t
  <2> QED BY <1>3, <2>1 DEF Drops
<1>9. 1 \in pairsOf(t, b, c) => t[1 + 1] = c
  BY DEF pairsOf
<1>10. 1 + 1 = 2 /\ 1 + 2 = 3
  OBVIOUS
<1> HIDE DEF t
<1>11. merged(t, b, c) =
           IF s # <<>> /\ a = b /\ s[1] = c
           THEN <<c>> \o merged(Tail(s), b, c)
           ELSE <<a>> \o merged(s, b, c)
  BY <1>1, <1>3, <1>4, <1>5, <1>6, <1>7, <1>8, <1>9, <1>10 DEF merged
<1> QED BY <1>11 DEF t, cons

LEMMA MergedType ==
  ASSUME NEW Symbol, NEW s \in Seq(Symbol), NEW b, NEW c
  PROVE  merged(s, b, c) \in Seq(Symbol)
BY ReplaceType DEF merged

LEMMA ReplaceNothing ==
  ASSUME NEW b, NEW c
  PROVE  merged(<<>>, b, c) = <<>>
<1>1. <<>> \in Seq({})
  OBVIOUS
<1>2. merged(<<>>, b, c) \in Seq({})
  BY <1>1, MergedType
<1>3. \A u \in Seq({}) : u = <<>>
  OBVIOUS
<1> QED BY <1>2, <1>3

LEMMA ConsIs ==
  ASSUME NEW Symbol, NEW a \in Symbol, NEW s \in Seq(Symbol)
  PROVE  /\ cons(a, s) \in Seq(Symbol) /\ cons(a, s) # <<>>
         /\ cons(a, s)[1] = a /\ Tail(cons(a, s)) = s
<1> DEFINE t == <<a>> \o s
<1>1. t \in Seq(Symbol) /\ t # <<>> /\ t[1] = a /\ Tail(t) = s
  BY Before
<1>2. cons(a, s) = t
  BY DEF cons
<1> HIDE DEF t
<1> QED BY <1>1, <1>2

LEMMA FirstCons ==
  ASSUME NEW Symbol, NEW s \in Seq(Symbol), s # <<>>
  PROVE  s[1] \in Symbol /\ Tail(s) \in Seq(Symbol) /\ s = cons(s[1], Tail(s))
BY FirstAndRest DEF cons

\* Reading an escaped quote or backslash after the pairs of quotes gives what
\* each stands for, whatever follows: the backslash that is left of a pair of
\* them is never taken for one that escapes what comes after it.
LEMMA UnescapedOnce ==
  ASSUME NEW Symbol, NEW q \in Symbol, NEW e \in Symbol, q # e, NEW s \in Seq(Symbol)
  PROVE  /\ \A a \in Symbol : a # e =>
              merged(merged(cons(a, s), e, q), e, e) = cons(a, merged(merged(s, e, q), e, e))
         /\ merged(merged(cons(e, cons(q, s)), e, q), e, e) =
              cons(q, merged(merged(s, e, q), e, e))
         /\ merged(merged(cons(e, cons(e, s)), e, q), e, e) =
              cons(e, merged(merged(s, e, q), e, e))
<1> DEFINE quotes(t)  == merged(t, e, q)
           escapes(t) == merged(t, e, e)
<1>1. \A t \in Seq(Symbol) : quotes(t) \in Seq(Symbol)
  BY MergedType
<1>2. ASSUME NEW a \in Symbol, NEW t \in Seq(Symbol), a # e
      PROVE  /\ quotes(cons(a, t)) = cons(a, quotes(t))
             /\ escapes(cons(a, t)) = cons(a, escapes(t))
  <2>1. merged(cons(a, t), e, q) = cons(a, merged(t, e, q))
    BY <1>2, ReplaceFirst
  <2>2. merged(cons(a, t), e, e) = cons(a, merged(t, e, e))
    BY <1>2, ReplaceFirst
  <2> QED BY <2>1, <2>2
<1>3. ASSUME NEW a \in Symbol, NEW t \in Seq(Symbol)
      PROVE  /\ quotes(cons(e, cons(a, t))) =
                  IF a = q THEN cons(q, quotes(t)) ELSE cons(e, quotes(cons(a, t)))
             /\ escapes(cons(e, cons(a, t))) =
                  IF a = e THEN cons(e, escapes(t)) ELSE cons(e, escapes(cons(a, t)))
  <2> DEFINE u == cons(a, t)
  <2>1. u \in Seq(Symbol) /\ u # <<>> /\ u[1] = a /\ Tail(u) = t
    BY ConsIs
  <2> HIDE DEF u
  <2>2. merged(cons(e, u), e, q) =
          IF u # <<>> /\ e = e /\ u[1] = q
          THEN cons(q, merged(Tail(u), e, q)) ELSE cons(e, merged(u, e, q))
    BY <2>1, ReplaceFirst
  <2>3. merged(cons(e, u), e, e) =
          IF u # <<>> /\ e = e /\ u[1] = e
          THEN cons(e, merged(Tail(u), e, e)) ELSE cons(e, merged(u, e, e))
    BY <2>1, ReplaceFirst
  <2> QED BY <2>1, <2>2, <2>3 DEF u
<1>4. quotes(cons(e, <<>>)) = cons(e, quotes(<<>>))
  <2> DEFINE u == <<>>
  <2>1. u \in Seq(Symbol)
    OBVIOUS
  <2>2. u = <<>>
    OBVIOUS
  <2> HIDE DEF u
  <2>3. merged(cons(e, u), e, q) =
          IF u # <<>> /\ e = e /\ u[1] = q
          THEN cons(q, merged(Tail(u), e, q)) ELSE cons(e, merged(u, e, q))
    BY <2>1, ReplaceFirst
  <2> QED BY <2>2, <2>3
<1> HIDE DEF quotes, escapes
<1>5. ASSUME NEW a \in Symbol, a # e
      PROVE  escapes(quotes(cons(a, s))) = cons(a, escapes(quotes(s)))
  BY <1>1, <1>2, <1>5
<1>6. escapes(quotes(cons(e, cons(q, s)))) = cons(q, escapes(quotes(s)))
  BY <1>1, <1>2, <1>3
<1>7. escapes(quotes(cons(e, cons(e, s)))) = cons(e, escapes(quotes(s)))
  <2>1. cons(e, s) \in Seq(Symbol)
    BY ConsIs
  <2>2. quotes(cons(e, cons(e, s))) = cons(e, quotes(cons(e, s)))
    BY <1>3, <2>1
  <2>3. CASE s # <<>> /\ s[1] = q
    <3> DEFINE t == Tail(s)
    <3>1. t \in Seq(Symbol) /\ s = cons(q, t)
      BY <2>3, FirstCons
    <3> HIDE DEF t
    <3>2. quotes(cons(e, s)) = cons(q, quotes(t)) /\ quotes(s) = cons(q, quotes(t))
      BY <1>2, <1>3, <3>1
    <3>3. escapes(cons(e, cons(q, quotes(t)))) = cons(e, escapes(cons(q, quotes(t))))
      BY <1>1, <1>3, <3>1
    <3> QED BY <2>2, <3>2, <3>3
  <2>4. CASE ~(s # <<>> /\ s[1] = q)
    <3>1. quotes(cons(e, s)) = cons(e, quotes(s))
      <4>1. CASE s = <<>>
        BY <1>4, <4>1
      <4>2. CASE s # <<>>
        <5> DEFINE t == Tail(s)
                   a == s[1]
        <5>1. t \in Seq(Symbol) /\ a \in Symbol /\ s = cons(a, t) /\ a # q
          BY <2>4, <4>2, FirstCons
        <5> HIDE DEF t, a
        <5> QED BY <1>3, <5>1
      <4> QED BY <4>1, <4>2
    <3>2. escapes(cons(e, cons(e, quotes(s)))) = cons(e, escapes(quotes(s)))
      BY <1>1, <1>3
    <3> QED BY <2>2, <3>1, <3>2
  <2> QED BY <2>3, <2>4
<1> QED BY <1>5, <1>6, <1>7 DEF quotes, escapes

\* B is where the units of a quoted text start: a symbol, a pair of quotes, or a
\* backslash with what follows it.
Units(s, q, M, B) ==
  /\ 1 \in B /\ B \subseteq 1..(Len(s) + 1)
  /\ \A k \in B : k <= Len(s) =>
       IF s[k] \in M THEN k + 2 \in B /\ (s[k] = q => s[k + 1] = q) ELSE k + 1 \in B

LEMMA UnitsNext ==
  ASSUME NEW Symbol, NEW s \in Seq(Symbol), NEW q, NEW M, q \in M, NEW B,
         Units(s, q, M, B), NEW k \in B, k <= Len(s)
  PROVE  /\ k \in 1..Len(s)
         /\ s[k] \in M => k + 2 \in B /\ k + 1 \in 1..Len(s) /\ k \in marksOf(s, M)
         /\ s[k] \notin M => k + 1 \in B /\ k \notin marksOf(s, M)
         /\ s[k] = q => s[k + 1] = q /\ k \in pairsOf(s, q, q)
         /\ s[k] # q => k \notin pairsOf(s, q, q)
<1>1. Len(s) \in Nat
  OBVIOUS
<1>2. k \in 1..Len(s) /\ (k + 2 \in B => k + 1 \in 1..Len(s) /\ k \in 1..(Len(s) - 1))
  BY <1>1 DEF Units
<1> QED BY <1>2 DEF Units, pairsOf, marksOf

\* Without escapes the pairs of quotes that replaceAll finds are the units.
LEMMA MeantPlain ==
  ASSUME NEW Symbol, NEW s \in Seq(Symbol), NEW q, NEW B, NEW backslash,
         NEW M, q \in M, Units(s, q, M, B)
  PROVE  M = marks(q, backslash) /\ M = {q} => merged(s, q, q) = meant(s, q, backslash)
<1> DEFINE n == Len(s)
<1>1. n \in Nat
  OBVIOUS
<1>2. PICK f : Drops(f, s, pairsOf(s, q, q)) /\ replaceAll(s, <<q, q>>, q) = f[1]
  BY ReplaceDrops
<1>3. PICK g : /\ Drops(g, s, marksOf(s, marks(q, backslash)))
               /\ meant(s, q, backslash) = g[1]
  BY MeantDrops
<1>4. \A k \in B : k <= n =>
        /\ k \in 1..n
        /\ s[k] \in M => k + 2 \in B /\ k + 1 \in 1..n /\ k \in marksOf(s, M)
        /\ s[k] \notin M => k + 1 \in B /\ k \notin marksOf(s, M)
        /\ s[k] = q => s[k + 1] = q /\ k \in pairsOf(s, q, q)
        /\ s[k] # q => k \notin pairsOf(s, q, q)
  BY UnitsNext
<1> SUFFICES ASSUME M = marks(q, backslash), M = {q}
             PROVE  merged(s, q, q) = meant(s, q, backslash)
  OBVIOUS
<1>5. Drops(g, s, marksOf(s, M))
  BY <1>3
<1> DEFINE T == {k \in 1..(n + 2) : k \in B => f[k] = g[k]}
<1>6. ASSUME NEW k \in 1..(n + 2), \A l \in (k + 1)..(n + 2) : l \in T, k \in B
      PROVE  f[k] = g[k]
  <2>1. CASE k > n
    BY <1>2, <1>5, <2>1 DEF Drops
  <2>2. CASE k <= n
    <3>1. k + 1 \in (k + 1)..(n + 2) /\ k + 2 \in (k + 1)..(n + 2) /\ ~(k > n)
      BY <1>1, <2>2
    <3>2. (k + 1 \in B => f[k + 1] = g[k + 1]) /\ (k + 2 \in B => f[k + 2] = g[k + 2])
      BY <1>6, <3>1
    <3>3. /\ s[k] = q => k + 2 \in B /\ k \in pairsOf(s, q, q) /\ k \in marksOf(s, M)
          /\ s[k] # q => k \notin pairsOf(s, q, q) /\ k + 1 \in B /\ k \notin marksOf(s, M)
      BY <1>6, <1>4, <2>2
    <3>4. f[k] = IF k \in pairsOf(s, q, q) THEN <<s[k + 1]>> \o f[k + 2] ELSE <<s[k]>> \o f[k + 1]
      BY <1>2, <3>1 DEF Drops
    <3>5. g[k] = IF k \in marksOf(s, M) THEN <<s[k + 1]>> \o g[k + 2] ELSE <<s[k]>> \o g[k + 1]
      BY <1>5, <3>1 DEF Drops
    <3> QED BY <3>2, <3>3, <3>4, <3>5
  <2> QED BY <1>1, <2>1, <2>2
<1>7. \A k \in 1..(n + 2) : k \in T
  <2>1. \A k \in 1..(n + 2) : (\A l \in (k + 1)..(n + 2) : l \in T) => k \in T
    BY <1>6
  <2>2. 1 \in Int /\ n + 2 \in Int
    BY <1>1
  <2> HIDE DEF T
  <2> QED BY <2>1, <2>2, Downward
<1>8. 1 \in T /\ 1 \in B
  <2>1. 1 \in 1..(n + 2)
    BY <1>1
  <2> HIDE DEF T
  <2> QED BY <1>7, <2>1 DEF Units
<1> QED BY <1>2, <1>3, <1>8 DEF merged

\* A quote before a unit stays what it is when the pairs are merged, also when
\* replaceAll pairs it with the first quote of the next.
LEMMA QuoteBefore ==
  ASSUME NEW Symbol, NEW s \in Seq(Symbol), NEW q, NEW M, q \in M, NEW B,
         Units(s, q, M, B), NEW f, Drops(f, s, pairsOf(s, q, q))
  PROVE  \A k \in B : k > 1 /\ s[k - 1] = q => f[k - 1] = cons(q, f[k])
<1> DEFINE n == Len(s)
           T == {k \in 1..(n + 1) : k \in B /\ k > 1 /\ s[k - 1] = q => f[k - 1] = cons(q, f[k])}
<1>1. n \in Nat /\ B \subseteq 1..(n + 1)
  BY DEF Units
<1>2. ASSUME NEW k \in 1..(n + 1), \A l \in (k + 1)..(n + 1) : l \in T,
             k \in B, k > 1, s[k - 1] = q
      PROVE  f[k - 1] = cons(q, f[k])
  <2>1. k - 1 \in 1..(n + 2) /\ ~(k - 1 > n) /\ k - 1 + 1 = k /\ k - 1 + 2 = k + 1
        /\ (k - 1 \in 1..(n - 1) <=> k <= n)
    BY <1>1, <1>2
  <2>2. f[k - 1] = IF k - 1 \in pairsOf(s, q, q) THEN <<s[k]>> \o f[k + 1] ELSE <<s[k - 1]>> \o f[k]
    BY <2>1 DEF Drops
  <2>3. k - 1 \in pairsOf(s, q, q) <=> k <= n /\ s[k] = q
    BY <1>2, <2>1 DEF pairsOf
  <2>4. CASE k <= n /\ s[k] = q
    <3>1. k + 2 \in B /\ s[k + 1] = q /\ k \in pairsOf(s, q, q)
      BY <1>2, <2>4, UnitsNext
    <3>2. f[k] = <<s[k + 1]>> \o f[k + 2]
      <4>1. k \in 1..(n + 2) /\ ~(k > n)
        BY <1>1, <2>4
      <4> QED BY <3>1, <4>1 DEF Drops
    <3>3. f[k + 1] = cons(q, f[k + 2])
      <4>1. k + 2 \in (k + 1)..(n + 1) /\ k + 2 > 1 /\ k + 2 - 1 = k + 1
        BY <1>1, <3>1
      <4>2. k + 2 \in T
        BY <1>2, <4>1
      <4> QED BY <3>1, <4>1, <4>2
    <3>4. f[k - 1] = cons(q, f[k + 1])
      BY <2>2, <2>3, <2>4 DEF cons
    <3> QED BY <3>1, <3>2, <3>3, <3>4 DEF cons
  <2>5. CASE ~(k <= n /\ s[k] = q)
    BY <1>2, <2>2, <2>3, <2>5 DEF cons
  <2> QED BY <2>4, <2>5
<1>3. \A k \in 1..(n + 1) : k \in T
  <2>1. \A k \in 1..(n + 1) : (\A l \in (k + 1)..(n + 1) : l \in T) => k \in T
    BY <1>2
  <2>2. 1 \in Int /\ n + 1 \in Int
    BY <1>1
  <2> HIDE DEF T
  <2> QED BY <2>1, <2>2, Downward
<1> QED BY <1>1, <1>3

\* What backslashes stand before.
Escapes(s, q) == \A k \in 1..(Len(s) - 1) : s[k] = "\\" => s[k + 1] \in {q, "\\"}

\* With escapes: pairs of quotes first, then an escaped quote, then an escaped
\* backslash.  A backslash before any other symbol is not decoded, which the
\* code declares; before a semicolon none stands here.
LEMMA MeantEscaped ==
  ASSUME NEW Symbol, NEW s \in Seq(Symbol), NEW q \in Symbol, "\\" \in Symbol, q # "\\",
         NEW B, NEW backslash,
         NEW M, q \in M, Units(s, q, M, B),
         Escapes(s, q)
  PROVE  M = marks(q, backslash) /\ M = {q, "\\"} =>
           merged(merged(merged(s, q, q), "\\", q), "\\", "\\") = meant(s, q, backslash)
<1> DEFINE n == Len(s)
           e == "\\"
           read(t) == merged(merged(t, e, q), e, e)
<1>1. n \in Nat
  OBVIOUS
<1>2. PICK f \in [1..(Len(s) + 2) -> Seq(Symbol)] :
        Drops(f, s, pairsOf(s, q, q)) /\ replaceAll(s, <<q, q>>, q) = f[1]
  BY ReplaceDrops
<1>3. PICK g : /\ Drops(g, s, marksOf(s, marks(q, backslash)))
               /\ meant(s, q, backslash) = g[1]
  BY MeantDrops
<1>4. \A k \in B : k <= n =>
        /\ k \in 1..n
        /\ s[k] \in M => k + 2 \in B /\ k + 1 \in 1..n /\ k \in marksOf(s, M)
        /\ s[k] \notin M => k + 1 \in B /\ k \notin marksOf(s, M)
        /\ s[k] = q => s[k + 1] = q /\ k \in pairsOf(s, q, q)
        /\ s[k] # q => k \notin pairsOf(s, q, q)
  BY UnitsNext
<1>5. \A k \in 1..(n + 2) : f[k] \in Seq(Symbol)
  BY <1>2
<1>6. ASSUME NEW t \in Seq(Symbol)
      PROVE  /\ \A a \in Symbol : a # e => read(cons(a, t)) = cons(a, read(t))
             /\ read(cons(e, cons(q, t))) = cons(q, read(t))
             /\ read(cons(e, cons(e, t))) = cons(e, read(t))
  BY UnescapedOnce
<1>7. read(<<>>) = <<>>
  BY ReplaceNothing
<1>8. \A k \in B : k > 1 /\ s[k - 1] = q => f[k - 1] = cons(q, f[k])
  <2>1. Drops(f, s, pairsOf(s, q, q))
    BY <1>2
  <2> QED BY <2>1, QuoteBefore
<1> SUFFICES ASSUME M = marks(q, backslash), M = {q, "\\"}
             PROVE  merged(merged(merged(s, q, q), "\\", q), "\\", "\\") = meant(s, q, backslash)
  OBVIOUS
<1>9. Drops(g, s, marksOf(s, M))
  BY <1>3
<1> DEFINE T == {k \in 1..(n + 2) : k \in B => read(f[k]) = g[k]}
<1> HIDE DEF e, read
<1>10. ASSUME NEW k \in 1..(n + 2), \A l \in (k + 1)..(n + 2) : l \in T, k \in B
      PROVE  read(f[k]) = g[k]
  <2>1. CASE k > n
    <3>1. f[k] = <<>> /\ g[k] = <<>>
      BY <1>2, <1>9, <2>1 DEF Drops
    <3> QED BY <1>7, <3>1
  <2>2. CASE k <= n
    <3>1. k \in 1..n /\ k + 1 \in (k + 1)..(n + 2) /\ k + 2 \in (k + 1)..(n + 2) /\ ~(k > n)
          /\ k + 1 \in 1..(n + 2) /\ k + 2 \in 1..(n + 2)
      BY <1>1, <2>2
    <3>2. (k + 1 \in B => read(f[k + 1]) = g[k + 1]) /\ (k + 2 \in B => read(f[k + 2]) = g[k + 2])
      BY <1>10, <3>1
    <3>3. /\ f[k + 1] \in Seq(Symbol) /\ f[k + 2] \in Seq(Symbol) /\ s[k] \in Symbol
      BY <1>5, <3>1
    <3>4. /\ s[k] = q => /\ k + 2 \in B /\ s[k + 1] = q
                         /\ k \in pairsOf(s, q, q) /\ k \in marksOf(s, M)
          /\ s[k] # q => k \notin pairsOf(s, q, q)
          /\ s[k] # q /\ s[k] = e
               => k + 2 \in B /\ k + 1 \in 1..n /\ k \in marksOf(s, M)
          /\ s[k] # q /\ s[k] # e => k + 1 \in B /\ k \notin marksOf(s, M)
      BY <1>10, <1>4, <2>2 DEF e
    <3>5. f[k] = IF k \in pairsOf(s, q, q) THEN cons(s[k + 1], f[k + 2]) ELSE cons(s[k], f[k + 1])
      BY <1>2, <3>1 DEF Drops, cons
    <3>6. g[k] = IF k \in marksOf(s, M) THEN cons(s[k + 1], g[k + 2]) ELSE cons(s[k], g[k + 1])
      BY <1>9, <3>1 DEF Drops, cons
    <3>7. CASE s[k] = q
      <4>1. f[k] = cons(q, f[k + 2]) /\ g[k] = cons(q, g[k + 2])
        BY <3>4, <3>5, <3>6, <3>7
      <4>2. read(cons(q, f[k + 2])) = cons(q, read(f[k + 2]))
        BY <1>6, <3>3 DEF e
      <4> QED BY <3>2, <3>4, <3>7, <4>1, <4>2
    <3>8. CASE s[k] # q /\ s[k] # e
      <4>1. f[k] = cons(s[k], f[k + 1]) /\ g[k] = cons(s[k], g[k + 1])
        BY <3>4, <3>5, <3>6, <3>8
      <4>2. read(cons(s[k], f[k + 1])) = cons(s[k], read(f[k + 1]))
        BY <1>6, <3>3, <3>8
      <4> QED BY <3>2, <3>4, <3>8, <4>1, <4>2
    <3>9. CASE s[k] = e /\ s[k] # q
      <4>1. k + 2 \in B /\ k + 1 \in 1..n /\ k \in 1..(n - 1)
        BY <1>1, <3>1, <3>4, <3>9
      <4>2. f[k] = cons(e, f[k + 1]) /\ g[k] = cons(s[k + 1], g[k + 2])
        BY <3>4, <3>5, <3>6, <3>9
      <4>3. s[k + 1] = q \/ s[k + 1] = e
        BY <3>9, <4>1 DEF e, Escapes
      <4>4. CASE s[k + 1] = q
        <5>1. f[k + 1] = cons(q, f[k + 2])
          <6> DEFINE l == k + 2
          <6>1. l \in B /\ l > 1 /\ l - 1 = k + 1 /\ s[l - 1] = q
            BY <3>1, <4>1, <4>4
          <6> HIDE DEF l
          <6>2. f[l - 1] = cons(q, f[l])
            BY <1>8, <6>1
          <6> QED BY <6>1, <6>2 DEF l
        <5>2. read(cons(e, cons(q, f[k + 2]))) = cons(q, read(f[k + 2]))
          BY <1>6, <3>3
        <5> QED BY <3>2, <4>1, <4>2, <4>4, <5>1, <5>2
      <4>5. CASE s[k + 1] = e
        <5>1. f[k + 1] = cons(e, f[k + 2])
          <6>1. k + 1 \notin pairsOf(s, q, q)
            BY <4>5 DEF pairsOf, e
          <6>2. ~(k + 1 > n) /\ k + 1 + 1 = k + 2
            BY <4>1, <1>1
          <6> QED BY <1>2, <3>1, <4>5, <6>1, <6>2 DEF Drops, cons
        <5>2. read(cons(e, cons(e, f[k + 2]))) = cons(e, read(f[k + 2]))
          BY <1>6, <3>3
        <5> QED BY <3>2, <4>1, <4>2, <4>5, <5>1, <5>2
      <4> QED BY <4>3, <4>4, <4>5
    <3> QED BY <3>7, <3>8, <3>9
  <2> QED BY <1>1, <2>1, <2>2
<1>11. \A k \in 1..(n + 2) : k \in T
  <2>1. \A k \in 1..(n + 2) : (\A l \in (k + 1)..(n + 2) : l \in T) => k \in T
    BY <1>10
  <2>2. 1 \in Int /\ n + 2 \in Int
    BY <1>1
  <2> HIDE DEF T
  <2> QED BY <2>1, <2>2, Downward
<1>12. 1 \in T /\ 1 \in B
  <2>1. 1 \in 1..(n + 2)
    BY <1>1
  <2> HIDE DEF T
  <2> QED BY <1>11, <2>1 DEF Units
<1> QED BY <1>2, <1>3, <1>12 DEF merged, read, e

LEMMA EscapedText ==
  ASSUME NEW s \in Seq(STRING), NEW q, q # "\\", NEW backslash,
         NEW B, Units(s, q, marks(q, backslash), B), Escapes(s, q)
  PROVE  marks(q, backslash) = {q, "\\"} =>
           merged(merged(merged(s, q, q), "\\", q), "\\", "\\") = meant(s, q, backslash)
<1> DEFINE M == marks(q, backslash)
           Symbol == STRING \cup {q, "\\"}
<1>1. q \in M /\ M = marks(q, backslash) /\ Units(s, q, M, B)
  BY DEF marks
<1>2. s \in Seq(Symbol) /\ q \in Symbol /\ "\\" \in Symbol
  OBVIOUS
<1> HIDE DEF M, Symbol
<1> QED BY <1>1, <1>2, MeantEscaped

\* The places the scan of a closed text comes to are where its units start.
LEMMA UnitsOfClosed ==
  ASSUME src \in Seq(STRING), NEW k \in 1..Len(src), NEW q, q # "\\", q # Nothing,
         NEW backslash, src[k] = q,
         NEW to \in closings(src, k, q, backslash),
         \A c \in closings(src, k, q, backslash) : to <= c
  PROVE  \E B : Units(SubSeq(src, k + 1, to - 1), q, marks(q, backslash), B)
<1> DEFINE n == Len(src)
           C == closings(src, k, q, backslash)
           body == SubSeq(src, k + 1, to - 1)
           In(j) == Within(k, q, backslash, j)
           mark(j) == backslash /\ src[j] = "\\"
           B == {m \in 1..(to - k) : In(k + m)}
<1>1. C \in SUBSET ((k + 1)..n)
  BY ClosingsAre
<1>2. n \in Nat /\ k \in Nat /\ to \in (k + 1)..n
  BY <1>1
<1>3. /\ Len(body) = to - k - 1
      /\ \A m \in 1..(to - k - 1) : body[m] = src[k + m]
  BY <1>2
<1>4. \A j \in (k + 1)..n : In(j) =>
        /\ mark(j) => j \notin C /\ j + 1 \notin C /\ (j + 2 <= n + 1 => In(j + 2))
        /\ ~mark(j) /\ src[j] # q => j \notin C /\ In(j + 1)
        /\ ~mark(j) /\ src[j] = q /\ at(src, j + 1) = q =>
             j \notin C /\ j + 1 \notin C /\ j + 1 \in 1..n /\ In(j + 2)
        /\ ~mark(j) /\ src[j] = q /\ at(src, j + 1) # q => j \in C
  BY WithinStep
<1>5. In(k + 1)
  BY WithinStart
<1>6. \A j \in 1..n : at(src, j) = src[j]
  BY DEF at
<1>7. to \in C /\ \A c \in C : to <= c
  OBVIOUS
<1>8. \A x : x \in marks(q, backslash) <=> x = q \/ (backslash /\ x = "\\")
  BY DEF marks
<1> HIDE DEF n, C, body, In
<1>9. ASSUME NEW m \in B, m <= Len(body)
      PROVE  IF body[m] \in marks(q, backslash)
             THEN m + 2 \in B /\ (body[m] = q => body[m + 1] = q) ELSE m + 1 \in B
  <2> DEFINE j == k + m
  <2>1. /\ m \in Nat /\ j \in (k + 1)..n /\ j < to /\ body[m] = src[j] /\ In(j)
        /\ k + (m + 1) = j + 1 /\ k + (m + 2) = j + 2
    BY <1>2, <1>3, <1>9
  <2>2. mark(j) => src[j] # q
    OBVIOUS
  <2>3. body[m] \in marks(q, backslash) <=> src[j] = q \/ mark(j)
    BY <1>8, <2>1
  <2>4. CASE mark(j)
    <3>1. j + 1 # to /\ (j + 2 <= n + 1 => In(j + 2))
      BY <1>4, <1>7, <2>1, <2>4
    <3>2. m + 2 \in 1..(to - k) /\ j + 2 <= n + 1
      BY <1>2, <2>1, <3>1
    <3> QED BY <2>1, <2>2, <2>3, <2>4, <3>1, <3>2
  <2>5. CASE ~mark(j) /\ src[j] # q
    <3>1. In(j + 1)
      BY <1>4, <2>1, <2>5
    <3>2. m + 1 \in 1..(to - k)
      BY <1>2, <2>1
    <3> QED BY <2>1, <2>3, <2>5, <3>1, <3>2
  <2>6. CASE ~mark(j) /\ src[j] = q
    <3>1. at(src, j + 1) = q
      <4>1. j \notin C
        BY <1>2, <1>7, <2>1
      <4> QED BY <1>4, <2>1, <2>6, <4>1
    <3>2. j + 1 # to /\ In(j + 2) /\ j + 1 \in 1..n
      BY <1>4, <1>7, <2>1, <2>6, <3>1
    <3>3. m + 2 \in 1..(to - k) /\ m + 1 \in 1..(to - k - 1)
      BY <1>2, <2>1, <3>2
    <3>4. body[m + 1] = q
      <4>1. body[m + 1] = src[k + (m + 1)]
        BY <1>3, <3>3
      <4> QED BY <1>6, <2>1, <3>1, <3>2, <4>1
    <3> QED BY <2>1, <2>3, <2>6, <3>2, <3>3, <3>4
  <2> QED BY <2>4, <2>5, <2>6
<1>10. 1 \in B /\ B \subseteq 1..(Len(body) + 1)
  BY <1>2, <1>3, <1>5
<1>11. Units(body, q, marks(q, backslash), B)
  <2> HIDE DEF B
  <2> QED BY <1>9, <1>10 DEF Units
<1> QED BY <1>11 DEF body

\* A closed text is read up to its last quote, its pairs of quotes made one.
ReadPlain(open, q, backslash, to) ==
  LET body == SubSeq(src, open + 1, to - 1)
      raw  == SubSeq(src, open, to)
  IN  /\ body \in Seq(STRING) /\ Len(raw) >= 2 /\ raw[Len(raw)] = q
      /\ unquoted(raw, q) = merged(body, q, q)
      /\ \E B : Units(body, q, marks(q, backslash), B)

LEMMA ClosedText ==
  ASSUME src \in Seq(STRING), NEW open \in 1..Len(src), NEW q, q # "\\", q # Nothing,
         NEW backslash, src[open] = q,
         NEW to \in closings(src, open, q, backslash),
         to = quotedEnd(src, open, q, backslash)
  PROVE  ReadPlain(open, q, backslash, to)
<1> DEFINE n == Len(src)
           C == closings(src, open, q, backslash)
           body == SubSeq(src, open + 1, to - 1)
           raw == SubSeq(src, open, to)
           tail == Tail(raw)
<1>1. C \in SUBSET ((open + 1)..n) /\ \A c \in C : src[c] = q
  BY DEF closings
<1>2. n \in Nat /\ open \in Nat /\ to \in (open + 1)..n /\ src[to] = q /\ to \in C
  BY <1>1
<1>3. \A c \in C : to <= c
  <2>1. to = least(C)
    BY <1>2 DEF quotedEnd, upTo
  <2> DEFINE a == open + 1
  <2>2. a \in Int /\ n \in Int /\ C # {} /\ C \in SUBSET (a..n)
    BY <1>1, <1>2
  <2> HIDE DEF C, n, a
  <2>3. \A c \in C : least(C) <= c
    BY <2>2, Least
  <2> QED BY <2>1, <2>3
<1>4. /\ raw \in Seq(STRING) /\ Len(raw) = to - open + 1
      /\ \A m \in 1..(to - open + 1) : raw[m] = src[open + m - 1]
  BY <1>2
<1>5. Len(raw) >= 2 /\ raw[Len(raw)] = q
  <2>1. open + (to - open + 1) - 1 = to /\ to - open + 1 \in 1..(to - open + 1)
    BY <1>2
  <2> HIDE DEF raw
  <2> QED BY <1>2, <1>4, <2>1
<1>6. /\ body \in Seq(STRING) /\ Len(body) = to - open - 1
      /\ \A m \in 1..(to - open - 1) : body[m] = src[open + m]
  <2>1. open + 1 \in 1..Len(src) /\ to - 1 \in 0..Len(src) /\ to - 1 >= open
    BY <1>2
  <2>2. body \in Seq(STRING) /\ Len(body) = to - 1 - (open + 1) + 1
    BY <2>1
  <2>3. \A m \in 1..(to - 1 - (open + 1) + 1) : body[m] = src[open + 1 + m - 1]
    BY <2>1
  <2>4. /\ to - 1 - (open + 1) + 1 = to - open - 1
        /\ \A m \in 1..(to - open - 1) : open + 1 + m - 1 = open + m
    BY <1>2
  <2> HIDE DEF body
  <2> QED BY <2>2, <2>3, <2>4
<1>7. /\ tail \in Seq(STRING) /\ Len(tail) = to - open
      /\ \A m \in 1..(to - open) : tail[m] = src[open + m]
  <2>1. /\ tail \in Seq(STRING) /\ Len(tail) = Len(raw) - 1
        /\ \A m \in 1..(Len(raw) - 1) : tail[m] = raw[m + 1]
    <3> HIDE DEF raw
    <3>1. raw \in Seq(STRING) /\ Len(raw) >= 2
      BY <1>4, <1>5
    <3> QED BY <3>1
  <2>2. ASSUME NEW m \in 1..(to - open)
        PROVE  m + 1 \in 1..(to - open + 1) /\ open + (m + 1) - 1 = open + m
    BY <1>2
  <2>3. Len(raw) - 1 = to - open
    BY <1>2, <1>4
  <2> HIDE DEF raw, tail
  <2> QED BY <1>4, <2>1, <2>2, <2>3
<1>8. SubSeq(tail, 1, Len(tail) - 1) = body
  <2> DEFINE u == SubSeq(tail, 1, Len(tail) - 1)
  <2> HIDE DEF tail, body
  <2>1. /\ u \in Seq(STRING) /\ Len(u) = to - open - 1
        /\ \A m \in 1..(to - open - 1) : u[m] = tail[m]
    BY <1>2, <1>7
  <2>2. \A m \in 1..(to - open - 1) : m \in 1..(to - open)
    BY <1>2
  <2>3. \A m \in 1..Len(u) : u[m] = body[m]
    BY <1>6, <1>7, <2>1, <2>2
  <2> HIDE DEF u
  <2>4. u = body
    BY <1>6, <2>1, <2>3, SeqEqual
  <2> QED BY <2>4 DEF u
<1>9. tail[Len(tail)] = q
  <2>1. to - open \in 1..(to - open) /\ open + (to - open) = to
    BY <1>2
  <2> HIDE DEF tail
  <2> QED BY <1>2, <1>7, <2>1
<1>10. unquoted(raw, q) = merged(body, q, q)
  BY <1>8, <1>9 DEF unquoted, merged
<1>11. \E B : Units(body, q, marks(q, backslash), B)
  <2> HIDE DEF C
  <2> QED BY <1>2, <1>3, UnitsOfClosed DEF C
<1> QED BY <1>5, <1>6, <1>10, <1>11 DEF ReadPlain

-----------------------------------------------------------------------------
\* Block comments.

\* What nesting computes.
LEMMA NestingDefined ==
  ASSUME src \in Seq(STRING), NEW k \in 1..Len(src)
  PROVE  LET d == nesting(src, k)
         IN  /\ d[k] = [depth |-> 0, half |-> "/"]
             /\ \A j \in (k + 1)..Len(src) :
                  d[j] = IF d[j - 1].half = "/" /\ src[j] = "*"
                         THEN [depth |-> d[j - 1].depth + 1, half |-> Nothing]
                         ELSE IF d[j - 1].half = "*" /\ src[j] = "/"
                         THEN [depth |-> d[j - 1].depth - 1, half |-> Nothing]
                         ELSE [depth |-> d[j - 1].depth, half |-> src[j]]
<1> DEFINE n == Len(src)
           S == k..n
           H == {src[j] : j \in 1..n} \cup {"/", Nothing}
           V == [depth : Int, half : H]
           step(j, d) == IF j = k THEN [depth |-> 0, half |-> "/"]
                         ELSE IF d[j - 1].half = "/" /\ src[j] = "*"
                         THEN [depth |-> d[j - 1].depth + 1, half |-> Nothing]
                         ELSE IF d[j - 1].half = "*" /\ src[j] = "/"
                         THEN [depth |-> d[j - 1].depth - 1, half |-> Nothing]
                         ELSE [d[j - 1] EXCEPT !.half = src[j]]
           D == [x \in S \X [S -> V] |-> step(x[1], x[2])]
           m == [j \in S |-> j]
<1>1. n \in Nat /\ k \in 1..n /\ k \in Nat
  OBVIOUS
<1>2. ASSUME NEW j \in S, NEW d, j # k => d[j - 1] \in V
      PROVE  /\ step(j, d) \in V
             /\ j # k => step(j, d) = IF d[j - 1].half = "/" /\ src[j] = "*"
                           THEN [depth |-> d[j - 1].depth + 1, half |-> Nothing]
                           ELSE IF d[j - 1].half = "*" /\ src[j] = "/"
                           THEN [depth |-> d[j - 1].depth - 1, half |-> Nothing]
                           ELSE [depth |-> d[j - 1].depth, half |-> src[j]]
  <2>1. src[j] \in H /\ Nothing \in H /\ "/" \in H
    BY <1>1
  <2>2. CASE j = k
    <3>1. [depth |-> 0, half |-> "/"] \in V
      <4> HIDE DEF H
      <4> QED BY <2>1
    <3> HIDE DEF V
    <3> QED BY <2>2, <3>1
  <2>3. CASE j # k
    <3>1. PICK v \in V : v = d[j - 1]
      BY <1>2, <2>3
    <3>2. v.depth \in Int /\ v.half \in H /\ v = [depth |-> v.depth, half |-> v.half]
      <4> HIDE DEF H
      <4> QED OBVIOUS
    <3>3. [v EXCEPT !.half = src[j]] = [depth |-> v.depth, half |-> src[j]]
      BY <3>2
    <3>4. /\ [depth |-> v.depth + 1, half |-> Nothing] \in V
          /\ [depth |-> v.depth - 1, half |-> Nothing] \in V
          /\ [depth |-> v.depth, half |-> src[j]] \in V
      <4> HIDE DEF H
      <4> QED BY <2>1, <3>2
    <3> HIDE DEF V
    <3> QED BY <2>3, <3>1, <3>3, <3>4
  <2> QED BY <2>2, <2>3
<1>3. \A j \in S, d \in [S -> V] : step(j, d) \in V
  <2> SUFFICES ASSUME NEW j \in S, NEW d \in [S -> V]
               PROVE  step(j, d) \in V
    OBVIOUS
  <2>1. ASSUME j # k
        PROVE  d[j - 1] \in V
    <3>1. j - 1 \in S
      BY <1>1, <2>1
    <3> HIDE DEF S, V
    <3> QED BY <3>1
  <2> HIDE DEF S, V, step
  <2> QED BY <1>2, <2>1
<1>4. D \in [S \X [S -> V] -> V]
  <2> HIDE DEF S, V, step
  <2> QED BY <1>3
<1>5. m \in [S -> 0..n]
  BY <1>1
<1>6. ASSUME NEW x \in S, NEW g \in [S -> V], NEW h \in [S -> V],
             \A y \in S : m[y] < m[x] => g[y] = h[y]
      PROVE  D[<<x, g>>] = D[<<x, h>>]
  <2>1. step(x, g) = step(x, h)
    <3>1. CASE x = k
      BY <3>1
    <3>2. CASE x # k
      <4>1. x - 1 \in S /\ m[x - 1] < m[x]
        BY <1>1, <3>2
      <4>2. g[x - 1] = h[x - 1]
        <5> HIDE DEF S, m
        <5> QED BY <1>6, <4>1
      <4> HIDE DEF S, m
      <4> QED BY <4>2
    <3> QED BY <3>1, <3>2
  <2> HIDE DEF step, S, V
  <2> QED BY <2>1
<1>7. \E d \in [S -> V] : d = [x \in S |-> D[<<x, d>>]]
  <2>1. V # {} /\ n \in Nat
    <3>1. [depth |-> 0, half |-> "/"] \in V
      OBVIOUS
    <3> HIDE DEF V
    <3> QED BY <1>1, <3>1
  <2>2. \A x \in S, g, h \in [S -> V] :
          (\A y \in S : m[y] < m[x] => g[y] = h[y]) => D[<<x, g>>] = D[<<x, h>>]
    <3> HIDE DEF S, V, D, m
    <3> QED BY <1>6
  <2>3. Decreasing(S, V, n, m, D)
    <3> HIDE DEF S, V, D, m, n
    <3> QED BY <1>4, <1>5, <2>1, <2>2 DEF Decreasing
  <2> HIDE DEF S, V, D, m, n
  <2> QED BY <2>3, Recursion
<1> DEFINE r == CHOOSE d : d = [j \in S |-> step(j, d)]
<1>8. r = [j \in S |-> step(j, r)]
  <2>1. PICK d \in [S -> V] : d = [x \in S |-> D[<<x, d>>]]
    BY <1>7
  <2>2. d = [x \in S |-> step(x, d)]
    <3> HIDE DEF step, S, V
    <3> QED BY <2>1
  <2> HIDE DEF S, V, step
  <2> QED BY <2>2
<1>9. nesting(src, k) = r
  BY DEF nesting
<1>10. \A j \in S : r[j] = step(j, r)
  <2> HIDE DEF S, step, r
  <2> QED BY <1>8
<1> DEFINE T == {j \in S : r[j] \in V}
<1>11. ASSUME NEW j \in k..n, \A l \in k..(j - 1) : l \in T
       PROVE  j \in T
  <2>1. ASSUME j # k
        PROVE  r[j - 1] \in V
    <3>1. j - 1 \in k..(j - 1)
      BY <1>1, <2>1
    <3> HIDE DEF V, r
    <3> QED BY <1>11, <3>1
  <2>2. r[j] = step(j, r)
    <3> HIDE DEF step, r
    <3> QED BY <1>10
  <2> HIDE DEF V, step, r
  <2> QED BY <1>2, <2>1, <2>2
<1>12. \A j \in k..n : j \in T
  <2>1. \A j \in k..n : (\A l \in k..(j - 1) : l \in T) => j \in T
    BY <1>11
  <2>2. k \in Int /\ n \in Int
    BY <1>1
  <2> HIDE DEF T
  <2> QED BY <2>1, <2>2, Upward
<1>13. r[k] = [depth |-> 0, half |-> "/"]
  <2>1. k \in S
    BY <1>1
  <2> HIDE DEF r
  <2> QED BY <1>10, <2>1
<1>14. ASSUME NEW j \in (k + 1)..n
       PROVE  r[j] = IF r[j - 1].half = "/" /\ src[j] = "*"
                     THEN [depth |-> r[j - 1].depth + 1, half |-> Nothing]
                     ELSE IF r[j - 1].half = "*" /\ src[j] = "/"
                     THEN [depth |-> r[j - 1].depth - 1, half |-> Nothing]
                     ELSE [depth |-> r[j - 1].depth, half |-> src[j]]
  <2>1. j \in S /\ j # k /\ j - 1 \in k..n
    BY <1>1
  <2>2. r[j - 1] \in V
    <3> HIDE DEF V, r
    <3> QED BY <1>12, <2>1
  <2>3. r[j] = step(j, r)
    <3> HIDE DEF step, r
    <3> QED BY <1>10, <2>1
  <2> HIDE DEF V, step, r
  <2> QED BY <1>2, <2>1, <2>2, <2>3
<1> HIDE DEF r
<1> QED BY <1>9, <1>13, <1>14

\* What afterComment computes.
AfterValues(f, k) ==
  /\ afterComment(k) = f[<<k + 2, 1>>]
  /\ \A j \in 1..(Len(src) + 1), e \in Nat :
       f[<<j, e>>] =
         IF e = 0 \/ j > Len(src) THEN j
         ELSE IF src[j] = "/" /\ at(src, j + 1) = "*" THEN f[<<j + 2, e + 1>>]
         ELSE IF src[j] = "*" /\ at(src, j + 1) = "/" THEN f[<<j + 2, e - 1>>]
         ELSE f[<<j + 1, e>>]

LEMMA AfterDefined ==
  ASSUME src \in Seq(STRING), NEW k \in Nat
  PROVE  \E f : AfterValues(f, k)
<1> DEFINE n == Len(src)
           P == 1..(n + 1)
           S == P \X Nat
           step(p, f) ==
             IF p[2] = 0 \/ p[1] > Len(src) THEN p[1]
             ELSE IF src[p[1]] = "/" /\ at(src, p[1] + 1) = "*" THEN f[<<p[1] + 2, p[2] + 1>>]
             ELSE IF src[p[1]] = "*" /\ at(src, p[1] + 1) = "/" THEN f[<<p[1] + 2, p[2] - 1>>]
             ELSE f[<<p[1] + 1, p[2]>>]
           D == [x \in S \X [S -> P] |-> step(x[1], x[2])]
           m == [p \in S |-> n + 1 - p[1]]
<1>1. n \in Nat
  OBVIOUS
<1>2. ASSUME NEW p \in S, p[2] # 0, ~(p[1] > Len(src))
      PROVE  /\ <<p[1] + 1, p[2]>> \in S
             /\ m[<<p[1] + 1, p[2]>>] < m[p]
             /\ at(src, p[1] + 1) # Nothing =>
                  /\ <<p[1] + 2, p[2] + 1>> \in S /\ <<p[1] + 2, p[2] - 1>> \in S
                  /\ m[<<p[1] + 2, p[2] + 1>>] < m[p] /\ m[<<p[1] + 2, p[2] - 1>>] < m[p]
  <2>1. p[1] \in 1..n /\ p[2] \in Nat /\ p[2] - 1 \in Nat
    BY <1>1, <1>2
  <2>2. at(src, p[1] + 1) # Nothing => p[1] + 2 \in P
    BY <1>1, <2>1 DEF at
  <2>3. <<p[1] + 1, p[2]>> \in S /\ p[1] + 1 \in P
    BY <1>1, <2>1
  <2>4. at(src, p[1] + 1) # Nothing =>
          <<p[1] + 2, p[2] + 1>> \in S /\ <<p[1] + 2, p[2] - 1>> \in S
    <3> HIDE DEF P
    <3> QED BY <2>1, <2>2
  <2>5. \A j, e : <<j, e>> \in S => m[<<j, e>>] = n + 1 - j
    <3> HIDE DEF P
    <3> QED OBVIOUS
  <2>6. m[p] = n + 1 - p[1]
    OBVIOUS
  <2> HIDE DEF m, S
  <2>7. m[<<p[1] + 1, p[2]>>] < m[p]
    BY <1>1, <2>1, <2>3, <2>5, <2>6
  <2>8. ASSUME at(src, p[1] + 1) # Nothing
        PROVE  m[<<p[1] + 2, p[2] + 1>>] < m[p] /\ m[<<p[1] + 2, p[2] - 1>>] < m[p]
    <3>1. /\ m[<<p[1] + 2, p[2] + 1>>] = n + 1 - (p[1] + 2)
          /\ m[<<p[1] + 2, p[2] - 1>>] = n + 1 - (p[1] + 2)
      BY <2>4, <2>5, <2>8
    <3> QED BY <1>1, <2>1, <2>6, <3>1
  <2> QED BY <2>3, <2>4, <2>7, <2>8
<1>3. "*" # Nothing /\ "/" # Nothing
  BY Zenon DEF Nothing
<1>4. \A p \in S, f \in [S -> P] : step(p, f) \in P
  <2> SUFFICES ASSUME NEW p \in S, NEW f \in [S -> P]
               PROVE  step(p, f) \in P
    OBVIOUS
  <2>1. \A x \in S : f[x] \in P
    <3> HIDE DEF S, P
    <3> QED OBVIOUS
  <2>2. p[1] \in P
    <3> HIDE DEF P
    <3> QED OBVIOUS
  <2>3. CASE p[2] = 0 \/ p[1] > Len(src)
    <3> HIDE DEF P
    <3> QED BY <2>2, <2>3
  <2>4. CASE ~(p[2] = 0 \/ p[1] > Len(src))
    <3> HIDE DEF P, S, m
    <3> QED BY <1>2, <1>3, <2>1, <2>4
  <2> QED BY <2>3, <2>4
<1>5. D \in [S \X [S -> P] -> P]
  <2> HIDE DEF S, P, step
  <2> QED BY <1>4
<1>6. m \in [S -> 0..n]
  <2>1. \A p \in S : p[1] \in P
    <3> HIDE DEF P
    <3> QED OBVIOUS
  <2> QED BY <1>1, <2>1
<1>7. ASSUME NEW x \in S, NEW g \in [S -> P], NEW h \in [S -> P],
             \A y \in S : m[y] < m[x] => g[y] = h[y]
      PROVE  D[<<x, g>>] = D[<<x, h>>]
  <2>1. step(x, g) = step(x, h)
    <3>1. CASE x[2] = 0 \/ x[1] > Len(src)
      BY <3>1
    <3>2. CASE ~(x[2] = 0 \/ x[1] > Len(src))
      <4> HIDE DEF P, S, m
      <4> QED BY <1>2, <1>3, <1>7, <3>2
    <3> QED BY <3>1, <3>2
  <2> HIDE DEF step, S, P
  <2> QED BY <2>1
<1>8. \E f \in [S -> P] : f = [x \in S |-> D[<<x, f>>]]
  <2>1. P # {} /\ n \in Nat
    <3>1. 1 \in P
      BY <1>1
    <3> HIDE DEF P
    <3> QED BY <1>1, <3>1
  <2>2. \A x \in S, g, h \in [S -> P] :
          (\A y \in S : m[y] < m[x] => g[y] = h[y]) => D[<<x, g>>] = D[<<x, h>>]
    <3> HIDE DEF S, P, D, m
    <3> QED BY <1>7
  <2>3. Decreasing(S, P, n, m, D)
    <3> HIDE DEF S, P, D, m, n
    <3> QED BY <1>5, <1>6, <2>1, <2>2 DEF Decreasing
  <2> HIDE DEF S, P, D, m, n
  <2> QED BY <2>3, Recursion
<1> DEFINE r == CHOOSE f : f = [p \in S |-> step(p, f)]
<1>9. r = [p \in S |-> step(p, r)]
  <2>1. PICK f \in [S -> P] : f = [x \in S |-> D[<<x, f>>]]
    BY <1>8
  <2>2. f = [x \in S |-> step(x, f)]
    <3> HIDE DEF step, S, P
    <3> QED BY <2>1
  <2> HIDE DEF S, P, step
  <2> QED BY <2>2
<1>10. afterComment(k) = r[<<k + 2, 1>>]
  BY DEF afterComment
<1>11. \A p \in S : r[p] = step(p, r)
  <2> HIDE DEF S, step, r
  <2> QED BY <1>9
<1>12. ASSUME NEW j \in 1..(n + 1), NEW e \in Nat
       PROVE  r[<<j, e>>] =
                IF e = 0 \/ j > Len(src) THEN j
                ELSE IF src[j] = "/" /\ at(src, j + 1) = "*" THEN r[<<j + 2, e + 1>>]
                ELSE IF src[j] = "*" /\ at(src, j + 1) = "/" THEN r[<<j + 2, e - 1>>]
                ELSE r[<<j + 1, e>>]
  <2>1. <<j, e>> \in S
    BY <1>12
  <2>2. r[<<j, e>>] = step(<<j, e>>, r)
    <3> HIDE DEF step, r, S
    <3> QED BY <1>11, <2>1
  <2> HIDE DEF r
  <2>3. <<j, e>>[1] = j /\ <<j, e>>[2] = e
    OBVIOUS
  <2> QED BY <2>2, <2>3
<1> HIDE DEF r
<1>13. AfterValues(r, k)
  BY <1>10, <1>12 DEF AfterValues
<1> QED BY <1>13

\* The scan of a block comment stops where PostgreSQL's does: the depth it has
\* reached is that of the nesting, which has not come back to none, and the
\* symbol before does not pair with the next.
LEMMA CommentRight ==
  ASSUME src \in Seq(STRING), NEW k \in 1..Len(src), src[k] = "/", at(src, k + 1) = "*"
  PROVE  /\ afterComment(k) \in (k + 1)..(Len(src) + 1)
         /\ afterComment(k) - 1 = commentEnd(src, k)
<1> DEFINE n == Len(src)
           d == nesting(src, k)
           C == {c \in (k + 2)..n : d[c].depth = 0}
           end == commentEnd(src, k)
           pairs(j) == \/ d[j - 1].half = "/" /\ src[j] = "*"
                       \/ d[j - 1].half = "*" /\ src[j] = "/"
           Inside(j, e) == /\ \A c \in C : j <= c
                           /\ j <= n => d[j - 1].depth = e /\ ~pairs(j)
<1>1. n \in Nat /\ n = Len(src) /\ k \in 1..n /\ k + 1 \in 1..n /\ src[k + 1] = "*"
  <2>1. "*" # Nothing
    BY Zenon DEF Nothing
  <2> QED BY <2>1 DEF at
<1>2. PICK f : AfterValues(f, k)
  <2>1. k \in Nat
    OBVIOUS
  <2> QED BY <2>1, AfterDefined
<1>3. /\ afterComment(k) = f[<<k + 2, 1>>]
      /\ \A j \in 1..(n + 1), e \in Nat :
           f[<<j, e>>] =
             IF e = 0 \/ j > n THEN j
             ELSE IF src[j] = "/" /\ at(src, j + 1) = "*" THEN f[<<j + 2, e + 1>>]
             ELSE IF src[j] = "*" /\ at(src, j + 1) = "/" THEN f[<<j + 2, e - 1>>]
             ELSE f[<<j + 1, e>>]
  BY <1>2 DEF AfterValues
<1>4. /\ d[k] = [depth |-> 0, half |-> "/"]
      /\ \A j \in (k + 1)..n :
           d[j] = IF d[j - 1].half = "/" /\ src[j] = "*"
                  THEN [depth |-> d[j - 1].depth + 1, half |-> Nothing]
                  ELSE IF d[j - 1].half = "*" /\ src[j] = "/"
                  THEN [depth |-> d[j - 1].depth - 1, half |-> Nothing]
                  ELSE [depth |-> d[j - 1].depth, half |-> src[j]]
  BY NestingDefined
<1>5. ASSUME NEW j \in k..n, j + 1 <= n
      PROVE  /\ d[j].half = "/" /\ src[j + 1] = "*" =>
                  d[j + 1] = [depth |-> d[j].depth + 1, half |-> Nothing]
             /\ d[j].half = "*" /\ src[j + 1] = "/" =>
                  d[j + 1] = [depth |-> d[j].depth - 1, half |-> Nothing]
  <2>1. j + 1 \in (k + 1)..n /\ j + 1 - 1 = j
    BY <1>1, <1>5
  <2>2. d[j + 1] = IF d[j].half = "/" /\ src[j + 1] = "*"
                   THEN [depth |-> d[j].depth + 1, half |-> Nothing]
                   ELSE IF d[j].half = "*" /\ src[j + 1] = "/"
                   THEN [depth |-> d[j].depth - 1, half |-> Nothing]
                   ELSE [depth |-> d[j].depth, half |-> src[j + 1]]
    <3> HIDE DEF d
    <3> QED BY <1>4, <2>1
  <2> HIDE DEF d
  <2> QED BY <2>2
<1>6. C \in SUBSET ((k + 2)..n)
  OBVIOUS
<1>7. C = {} => end = n
  BY DEF commentEnd, upTo
<1>8. ASSUME NEW c \in C, \A j \in C : c <= j
      PROVE  end = c
  <2>1. k + 2 \in Int /\ n \in Int
    BY <1>1
  <2>2. upTo(src, C) = c
    <3> HIDE DEF C, n
    <3> QED BY <1>6, <1>8, <2>1, UpToIs
  <2> QED BY <2>2 DEF commentEnd
<1>9. Nothing # "/" /\ Nothing # "*"
  BY Zenon DEF Nothing
<1>10. \A j \in (k + 2)..n : j \in C <=> d[j].depth = 0
  OBVIOUS
<1> HIDE DEF n, d, C, end
<1>11. Inside(k + 2, 1)
  <2>1. d[k + 1] = [depth |-> 1, half |-> Nothing]
    <3>1. k \in k..n /\ k + 1 <= n
      BY <1>1
    <3>2. d[k].half = "/" /\ d[k].depth = 0
      BY <1>4
    <3>3. d[k + 1] = [depth |-> d[k].depth + 1, half |-> Nothing]
      BY <1>1, <1>5, <3>1, <3>2
    <3> QED BY <3>2, <3>3
  <2>2. k + 2 - 1 = k + 1
    BY <1>1
  <2>3. \A c \in C : k + 2 <= c
    BY <1>1, <1>6
  <2>4. d[k + 1].depth = 1 /\ d[k + 1].half = Nothing
    BY <2>1
  <2> QED BY <1>9, <2>2, <2>3, <2>4
<1> DEFINE T == {j \in (k + 2)..(n + 1) :
                   \A e \in Nat \ {0} : Inside(j, e) => f[<<j, e>>] = end + 1 /\ end \in k..n}
<1>12. ASSUME NEW j \in (k + 2)..(n + 1), \A l \in (j + 1)..(n + 1) : l \in T,
             NEW e \in Nat \ {0}, Inside(j, e)
      PROVE  f[<<j, e>>] = end + 1 /\ end \in k..n
  <2>1. j \in 1..(n + 1) /\ j \in Nat /\ e \in Nat /\ e # 0
    BY <1>1
  <2>2. CASE j > n
    <3>1. C = {}
      BY <1>1, <1>6, <1>12, <2>1, <2>2
    <3>2. f[<<j, e>>] = j
      BY <1>3, <2>1, <2>2
    <3>3. j = n + 1
      BY <1>1, <2>1, <2>2
    <3> QED BY <1>1, <1>7, <3>1, <3>2, <3>3
  <2>3. CASE j <= n
    <3>1. j \in (k + 1)..n /\ j \in (k + 2)..n /\ ~(j > n) /\ j + 1 \in (k + 2)..(n + 1)
          /\ j + 1 \in (j + 1)..(n + 1) /\ j + 1 - 1 = j /\ j + 2 - 1 = j + 1
      BY <1>1, <2>1, <2>3
    <3>2. d[j] = [depth |-> e, half |-> src[j]]
      BY <1>4, <1>12, <2>3, <3>1
    <3>3. j \notin C
      <4>1. d[j].depth = e
        BY <3>2
      <4> QED BY <1>10, <2>1, <3>1, <4>1
    <3>4. \A c \in C : j + 1 <= c
      <4>1. \A c \in C : c \in Int /\ j <= c /\ c # j
        BY <1>1, <1>6, <1>12, <3>3
      <4> QED BY <2>1, <4>1
    <3>5. ASSUME at(src, j + 1) # Nothing
          PROVE  /\ j + 1 \in (k + 1)..n /\ j + 1 \in (k + 2)..n /\ at(src, j + 1) = src[j + 1]
                 /\ j + 2 \in (k + 2)..(n + 1) /\ j + 2 \in (j + 1)..(n + 1)
                 /\ j + 2 \in 1..(n + 1)
      <4>1. j + 1 \in 1..Len(src) /\ at(src, j + 1) = src[j + 1]
        BY <3>5 DEF at
      <4> QED BY <1>1, <2>1, <3>1, <4>1
    <3>6. d[j].half = src[j] /\ d[j].depth = e
      BY <3>2
    <3>7. CASE src[j] = "/" /\ at(src, j + 1) = "*"
      <4>1. /\ j + 1 \in (k + 1)..n /\ j + 1 \in (k + 2)..n /\ src[j + 1] = "*"
            /\ j + 2 \in (k + 2)..(n + 1) /\ j + 2 \in (j + 1)..(n + 1)
        BY <1>9, <3>5, <3>7
      <4>2. j \in k..n /\ j + 1 <= n
        BY <1>1, <2>1, <4>1
      <4>3. d[j + 1] = [depth |-> e + 1, half |-> Nothing]
        BY <1>5, <3>1, <3>7, <3>6, <4>1, <4>2
      <4>4. d[j + 1].depth = e + 1 /\ d[j + 1].half = Nothing
        BY <4>3
      <4>5. \A c \in C : j + 2 <= c
        <5>1. j + 1 \notin C
          BY <1>10, <2>1, <4>1, <4>4
        <5>2. \A c \in C : c \in Int /\ c # j + 1
          BY <1>1, <1>6, <5>1
        <5> QED BY <2>1, <3>4, <5>2
      <4>6. Inside(j + 2, e + 1)
        BY <1>9, <3>1, <4>4, <4>5
      <4>7. f[<<j, e>>] = f[<<j + 2, e + 1>>]
        BY <1>3, <2>1, <3>1, <3>7
      <4>8. e + 1 \in Nat \ {0}
        BY <2>1
      <4>9. j + 2 \in T
        BY <1>12, <4>1
      <4> HIDE DEF Inside
      <4> QED BY <4>6, <4>7, <4>8, <4>9
    <3>8. CASE src[j] = "*" /\ at(src, j + 1) = "/"
      <4>1. /\ j + 1 \in (k + 1)..n /\ j + 1 \in (k + 2)..n /\ src[j + 1] = "/"
            /\ j + 2 \in (k + 2)..(n + 1) /\ j + 2 \in (j + 1)..(n + 1) /\ j + 2 \in 1..(n + 1)
        BY <1>9, <3>5, <3>8
      <4>2. j \in k..n /\ j + 1 <= n
        BY <1>1, <2>1, <4>1
      <4>3. d[j + 1] = [depth |-> e - 1, half |-> Nothing]
        BY <1>5, <3>1, <3>8, <3>6, <4>1, <4>2
      <4>4. d[j + 1].depth = e - 1 /\ d[j + 1].half = Nothing
        BY <4>3
      <4>5. f[<<j, e>>] = f[<<j + 2, e - 1>>]
        BY <1>3, <2>1, <3>1, <3>8
      <4>6. CASE e = 1
        <5>1. j + 1 \in C
          BY <1>10, <4>1, <4>4, <4>6
        <5>2. end = j + 1
          BY <1>8, <3>4, <5>1
        <5>3. f[<<j + 2, 0>>] = j + 2
          BY <1>3, <4>1
        <5>4. end \in k..n /\ end + 1 = j + 2
          BY <1>1, <2>1, <4>1, <5>2
        <5> QED BY <4>6, <4>5, <5>3, <5>4
      <4>7. CASE e # 1
        <5>1. e - 1 \in Nat \ {0}
          BY <2>1, <4>7
        <5>2. \A c \in C : j + 2 <= c
          <6>1. j + 1 \notin C
            BY <1>10, <5>1, <4>1, <4>4
          <6>2. \A c \in C : c \in Int /\ c # j + 1
            BY <1>1, <1>6, <6>1
          <6> QED BY <2>1, <3>4, <6>2
        <5>3. Inside(j + 2, e - 1)
          BY <1>9, <3>1, <4>4, <5>2
        <5>4. j + 2 \in T
          BY <1>12, <4>1
        <5> HIDE DEF Inside
        <5> QED BY <4>5, <5>1, <5>3, <5>4
      <4> QED BY <4>6, <4>7
    <3>9. CASE ~(src[j] = "/" /\ at(src, j + 1) = "*") /\ ~(src[j] = "*" /\ at(src, j + 1) = "/")
      <4>1. j + 1 <= n => at(src, j + 1) = src[j + 1]
        BY <1>1, <2>1 DEF at
      <4>2. Inside(j + 1, e)
        BY <3>1, <3>4, <3>9, <3>6, <4>1
      <4>3. f[<<j, e>>] = f[<<j + 1, e>>]
        BY <1>3, <2>1, <3>1, <3>9
      <4>4. j + 1 \in T
        BY <1>12, <3>1
      <4> HIDE DEF Inside
      <4> QED BY <1>12, <4>2, <4>3, <4>4
    <3> QED BY <3>7, <3>8, <3>9
  <2> QED BY <1>1, <2>1, <2>2, <2>3
<1>13. \A j \in (k + 2)..(n + 1) : j \in T
  <2>1. \A j \in (k + 2)..(n + 1) : (\A l \in (j + 1)..(n + 1) : l \in T) => j \in T
    <3> HIDE DEF Inside
    <3> QED BY <1>12
  <2>2. k + 2 \in Int /\ n + 1 \in Int
    BY <1>1
  <2> HIDE DEF T
  <2> QED BY <2>1, <2>2, Downward
<1>14. k + 2 \in (k + 2)..(n + 1)
  BY <1>1
<1>15. f[<<k + 2, 1>>] = end + 1 /\ end \in k..n
  <2> HIDE DEF Inside
  <2> QED BY <1>11, <1>13, <1>14
<1> QED BY <1>1, <1>3, <1>15 DEF end, n

-----------------------------------------------------------------------------
\* Dollar quotes and operators.

\* The delimiter ends at the first symbol that is no letter, if that is a $.
LEMMA DelimiterRight ==
  ASSUME src \in Seq(STRING), NEW k \in 1..Len(src), src[k] = "$"
  PROVE  LET j == past(k + 1, Word)
         IN  /\ j \in (k + 1)..(Len(src) + 1)
             /\ at(src, j) = "$" => j \in 1..Len(src) /\ delimiterEnd(src, k) = j
             /\ at(src, j) # "$" => delimiterEnd(src, k) = 0
<1> DEFINE n == Len(src)
           j == past(k + 1, Word)
           ends == {e \in (k + 1)..n :
                      src[e] = "$" /\ \A m \in (k + 1)..(e - 1) : src[m] \in Word}
<1>1. n \in Nat /\ n = Len(src) /\ k \in 1..n /\ k + 1 \in 1..(n + 1)
  OBVIOUS
<1>2. /\ j \in (k + 1)..(n + 1)
      /\ j = n + 1 \/ src[j] \notin Word
      /\ \A m \in (k + 1)..(j - 1) : src[m] \in Word
  BY <1>1, Past
<1>3. "$" \notin Word /\ "$" # Nothing
  <2>1. "$" \notin Word
    BY TextAssumption
  <2>2. "$" # Nothing
    BY Zenon DEF Nothing
  <2> QED BY <2>1, <2>2
<1>4. ends \in SUBSET ((k + 1)..n)
  OBVIOUS
<1> HIDE DEF j
<1>5. ASSUME NEW e \in ends
      PROVE  e = j
  <2>1. e \in (k + 1)..n /\ src[e] = "$" /\ \A m \in (k + 1)..(e - 1) : src[m] \in Word
    OBVIOUS
  <2>2. ~(e < j)
    <3> SUFFICES ASSUME e < j PROVE FALSE
      OBVIOUS
    <3>1. e \in (k + 1)..(j - 1)
      BY <1>1, <1>2, <2>1
    <3> QED BY <1>2, <1>3, <2>1, <3>1
  <2>3. ~(j < e)
    <3> SUFFICES ASSUME j < e PROVE FALSE
      OBVIOUS
    <3>1. j \in (k + 1)..(e - 1) /\ j # n + 1
      BY <1>1, <1>2, <2>1
    <3> QED BY <1>2, <2>1, <3>1
  <2>4. e \in Int /\ j \in Int
    BY <1>1, <1>2, <2>1
  <2> HIDE DEF ends
  <2> QED BY <2>2, <2>3, <2>4
<1>6. ASSUME at(src, j) = "$"
      PROVE  j \in 1..n /\ delimiterEnd(src, k) = j
  <2>1. j \in 1..n /\ src[j] = "$"
    BY <1>3, <1>6 DEF at
  <2>2. j \in ends
    BY <1>1, <1>2, <2>1
  <2>3. least(ends) = j
    <3>1. k + 1 \in Int /\ n \in Int
      BY <1>1
    <3>2. \A e \in ends : j <= e
      <4>1. j \in Int
        BY <2>1
      <4> HIDE DEF ends
      <4> QED BY <1>5, <4>1
    <3> HIDE DEF ends, n
    <3> QED BY <1>4, <2>2, <3>1, <3>2, LeastIs
  <2> QED BY <2>1, <2>2, <2>3 DEF delimiterEnd
<1>7. ASSUME at(src, j) # "$"
      PROVE  delimiterEnd(src, k) = 0
  <2>1. ends = {}
    <3> SUFFICES ASSUME NEW e \in ends PROVE FALSE
      OBVIOUS
    <3>1. e = j
      BY <1>5
    <3>2. e \in 1..n /\ src[e] = "$"
      BY <1>1
    <3> QED BY <1>7, <3>1, <3>2 DEF at
  <2> QED BY <2>1 DEF delimiterEnd
<1> QED BY <1>1, <1>2, <1>6, <1>7 DEF j

\* And the text ends with the first delimiter like it.
LEMMA DollarRight ==
  ASSUME src \in Seq(STRING), NEW k \in 1..Len(src), NEW j \in (k + 1)..Len(src),
         delimiterEnd(src, k) = j
  PROVE  LET delim == SubSeq(src, k, j)
             close == {c \in (j + 1)..Len(src) : isAt(src, c, delim)}
         IN  /\ close = {} <=> dollarEnds(src, k) = {}
             /\ close = {} => dollarEnd(src, k) = Len(src)
             /\ close # {} => /\ least(close) \in (j + 1)..Len(src)
                              /\ least(close) + Len(delim) \in (k + 1)..(Len(src) + 1)
                              /\ least(close) + Len(delim) - 1 = dollarEnd(src, k)
<1> DEFINE n == Len(src)
           delim == SubSeq(src, k, j)
           close == {c \in (j + 1)..n : isAt(src, c, delim)}
           size == j - k
           ends == {e \in (j + size + 1)..n : SubSeq(src, e - size, e) = SubSeq(src, k, j)}
<1>1. n \in Nat /\ n = Len(src) /\ k \in 1..n /\ j \in (k + 1)..n
  OBVIOUS
<1>2. Len(delim) = size + 1 /\ size \in Nat
  BY <1>1
<1>3. dollarEnds(src, k) = ends /\ dollarEnd(src, k) = upTo(src, ends)
  BY DEF dollarEnds, dollarEnd
<1>4. \A c \in (j + 1)..n : c \in close <=> c + size <= n /\ SubSeq(src, c, c + size) = delim
  <2> SUFFICES ASSUME NEW c \in (j + 1)..n
               PROVE  isAt(src, c, delim) <=> c + size <= n /\ SubSeq(src, c, c + size) = delim
    OBVIOUS
  <2>1. c + Len(delim) - 1 = c + size
    <3> HIDE DEF delim
    <3> QED BY <1>1, <1>2
  <2> HIDE DEF delim
  <2> QED BY <2>1 DEF isAt
<1>5. \A e \in (j + size + 1)..n : e \in ends <=> SubSeq(src, e - size, e) = delim
  OBVIOUS
<1>6. close \in SUBSET ((j + 1)..n) /\ ends \in SUBSET ((j + size + 1)..n)
  OBVIOUS
<1> HIDE DEF n, delim, close, size, ends
<1>7. ASSUME NEW c \in close
      PROVE  c + size \in ends
  <2>1. c \in (j + 1)..n /\ c + size <= n /\ SubSeq(src, c, c + size) = delim
    BY <1>4, <1>6
  <2>2. PICK e \in (j + size + 1)..n : e = c + size /\ e - size = c
    BY <1>1, <1>2, <2>1
  <2>3. SubSeq(src, e - size, e) = delim
    BY <2>1, <2>2
  <2> QED BY <1>5, <2>2, <2>3
<1>8. ASSUME NEW e \in ends
      PROVE  e - size \in close
  <2>1. e \in (j + size + 1)..n /\ SubSeq(src, e - size, e) = delim
    BY <1>5, <1>6
  <2>2. e - size \in (j + 1)..n /\ e - size + size = e /\ e <= n
    BY <1>1, <1>2, <2>1
  <2> QED BY <1>4, <2>1, <2>2
<1>9. ASSUME close = {}
      PROVE  dollarEnd(src, k) = n
  <2>1. ends = {}
    BY <1>8, <1>9
  <2> QED BY <1>3, <2>1 DEF upTo, n
<1>10. ASSUME close # {}
       PROVE  /\ least(close) \in (j + 1)..n
              /\ least(close) + Len(delim) \in (k + 1)..(n + 1)
              /\ least(close) + Len(delim) - 1 = dollarEnd(src, k)
  <2>1. PICK c \in close : c = least(close) /\ \A x \in close : c <= x
    <3>1. j + 1 \in Int /\ n \in Int
      BY <1>1
    <3> QED BY <1>6, <1>10, <3>1, Least
  <2>2. c \in (j + 1)..n /\ c + size <= n
    BY <1>4, <1>6
  <2>3. \A e \in ends : c + size <= e
    <3> SUFFICES ASSUME NEW e \in ends
                 PROVE  c + size <= e
      OBVIOUS
    <3>1. c <= e - size
      BY <1>8, <2>1
    <3>2. e \in Int
      BY <1>1, <1>2, <1>6
    <3> QED BY <1>1, <1>2, <2>2, <3>1, <3>2
  <2>4. upTo(src, ends) = c + size
    <3>1. j + size + 1 \in Int /\ n \in Int
      BY <1>1, <1>2
    <3> QED BY <1>6, <1>7, <2>3, <3>1, UpToIs
  <2> QED BY <1>1, <1>2, <1>3, <2>1, <2>2, <2>4
<1>11. close = {} <=> ends = {}
  BY <1>7, <1>8
<1> QED BY <1>3, <1>9, <1>10, <1>11 DEF n, delim, close

\* PostgreSQL's operator is within the text; it goes as far as it may.
LEMMA OpEndIn ==
  ASSUME NEW s, Len(s) \in Nat, NEW k \in 1..Len(s)
  PROVE  /\ opEnd(s, k) \in k..Len(s)
         /\ s[k] \in OpChar => /\ opReach(s, k) \in k..Len(s) /\ opEnd(s, k) \in opEnds(s, k)
                               /\ \A j \in opEnds(s, k) : j <= opEnd(s, k)
         /\ s[k] \notin OpChar =>
              opEnd(s, k) = IF pairAt(s, k) \in {<<":", ":">>, <<":", "=">>, <<".", ".">>}
                            THEN k + 1 ELSE k
<1> DEFINE n == Len(s)
           stops == {m \in k..n : at(s, m + 1) \notin OpChar \/ opensComment(s, m + 1)}
<1>1. n \in Nat /\ n = Len(s) /\ k \in k..n /\ k \in Int /\ n \in Int
  OBVIOUS
<1>2. opReach(s, k) \in k..n
  <2>1. CASE stops = {}
    BY <1>1, <2>1 DEF opReach, upTo
  <2>2. CASE stops # {}
    <3>1. stops \in SUBSET Nat
      BY <1>1
    <3>2. least(stops) \in stops
      <4> HIDE DEF stops
      <4> QED BY <2>2, <3>1, LeastNatural DEF least
    <3>3. opReach(s, k) = least(stops)
      BY <2>2 DEF opReach, upTo
    <3> QED BY <3>2, <3>3
  <2> QED BY <2>1, <2>2
<1>3. CASE s[k] \in OpChar
  <2> DEFINE ends == opEnds(s, k)
  <2>1. ends \in SUBSET (k..n) /\ k \in ends
    BY <1>1, <1>2 DEF opEnds
  <2>2. opEnd(s, k) = CHOOSE e \in ends : \A j \in ends : j <= e
    BY <1>3 DEF opEnd
  <2> HIDE DEF ends, n
  <2>3. \E e \in ends : \A j \in ends : j <= e
    BY <1>1, <2>1, Greatest
  <2>4. opEnd(s, k) \in ends /\ \A j \in ends : j <= opEnd(s, k)
    BY <2>2, <2>3
  <2> QED BY <1>2, <1>3, <2>1, <2>4 DEF ends, n
<1>4. CASE s[k] \notin OpChar
  <2>1. opEnd(s, k) = IF pairAt(s, k) \in {<<":", ":">>, <<":", "=">>, <<".", ".">>}
                      THEN k + 1 ELSE k
    BY <1>4 DEF opEnd
  <2>2. pairAt(s, k) \in {<<":", ":">>, <<":", "=">>, <<".", ".">>} => k + 1 \in k..n
    <3> SUFFICES ASSUME pairAt(s, k) \in {<<":", ":">>, <<":", "=">>, <<".", ".">>}
                 PROVE  k + 1 \in k..n
      OBVIOUS
    <3>1. at(s, k + 1) # Nothing
      <4>1. at(s, k + 1) \in {":", "=", "."}
        BY DEF pairAt
      <4>2. Nothing \notin {":", "=", "."}
        BY Zenon DEF Nothing
      <4> QED BY <4>1, <4>2
    <3> QED BY <1>1, <3>1 DEF at
  <2> QED BY <1>1, <1>4, <2>1, <2>2
<1> QED BY <1>3, <1>4

\* What the table says of each of its operators.
LEMMA TableOperator ==
  ASSUME NEW op \in MultiOps
  PROVE  /\ op \in Seq(STRING) /\ Len(op) \in Nat /\ Len(op) >= 2 /\ opEnd(op, 1) = Len(op)
         /\ op[1] # "$"
<1>1. op \in Seq(STRING) /\ Len(op) >= 2 /\ opEnd(op, 1) = Len(op)
  BY OperatorsAssumption
<1>2. Len(op) \in Nat /\ 1 \in 1..Len(op)
  BY <1>1
<1>3. op[1] # "$"
  <2> SUFFICES ASSUME op[1] = "$" PROVE FALSE
    OBVIOUS
  <2>1. op[1] \notin OpChar
    BY DEF OpChar, OpMark
  <2>2. pairAt(op, 1) \notin {<<":", ":">>, <<":", "=">>, <<".", ".">>}
    BY <1>2 DEF pairAt, at
  <2>3. opEnd(op, 1) = 1
    BY <1>2, <2>1, <2>2, OpEndIn
  <2> QED BY <1>1, <2>3
<1> QED BY <1>1, <1>2, <1>3

\* An operator of the table that stands there and is not torn is PostgreSQL's
\* operator or the start of it.
LEMMA StandsWithin ==
  ASSUME src \in Seq(STRING), NEW k \in 1..Len(src), ~torn(src, k),
         NEW op \in MultiOps, isAt(src, k, op)
  PROVE  k + Len(op) - 1 <= opEnd(src, k)
<1> DEFINE n == Len(src)
           e == k + Len(op) - 1
<1>1. n \in Nat /\ n = Len(src) /\ k \in 1..n
  OBVIOUS
<1>2. /\ op \in Seq(STRING) /\ Len(op) \in Nat /\ Len(op) >= 2 /\ opEnd(op, 1) = Len(op)
  BY TableOperator
<1>3. e \in (k + 1)..n /\ SubSeq(src, k, e) = op
  BY <1>1, <1>2 DEF isAt
<1>4. \A m \in k..e : src[m] = op[m - k + 1] /\ m - k + 1 \in 1..Len(op)
  <2> SUFFICES ASSUME NEW m \in k..e
               PROVE  src[m] = op[m - k + 1] /\ m - k + 1 \in 1..Len(op)
    OBVIOUS
  <2>1. m - k + 1 \in 1..Len(op) /\ k + (m - k + 1) - 1 = m
    BY <1>1, <1>2, <1>3
  <2>2. SubSeq(src, k, e)[m - k + 1] = src[k + (m - k + 1) - 1]
    BY <1>1, <1>2, <1>3, <2>1
  <2> QED BY <1>3, <2>1, <2>2
<1>5. ~opensComment(src, e)
  <2>1. SubSeq(src, k, e) \in MultiOps
    BY <1>3
  <2> QED BY <1>3, <2>1 DEF torn
<1>6. 1 \in 1..Len(op) /\ src[k] = op[1]
  <2>1. k \in k..e /\ k - k + 1 = 1
    BY <1>1, <1>3
  <2> QED BY <1>2, <1>4, <2>1
<1>7. \A m \in k..(e - 1) : pairAt(src, m) = pairAt(op, m - k + 1)
  <2> SUFFICES ASSUME NEW m \in k..(e - 1)
               PROVE  pairAt(src, m) = pairAt(op, m - k + 1)
    OBVIOUS
  <2>1. m \in k..e /\ m + 1 \in k..e /\ m \in 1..n /\ m + 1 \in 1..n
    BY <1>1, <1>3
  <2>2. m + 1 - k + 1 = m - k + 1 + 1
    BY <1>1
  <2>3. /\ src[m] = op[m - k + 1] /\ m - k + 1 \in 1..Len(op)
        /\ src[m + 1] = op[m - k + 1 + 1] /\ m - k + 1 + 1 \in 1..Len(op)
    BY <1>4, <2>1, <2>2
  <2> HIDE DEF e, n
  <2> QED BY <1>1, <2>1, <2>3 DEF pairAt, at
<1>8. CASE op[1] \notin OpChar
  <2>1. /\ Len(op) = 2
        /\ pairAt(op, 1) \in {<<":", ":">>, <<":", "=">>, <<".", ".">>}
    BY <1>2, <1>6, <1>8, OpEndIn
  <2>2. e = k + 1 /\ k \in k..(e - 1) /\ k - k + 1 = 1
    BY <1>1, <2>1
  <2>3. pairAt(src, k) \in {<<":", ":">>, <<":", "=">>, <<".", ".">>}
    BY <1>7, <2>1, <2>2
  <2>4. opEnd(src, k) = k + 1
    BY <1>1, <1>6, <1>8, <2>3, OpEndIn
  <2> QED BY <1>1, <2>2, <2>4
<1>9. CASE op[1] \in OpChar
  <2>1. Len(op) \in opEnds(op, 1) /\ opReach(op, 1) \in 1..Len(op)
    BY <1>2, <1>6, <1>9, OpEndIn
  <2>2. /\ opReach(op, 1) = Len(op)
        /\ op[Len(op)] \notin {"+", "-"} \/ \E m \in 1..Len(op) : op[m] \in OpMark
    BY <1>2, <2>1 DEF opEnds
  <2>3. \A m \in 1..(Len(op) - 1) : at(op, m + 1) \in OpChar /\ ~opensComment(op, m + 1)
    <3> DEFINE stops == {m \in 1..Len(op) : at(op, m + 1) \notin OpChar \/ opensComment(op, m + 1)}
    <3>1. ASSUME NEW m \in 1..(Len(op) - 1)
          PROVE  m \notin stops
      <4> SUFFICES ASSUME m \in stops PROVE FALSE
        OBVIOUS
      <4>1. stops \in SUBSET Nat /\ stops # {}
        BY <1>2
      <4>2. opReach(op, 1) = least(stops)
        BY <4>1 DEF opReach, upTo
      <4> HIDE DEF stops
      <4>3. least(stops) <= m
        BY <4>1, LeastNatural DEF least
      <4> QED BY <1>2, <2>2, <4>2, <4>3
    <3>2. \A m \in 1..(Len(op) - 1) : m \in 1..Len(op)
      BY <1>2
    <3> QED BY <3>1, <3>2
  <2>4. opReach(src, k) \in k..n
    BY <1>1, <1>6, <1>9, OpEndIn
  <2>5. e <= opReach(src, k)
    <3> DEFINE stops == {m \in k..n : at(src, m + 1) \notin OpChar \/ opensComment(src, m + 1)}
    <3>1. ASSUME NEW m \in stops
          PROVE  e <= m
      <4> SUFFICES ASSUME ~(e <= m) PROVE FALSE
        OBVIOUS
      <4>1. m \in k..(e - 1) /\ m + 1 \in k..e /\ m + 1 \in 1..n
        BY <1>1, <1>3
      <4>2. m - k + 1 \in 1..(Len(op) - 1) /\ m + 1 - k + 1 = m - k + 1 + 1
        BY <1>1, <1>2, <4>1
      <4>3. at(op, m - k + 1 + 1) \in OpChar /\ ~opensComment(op, m - k + 1 + 1)
        BY <2>3, <4>2
      <4>4. at(src, m + 1) = at(op, m - k + 1 + 1)
        <5>1. src[m + 1] = op[m - k + 1 + 1] /\ m - k + 1 + 1 \in 1..Len(op)
          BY <1>4, <4>1, <4>2
        <5> QED BY <4>1, <5>1 DEF at
      <4>5. ~opensComment(src, m + 1)
        <5>1. CASE m + 1 = e
          BY <1>5, <5>1
        <5>2. CASE m + 1 # e
          <6>1. m + 1 \in k..(e - 1)
            BY <1>1, <1>3, <4>1, <5>2
          <6>2. pairAt(src, m + 1) = pairAt(op, m - k + 1 + 1)
            BY <1>7, <4>2, <6>1
          <6> QED BY <4>3, <6>2 DEF opensComment
        <5> QED BY <5>1, <5>2
      <4> QED BY <4>3, <4>4, <4>5
    <3>2. CASE stops = {}
      <4>1. opReach(src, k) = n
        BY <3>2 DEF opReach, upTo
      <4> QED BY <1>3, <4>1
    <3>3. CASE stops # {}
      <4>1. opReach(src, k) = least(stops)
        BY <3>3 DEF opReach, upTo
      <4>2. stops \in SUBSET Nat
        BY <1>1
      <4>3. least(stops) \in stops
        <5> HIDE DEF stops
        <5> QED BY <3>3, <4>2, LeastNatural DEF least
      <4> HIDE DEF stops, e
      <4> QED BY <3>1, <4>1, <4>3
    <3> QED BY <3>2, <3>3
  <2>6. src[e] \notin {"+", "-"} \/ \E m \in k..e : src[m] \in OpMark
    <3>1. src[e] = op[Len(op)]
      <4>1. e \in k..e /\ e - k + 1 = Len(op)
        BY <1>1, <1>2, <1>3
      <4> QED BY <1>4, <4>1
    <3>2. ASSUME NEW m \in 1..Len(op), op[m] \in OpMark
          PROVE  \E x \in k..e : src[x] \in OpMark
      <4>1. k + m - 1 \in k..e /\ (k + m - 1) - k + 1 = m
        BY <1>1, <1>2
      <4>2. src[k + m - 1] = op[m]
        BY <1>4, <4>1
      <4> QED BY <3>2, <4>1, <4>2
    <3> QED BY <2>2, <3>1, <3>2
  <2>7. e \in opEnds(src, k)
    <3>1. e \in k..opReach(src, k)
      BY <1>1, <1>3, <2>4, <2>5
    <3> QED BY <2>6, <3>1 DEF opEnds
  <2> QED BY <1>1, <1>6, <1>9, <2>7, OpEndIn
<1> QED BY <1>8, <1>9

\* What the code cuts is within the text.  Unless a comment tears it, it is
\* PostgreSQL's operator when the code knows that, and part of it otherwise.
LEMMA OperatorRight ==
  ASSUME src \in Seq(STRING), NEW k \in 1..Len(src)
  PROVE  LET fits == {op \in MultiOps : isAt(src, k, op)}
             size == IF fits = {} THEN 1
                     ELSE Len(CHOOSE op \in fits : \A o \in fits : Len(o) <= Len(op))
         IN  /\ size \in Nat /\ k + size \in (k + 1)..(Len(src) + 1)
             /\ ~torn(src, k) => /\ k + size - 1 <= opEnd(src, k)
                                 /\ known(src, k) => k + size - 1 = opEnd(src, k)
             /\ src[k] = "$" => fits = {} /\ opEnd(src, k) = k
<1> DEFINE n == Len(src)
           fits == {op \in MultiOps : isAt(src, k, op)}
           long == CHOOSE op \in fits : \A o \in fits : Len(o) <= Len(op)
           size == IF fits = {} THEN 1 ELSE Len(long)
<1>1. n \in Nat /\ n = Len(src) /\ k \in 1..n
  OBVIOUS
<1>2. ASSUME NEW op \in fits
      PROVE  /\ Len(op) \in 2..n /\ k + Len(op) \in (k + 1)..(n + 1) /\ src[k] # "$"
             /\ ~torn(src, k) => k + Len(op) - 1 <= opEnd(src, k)
  <2>1. op \in Seq(STRING) /\ Len(op) \in Nat /\ Len(op) >= 2 /\ op[1] # "$"
    BY TableOperator
  <2>2. k + Len(op) - 1 <= n /\ SubSeq(src, k, k + Len(op) - 1) = op
    BY DEF isAt
  <2>3. op[1] = src[k]
    <3>1. SubSeq(src, k, k + Len(op) - 1)[1] = src[k]
      BY <1>1, <2>1, <2>2
    <3> QED BY <2>2, <3>1
  <2>4. ~torn(src, k) => k + Len(op) - 1 <= opEnd(src, k)
    BY StandsWithin
  <2> QED BY <1>1, <2>1, <2>2, <2>3, <2>4
<1>3. opEnd(src, k) \in k..n
  BY <1>1, OpEndIn
<1>4. src[k] = "$" => fits = {} /\ opEnd(src, k) = k
  <2> SUFFICES ASSUME src[k] = "$" PROVE fits = {} /\ opEnd(src, k) = k
    OBVIOUS
  <2>1. fits = {}
    <3> HIDE DEF fits
    <3> QED BY <1>2
  <2>2. src[k] \notin OpChar
    BY DEF OpChar, OpMark
  <2>3. pairAt(src, k) \notin {<<":", ":">>, <<":", "=">>, <<".", ".">>}
    BY <1>1 DEF pairAt, at
  <2> QED BY <1>1, <2>1, <2>2, <2>3, OpEndIn
<1>5. ASSUME fits # {}
      PROVE  /\ size \in 2..n /\ k + size \in (k + 1)..(n + 1)
             /\ ~torn(src, k) => k + size - 1 <= opEnd(src, k)
             /\ \A op \in fits : Len(op) <= size
  <2> DEFINE sizes == {Len(op) : op \in fits}
  <2>1. sizes \in SUBSET (1..n) /\ sizes # {}
    <3>1. \A op \in fits : Len(op) \in 1..n
      <4> HIDE DEF fits
      <4> QED BY <1>1, <1>2
    <3> HIDE DEF fits
    <3> QED BY <1>5, <3>1
  <2>2. PICK s \in sizes : \A t \in sizes : t <= s
    <3>1. 1 \in Int /\ n \in Int
      BY <1>1
    <3> HIDE DEF sizes, n
    <3> QED BY <2>1, <3>1, Greatest
  <2>3. \E op \in fits : \A o \in fits : Len(o) <= Len(op)
    <3> HIDE DEF fits
    <3> QED BY <2>2
  <2>4. long \in fits /\ \A o \in fits : Len(o) <= Len(long)
    <3> HIDE DEF fits
    <3> QED BY <2>3
  <2>5. size = Len(long)
    BY <1>5
  <2> HIDE DEF fits, long, n, size
  <2> QED BY <1>2, <2>4, <2>5
<1>6. size \in Nat /\ k + size \in (k + 1)..(n + 1)
  <2>1. CASE fits = {}
    BY <1>1, <2>1
  <2>2. CASE fits # {}
    <3> HIDE DEF fits, size
    <3> QED BY <1>1, <1>5, <2>2
  <2> QED BY <2>1, <2>2
<1>7. ASSUME ~torn(src, k)
      PROVE  k + size - 1 <= opEnd(src, k)
  <2>1. CASE fits = {}
    BY <1>1, <1>3, <2>1
  <2>2. CASE fits # {}
    BY <1>5, <1>7, <2>2
  <2> QED BY <2>1, <2>2
<1>8. ASSUME ~torn(src, k), known(src, k)
      PROVE  k + size - 1 = opEnd(src, k)
  <2>1. CASE opEnd(src, k) = k
    <3>1. fits = {}
      <4> HIDE DEF fits, size
      <4> QED BY <1>1, <1>5, <1>8, <2>1
    <3> QED BY <1>1, <2>1, <3>1
  <2>2. CASE opEnd(src, k) # k
    <3> DEFINE op == SubSeq(src, k, opEnd(src, k))
    <3>1. op \in MultiOps
      BY <1>8, <2>2 DEF known
    <3>2. Len(op) = opEnd(src, k) - k + 1
      BY <1>1, <1>3
    <3>3. k + Len(op) - 1 = opEnd(src, k)
      <4> HIDE DEF op
      <4> QED BY <1>1, <1>3, <3>2
    <3>4. isAt(src, k, op)
      BY <1>3, <3>3 DEF isAt
    <3> HIDE DEF op
    <3>5. op \in fits
      BY <3>1, <3>4
    <3> HIDE DEF fits, size, n
    <3>6. Len(op) <= size /\ size \in Nat
      BY <1>5, <1>6, <3>5
    <3> QED BY <1>1, <1>3, <1>7, <1>8, <3>2, <3>6
  <2> QED BY <2>1, <2>2
<1> QED BY <1>4, <1>6, <1>7, <1>8

-----------------------------------------------------------------------------
\* Tokens end to end.

\* The tokens are cut in order and without a gap, each PostgreSQL's, and the
\* statements are what becomes of them at the end.
LexShape ==
  /\ src \in Sources /\ toks \in Seq(Token)
  /\ i \in 1..(Len(src) + 1) /\ split \in BOOLEAN
  /\ i = IF toks = <<>> THEN 1 ELSE toks[Len(toks)].to + 1
  /\ split => i > Len(src)
  /\ stmts = IF split THEN splitStatements(toks) ELSE <<>>

TokenSound(k) ==
  /\ toks[k].from = IF k = 1 THEN 1 ELSE toks[k - 1].to + 1
  /\ toks[k].from \in 1..Len(src) /\ toks[k].to \in toks[k].from..Len(src)
  /\ toks[k].line = 1 + lines(1, toks[k].from - 1)
  /\ agrees(toks[k].kind, toks[k].from, toks[k].to)

LexInv == LexShape /\ \A k \in 1..Len(toks) : TokenSound(k)

LEMMA LinesAdd ==
  ASSUME NEW a \in Nat, NEW b \in Nat, a <= b
  PROVE  lines(1, a) \in Nat /\ lines(1, b) = lines(1, a) + lines(a + 1, b)
<1> DEFINE at_(x, y) == {k \in x..y : src[k] = "\n"}
<1>1. IsFiniteSet(at_(1, a)) /\ IsFiniteSet(at_(a + 1, b))
  <2>1. IsFiniteSet(1..a) /\ IsFiniteSet((a + 1)..b)
    BY FS_Interval
  <2> QED BY <2>1, FS_Subset
<1>2. at_(1, b) = at_(1, a) \cup at_(a + 1, b) /\ at_(1, a) \cap at_(a + 1, b) = {}
  OBVIOUS
<1>3. Cardinality(at_(1, a)) \in Nat /\ Cardinality(at_(a + 1, b)) \in Nat
  BY <1>1, FS_CardinalityType
<1>4. Cardinality(at_(1, b)) = Cardinality(at_(1, a)) + Cardinality(at_(a + 1, b))
  <2> DEFINE X == at_(1, a)  Y == at_(a + 1, b)
  <2>1. Cardinality(X \cap Y) = 0
    BY <1>2, FS_EmptySet
  <2> HIDE DEF at_, X, Y
  <2>2. Cardinality(X \cup Y) = Cardinality(X) + Cardinality(Y) - Cardinality(X \cap Y)
    BY <1>1, FS_Union DEF X, Y
  <2>3. at_(1, b) = X \cup Y /\ Cardinality(X) \in Nat /\ Cardinality(Y) \in Nat
    BY <1>2, <1>3 DEF X, Y
  <2> QED BY <2>1, <2>2, <2>3 DEF X, Y
<1> QED BY <1>3, <1>4 DEF lines

\* A token that is PostgreSQL's, cut where the scan has come to.
LEMMA EmitSound ==
  ASSUME LexInv, i <= Len(src), NEW kind \in Kinds, NEW val \in Seq(STRING),
         NEW end \in (i + 1)..(Len(src) + 1), agrees(kind, i, end - 1),
         emit(kind, end, val)
  PROVE  LexInv'
<1> DEFINE n == Len(src)
           last == toks[Len(toks)]
           line == IF toks = <<>> THEN 1 ELSE last.line + lines(last.from, last.to)
           t == token(kind, end, val, line)
<1>1. /\ src \in Sources /\ src \in Seq(STRING) /\ toks \in Seq(Token)
      /\ n \in Nat /\ n = Len(src) /\ split \in BOOLEAN
      /\ i \in 1..n /\ Len(toks) \in Nat /\ ~split /\ stmts = <<>>
      /\ i = IF toks = <<>> THEN 1 ELSE last.to + 1
  <2>1. src \in Seq(STRING)
    <3>1. Word \cup STRING = STRING
      BY TextAssumption
    <3>2. src \in Seq(Word \cup STRING)
      BY SourcesAssumption DEF LexInv, LexShape
    <3> QED BY <3>1, <3>2
  <2> QED BY <2>1 DEF LexInv, LexShape
<1>2. /\ toks' = Append(toks, t) /\ i' = end
      /\ src' = src /\ stmts' = stmts /\ split' = split
  BY DEF emit
<1>3. line \in Nat /\ line = 1 + lines(1, i - 1)
  <2>1. CASE toks = <<>>
    <3>1. {k \in 1..(i - 1) : src[k] = "\n"} = {}
      BY <1>1, <2>1
    <3>2. lines(1, i - 1) = 0
      BY <3>1, FS_EmptySet DEF lines
    <3> QED BY <2>1, <3>2
  <2>2. CASE toks # <<>>
    <3>1. Len(toks) \in 1..Len(toks)
      BY <1>1, <2>2
    <3>2. TokenSound(Len(toks))
      BY <3>1 DEF LexInv
    <3>3. /\ last.from \in 1..n /\ last.to \in last.from..n /\ i - 1 = last.to
          /\ last.line = 1 + lines(1, last.from - 1)
      BY <1>1, <2>2, <3>2 DEF TokenSound
    <3> HIDE DEF last
    <3>4. PICK a \in Nat, b \in Nat :
            a = last.from - 1 /\ b = last.to /\ a + 1 = last.from /\ a <= b
      BY <1>1, <3>3
    <3>5. lines(1, a) \in Nat /\ lines(1, b) = lines(1, a) + lines(a + 1, b)
      BY <3>4, LinesAdd
    <3>6. lines(1, b) \in Nat
      <4>1. b <= b
        OBVIOUS
      <4> QED BY <4>1, LinesAdd
    <3>7. line = last.line + lines(last.from, last.to)
      BY <2>2
    <3>8. lines(a + 1, b) \in Nat
      <4>1. IsFiniteSet((a + 1)..b)
        BY FS_Interval
      <4>2. IsFiniteSet({k \in (a + 1)..b : src[k] = "\n"})
        BY <4>1, FS_Subset
      <4> QED BY <4>2, FS_CardinalityType DEF lines
    <3>9. last.line = 1 + lines(1, a) /\ line = last.line + lines(a + 1, b)
          /\ i - 1 = b
      BY <3>3, <3>4, <3>7
    <3> HIDE DEF line
    <3> QED BY <3>5, <3>6, <3>8, <3>9
  <2> QED BY <2>1, <2>2
<1> HIDE DEF line, n, last
<1>4. /\ t \in Token /\ t.from = i /\ t.to = end - 1 /\ t.kind = kind /\ t.line = line
      /\ end - 1 \in i..n /\ end \in 1..(n + 1)
  <2>1. end - 1 \in i..n /\ end \in 1..(n + 1) /\ i \in Nat /\ end - 1 \in Nat
    BY <1>1
  <2>2. t = [kind |-> kind, from |-> i, to |-> end - 1, val |-> val, line |-> line]
    BY DEF token
  <2> HIDE DEF t
  <2> QED BY <1>3, <2>1, <2>2 DEF Token
<1>5. /\ Len(toks') = Len(toks) + 1 /\ toks' \in Seq(Token) /\ toks'[Len(toks) + 1] = t
      /\ \A k \in 1..Len(toks) : toks'[k] = toks[k]
  BY <1>1, <1>2, <1>4
<1> HIDE DEF t
<1>6. LexShape'
  <2>1. toks' # <<>> /\ toks'[Len(toks')] = t /\ end = t.to + 1
    BY <1>1, <1>4, <1>5
  <2>2. i' = IF toks' = <<>> THEN 1 ELSE toks'[Len(toks')].to + 1
    BY <1>2, <2>1
  <2>3. i' \in 1..(Len(src') + 1) /\ src' \in Sources
    BY <1>1, <1>2, <1>4
  <2>4. split' \in BOOLEAN /\ ~split' /\ stmts' = <<>>
    BY <1>1, <1>2
  <2> QED BY <1>5, <2>2, <2>3, <2>4 DEF LexShape
<1>7. ASSUME NEW k \in 1..Len(toks')
      PROVE  TokenSound(k)'
  <2>1. CASE k = Len(toks) + 1
    <3>1. toks'[k] = t
      BY <1>5, <2>1
    <3>2. t.from = IF k = 1 THEN 1 ELSE toks'[k - 1].to + 1
      <4>1. k = 1 <=> toks = <<>>
        BY <1>1, <2>1
      <4>2. k # 1 => k - 1 \in 1..Len(toks) /\ k - 1 = Len(toks)
        BY <1>1, <2>1
      <4>3. k # 1 => toks'[k - 1] = last
        BY <1>5, <4>2 DEF last
      <4> QED BY <1>1, <1>4, <4>1, <4>3
    <3>3. t.from \in 1..n /\ t.to \in t.from..n /\ t.line = 1 + lines(1, t.from - 1)
      BY <1>1, <1>3, <1>4
    <3>4. agrees(t.kind, t.from, t.to)
      BY <1>4
    <3> QED BY <1>2, <3>1, <3>2, <3>3, <3>4 DEF TokenSound, n, lines, agrees
  <2>2. CASE k # Len(toks) + 1
    <3>1. k \in 1..Len(toks) /\ (k # 1 => k - 1 \in 1..Len(toks))
      BY <1>1, <1>5, <2>2
    <3>2. toks'[k] = toks[k] /\ (k # 1 => toks'[k - 1] = toks[k - 1])
      BY <1>5, <3>1
    <3>3. TokenSound(k)
      BY <3>1 DEF LexInv
    <3> QED BY <1>2, <3>2, <3>3 DEF TokenSound, lines, agrees
  <2> QED BY <2>1, <2>2
<1> QED BY <1>6, <1>7 DEF LexInv

-----------------------------------------------------------------------------
\* The kinds of token exclude each other.

LEMMA Distinct ==
  /\ Space \cap {"-", "/", "'", "E", "$", DoubleQuote} = {}
  /\ DoubleQuote \notin {"-", "/", "'", "E", "$", "*", "\\", "\n", Nothing}
  /\ Nothing \notin Space \cup {"-", "/", "'", "$", "*", "\\", "\n"}
  /\ Word \cap (Space \cup {"-", "/", "'", "$", DoubleQuote, Nothing}) = {}
<1>1. /\ DoubleQuote # "-" /\ DoubleQuote # "/" /\ DoubleQuote # "'" /\ DoubleQuote # "E"
      /\ DoubleQuote # "$" /\ DoubleQuote # "*" /\ DoubleQuote # "\\" /\ DoubleQuote # "\n"
      /\ DoubleQuote # Nothing /\ DoubleQuote # Blank
  BY Zenon DEF DoubleQuote, Nothing, Blank
<1>2. /\ Blank # "-" /\ Blank # "/" /\ Blank # "'" /\ Blank # "E" /\ Blank # "$"
      /\ Blank # Nothing
  BY Zenon DEF Blank, Nothing
<1>3. /\ Nothing # "-" /\ Nothing # "/" /\ Nothing # "'" /\ Nothing # "$" /\ Nothing # "*"
      /\ Nothing # "\\" /\ Nothing # "\n"
  BY Zenon DEF Nothing
<1>4. Word \cap {"'", DoubleQuote, "$", "-", "/", "*", "\\", Semicolon, Blank, "\n", Nothing} = {}
  BY TextAssumption
<1> QED BY <1>1, <1>2, <1>3, <1>4 DEF Space

LEMMA LexemeCases ==
  ASSUME NEW k
  PROVE  LET c == src[k]
             d == at(src, k + 1)
             plain == c \notin Word \cup Space \cup {"'", DoubleQuote, "$"}
         IN  /\ c \in Space => Lexeme(src, k) = lexeme("space", runEnd(src, k, Space))
             /\ c = "-" /\ d = "-" => Lexeme(src, k) = lexeme("comment", lineEnd(src, k))
             /\ c = "/" /\ d = "*" => Lexeme(src, k) = lexeme("comment", commentEnd(src, k))
             /\ c = "'" => Lexeme(src, k) = lexeme("string", quotedEnd(src, k, "'", FALSE))
             /\ c = "E" /\ d = "'" =>
                  Lexeme(src, k) = lexeme("string", quotedEnd(src, k + 1, "'", TRUE))
             /\ c = DoubleQuote =>
                  Lexeme(src, k) = lexeme("quoted", quotedEnd(src, k, DoubleQuote, FALSE))
             /\ c = "$" /\ delimiterEnd(src, k) # 0 =>
                  Lexeme(src, k) = lexeme("string", dollarEnd(src, k))
             /\ c \in Word /\ ~(c = "E" /\ d = "'") =>
                  Lexeme(src, k) = lexeme("ident", runEnd(src, k, Word \cup {"$"}))
             /\ c = "$" /\ delimiterEnd(src, k) = 0 =>
                  Lexeme(src, k) = lexeme("op", opEnd(src, k))
             /\ plain /\ ~(c = "-" /\ d = "-") /\ ~(c = "/" /\ d = "*") =>
                  Lexeme(src, k) = lexeme("op", opEnd(src, k))
<1> DEFINE c == src[k]
           d == at(src, k + 1)
           g1 == c \in Space
           g2 == c = "-" /\ d = "-"
           g3 == c = "/" /\ d = "*"
           g4 == c = "'"
           g5 == c = "E" /\ d = "'"
           g6 == c = DoubleQuote
           g7 == c = "$" /\ delimiterEnd(src, k) # 0
           g8 == c \in Word /\ ~(c = "E" /\ d = "'")
           L == Lexeme(src, k)
           e1 == lexeme("space", runEnd(src, k, Space))
           e2 == lexeme("comment", lineEnd(src, k))
           e3 == lexeme("comment", commentEnd(src, k))
           e4 == lexeme("string", quotedEnd(src, k, "'", FALSE))
           e5 == lexeme("string", quotedEnd(src, k + 1, "'", TRUE))
           e6 == lexeme("quoted", quotedEnd(src, k, DoubleQuote, FALSE))
           e7 == lexeme("string", dollarEnd(src, k))
           e8 == lexeme("ident", runEnd(src, k, Word \cup {"$"}))
           e9 == lexeme("op", opEnd(src, k))
<1>1. L = CASE g1 -> e1 [] g2 -> e2 [] g3 -> e3 [] g4 -> e4 [] g5 -> e5 [] g6 -> e6
            [] g7 -> e7 [] g8 -> e8 [] OTHER -> e9
  BY DEF Lexeme
<1>2. /\ g1 => ~g2 /\ ~g3 /\ ~g4 /\ ~g5 /\ ~g6 /\ ~g7 /\ ~g8
      /\ g2 => ~g3 /\ ~g4 /\ ~g5 /\ ~g6 /\ ~g7 /\ ~g8
      /\ g3 => ~g4 /\ ~g5 /\ ~g6 /\ ~g7 /\ ~g8
      /\ g4 => ~g5 /\ ~g6 /\ ~g7 /\ ~g8
      /\ g5 => ~g6 /\ ~g7 /\ ~g8
      /\ g6 => ~g7 /\ ~g8
      /\ g7 => ~g8
  BY Distinct
<1>3. /\ c = "$" /\ delimiterEnd(src, k) = 0 =>
           ~g1 /\ ~g2 /\ ~g3 /\ ~g4 /\ ~g5 /\ ~g6 /\ ~g7 /\ ~g8
      /\ /\ c \notin Word \cup Space \cup {"'", DoubleQuote, "$"}
         /\ ~(c = "-" /\ d = "-") /\ ~(c = "/" /\ d = "*")
         => ~g1 /\ ~g2 /\ ~g3 /\ ~g4 /\ ~g5 /\ ~g6 /\ ~g7 /\ ~g8
  BY Distinct, TextAssumption
<1> HIDE DEF g1, g2, g3, g4, g5, g6, g7, g8, e1, e2, e3, e4, e5, e6, e7, e8, e9, L
<1>4. /\ g1 => L = e1
      /\ g2 => L = e2
      /\ g3 => L = e3
      /\ g4 => L = e4
      /\ g5 => L = e5
      /\ g6 => L = e6
      /\ g7 => L = e7
      /\ g8 => L = e8
      /\ ~g1 /\ ~g2 /\ ~g3 /\ ~g4 /\ ~g5 /\ ~g6 /\ ~g7 /\ ~g8 => L = e9
  BY <1>1, <1>2
<1> QED
  BY <1>3, <1>4 DEF g1, g2, g3, g4, g5, g6, g7, g8, e1, e2, e3, e4, e5, e6, e7, e8, e9, L

-----------------------------------------------------------------------------
\* Each action cuts PostgreSQL's token.

\* What the invariant says of where the scan is.
LEMMA InText ==
  ASSUME LexInv, i <= Len(src)
  PROVE  src \in Seq(STRING) /\ i \in 1..Len(src) /\ i \in 1..(Len(src) + 1)
<1>1. src \in Seq(STRING)
  <2>1. Word \cup STRING = STRING
    BY TextAssumption
  <2>2. src \in Seq(Word \cup STRING)
    BY SourcesAssumption DEF LexInv, LexShape
  <2> QED BY <2>1, <2>2
<1> QED BY <1>1 DEF LexInv, LexShape

LEMMA WhitespaceSound ==
  ASSUME LexInv, Whitespace PROVE LexInv'
<1>1. i <= Len(src) /\ src[i] \in Space /\ emit("space", past(i, Space), <<>>)
  BY DEF Whitespace
<1>2. src \in Seq(STRING) /\ i \in 1..Len(src)
  BY <1>1, InText
<1>3. /\ past(i, Space) \in (i + 1)..(Len(src) + 1)
      /\ past(i, Space) - 1 = runEnd(src, i, Space)
  BY <1>1, <1>2, Distinct, RunRight
<1>4. agrees("space", i, past(i, Space) - 1)
  BY <1>1, <1>3, LexemeCases DEF agrees
<1>5. "space" \in Kinds /\ <<>> \in Seq(STRING)
  BY DEF Kinds
<1> QED BY <1>1, <1>3, <1>4, <1>5, EmitSound

LEMMA LineCommentSound ==
  ASSUME LexInv, LineComment PROVE LexInv'
<1> DEFINE end == past(i, {src[k] : k \in 1..Len(src)} \ {"\n"})
<1>1. i <= Len(src) /\ src[i] = "-" /\ at(src, i + 1) = "-" /\ emit("comment", end, <<>>)
  BY DEF LineComment, here, next
<1>2. src \in Seq(STRING) /\ i \in 1..Len(src)
  BY <1>1, InText
<1>3. end \in (i + 1)..(Len(src) + 1) /\ end - 1 = lineEnd(src, i)
  BY <1>1, <1>2, LineRight
<1> HIDE DEF end
<1>4. agrees("comment", i, end - 1)
  BY <1>1, <1>3, LexemeCases DEF agrees
<1>5. "comment" \in Kinds /\ <<>> \in Seq(STRING)
  BY DEF Kinds
<1> QED BY <1>1, <1>3, <1>4, <1>5, EmitSound

LEMMA BlockCommentSound ==
  ASSUME LexInv, BlockComment PROVE LexInv'
<1> DEFINE end == afterComment(i)
<1>1. i <= Len(src) /\ src[i] = "/" /\ at(src, i + 1) = "*" /\ emit("comment", end, <<>>)
  BY DEF BlockComment, here, next
<1>2. src \in Seq(STRING) /\ i \in 1..Len(src)
  BY <1>1, InText
<1>3. end \in (i + 1)..(Len(src) + 1) /\ end - 1 = commentEnd(src, i)
  BY <1>1, <1>2, CommentRight
<1> HIDE DEF end
<1>4. agrees("comment", i, end - 1)
  BY <1>1, <1>3, LexemeCases DEF agrees
<1>5. "comment" \in Kinds /\ <<>> \in Seq(STRING)
  BY DEF Kinds
<1> QED BY <1>1, <1>3, <1>4, <1>5, EmitSound

LEMMA PlainStringSound ==
  ASSUME LexInv, PlainString PROVE LexInv'
<1> DEFINE end == scanString(i, "'", FALSE)
           val == decodeString(SubSeq(src, i, end - 1), FALSE)
<1>1. i <= Len(src) /\ src[i] = "'" /\ emit("string", end, val)
  BY DEF PlainString, here
<1>2. src \in Seq(STRING) /\ i \in 1..Len(src)
  BY <1>1, InText
<1>3. end \in (i + 1)..(Len(src) + 1) /\ end - 1 = quotedEnd(src, i, "'", FALSE)
  <2>1. "'" # "\\" /\ "'" # Nothing
    BY Distinct
  <2> QED BY <1>1, <1>2, <2>1, ScanRight
<1> HIDE DEF end
<1>4. val \in Seq(STRING)
  <2>1. SubSeq(src, i, end - 1) \in Seq(STRING)
    BY <1>2, <1>3
  <2> QED BY <2>1, DecodeType
<1> HIDE DEF val
<1>5. agrees("string", i, end - 1)
  BY <1>1, <1>3, LexemeCases DEF agrees
<1>6. "string" \in Kinds
  BY DEF Kinds
<1> QED BY <1>1, <1>3, <1>4, <1>5, <1>6, EmitSound

LEMMA EscapeStringSound ==
  ASSUME LexInv, EscapeString PROVE LexInv'
<1> DEFINE end == scanString(i + 1, "'", TRUE)
           val == decodeString(SubSeq(src, i + 1, end - 1), TRUE)
<1>1. i <= Len(src) /\ src[i] = "E" /\ at(src, i + 1) = "'" /\ emit("string", end, val)
  BY DEF EscapeString, here, next
<1>2. src \in Seq(STRING) /\ i \in 1..Len(src)
  BY <1>1, InText
<1>3. "'" # "\\" /\ "'" # Nothing
  BY Distinct
<1>4. i + 1 \in 1..Len(src) /\ src[i + 1] = "'"
  BY <1>1, <1>2, <1>3 DEF at
<1>5. end \in (i + 1 + 1)..(Len(src) + 1) /\ end - 1 = quotedEnd(src, i + 1, "'", TRUE)
  BY <1>2, <1>3, <1>4, ScanRight
<1> HIDE DEF end
<1>6. end \in (i + 1)..(Len(src) + 1)
  BY <1>2, <1>5
<1>7. val \in Seq(STRING)
  <2>1. SubSeq(src, i + 1, end - 1) \in Seq(STRING)
    BY <1>2, <1>4, <1>5
  <2> QED BY <2>1, DecodeType
<1> HIDE DEF val
<1>8. agrees("string", i, end - 1)
  BY <1>1, <1>5, LexemeCases DEF agrees
<1>9. "string" \in Kinds
  BY DEF Kinds
<1> QED BY <1>1, <1>6, <1>7, <1>8, <1>9, EmitSound

LEMMA QuotedIdentSound ==
  ASSUME LexInv, QuotedIdent PROVE LexInv'
<1> DEFINE end == scanString(i, DoubleQuote, FALSE)
           raw == SubSeq(src, i, end - 1)
           val == IF Len(raw) >= 2 /\ raw[Len(raw)] = DoubleQuote
                  THEN unquoted(raw, DoubleQuote) ELSE raw
<1>1. i <= Len(src) /\ src[i] = DoubleQuote /\ emit("quoted", end, val)
  BY DEF QuotedIdent, here
<1>2. src \in Seq(STRING) /\ i \in 1..Len(src)
  BY <1>1, InText
<1>3. end \in (i + 1)..(Len(src) + 1) /\ end - 1 = quotedEnd(src, i, DoubleQuote, FALSE)
  <2>1. DoubleQuote # "\\" /\ DoubleQuote # Nothing
    BY Distinct
  <2> QED BY <1>1, <1>2, <2>1, ScanRight
<1> HIDE DEF end
<1>4. val \in Seq(STRING)
  <2>1. raw \in Seq(STRING)
    BY <1>2, <1>3
  <2> HIDE DEF raw
  <2>2. Len(raw) >= 2 => unquoted(raw, DoubleQuote) \in Seq(STRING)
    BY <2>1, DecodeType
  <2> QED BY <2>1, <2>2
<1> HIDE DEF val
<1>5. agrees("quoted", i, end - 1)
  BY <1>1, <1>3, LexemeCases DEF agrees
<1>6. "quoted" \in Kinds
  BY DEF Kinds
<1> QED BY <1>1, <1>3, <1>4, <1>5, <1>6, EmitSound

LEMMA DollarSound ==
  ASSUME LexInv, Dollar PROVE LexInv'
<1> DEFINE j == past(i + 1, Word)
           delim == SubSeq(src, i, j)
           close == {c \in (j + 1)..Len(src) : isAt(src, c, delim)}
<1>1. /\ i <= Len(src) /\ src[i] = "$"
      /\ IF at(src, j) # "$" THEN emit("op", i + 1, <<"$">>)
         ELSE IF close = {} THEN emit("string", Len(src) + 1, <<>>)
         ELSE emit("string", least(close) + Len(delim), SubSeq(src, j + 1, least(close) - 1))
  BY DEF Dollar, here
<1>2. src \in Seq(STRING) /\ i \in 1..Len(src) /\ Len(src) \in Nat
  BY <1>1, InText
<1>3. /\ j \in (i + 1)..(Len(src) + 1)
      /\ at(src, j) = "$" => j \in 1..Len(src) /\ delimiterEnd(src, i) = j
      /\ at(src, j) # "$" => delimiterEnd(src, i) = 0
  BY <1>1, <1>2, DelimiterRight
<1>4. "op" \in Kinds /\ "string" \in Kinds
  BY DEF Kinds
<1> HIDE DEF j
<1>5. CASE at(src, j) # "$"
  <2>1. opEnd(src, i) = i
    BY <1>1, <1>2, OperatorRight
  <2>2. agrees("op", i, i + 1 - 1)
    <3>1. i + 1 - 1 = i
      BY <1>2
    <3> QED BY <1>1, <1>3, <1>5, <2>1, <3>1, LexemeCases DEF agrees
  <2>3. <<"$">> \in Seq(STRING)
    <3>1. <<src[i]>> \in Seq(STRING)
      <4>1. PICK Symbol : Symbol = STRING
        OBVIOUS
      <4>2. src \in Seq(Symbol) /\ src[i] \in Symbol
        BY <1>2, <4>1
      <4>3. <<src[i]>> \in Seq(Symbol)
        BY <4>2
      <4> QED BY <4>1, <4>3
    <3> QED BY <1>1, <3>1
  <2>4. i + 1 \in (i + 1)..(Len(src) + 1)
    BY <1>2
  <2> DEFINE end == i + 1
             val == <<"$">>
  <2>5. emit("op", end, val)
    BY <1>1, <1>5
  <2>6. agrees("op", i, end - 1)
    BY <1>2, <2>2
  <2>7. val \in Seq(STRING)
    BY <2>3
  <2>8. end \in (i + 1)..(Len(src) + 1)
    BY <2>4
  <2> HIDE DEF end, val
  <2> QED BY <1>1, <1>4, <2>5, <2>6, <2>7, <2>8, EmitSound
<1>6. CASE at(src, j) = "$"
  <2>1. j \in (i + 1)..Len(src) /\ delimiterEnd(src, i) = j /\ j # 0
    BY <1>2, <1>3, <1>6
  <2>2. /\ close = {} => dollarEnd(src, i) = Len(src)
        /\ close # {} => /\ least(close) \in (j + 1)..Len(src)
                         /\ least(close) + Len(delim) \in (i + 1)..(Len(src) + 1)
                         /\ least(close) + Len(delim) - 1 = dollarEnd(src, i)
    BY <1>2, <2>1, DollarRight
  <2>3. Lexeme(src, i) = lexeme("string", dollarEnd(src, i))
    BY <1>1, <2>1, LexemeCases
  <2> HIDE DEF delim, close
  <2>4. CASE close = {}
    <3>1. agrees("string", i, Len(src) + 1 - 1)
      <4>1. Len(src) + 1 - 1 = Len(src)
        BY <1>2
      <4> QED BY <2>2, <2>3, <2>4, <4>1 DEF agrees
    <3>2. Len(src) + 1 \in (i + 1)..(Len(src) + 1) /\ <<>> \in Seq(STRING)
      BY <1>2
    <3> DEFINE end == Len(src) + 1
    <3>3. emit("string", end, <<>>) /\ agrees("string", i, end - 1)
          /\ end \in (i + 1)..(Len(src) + 1)
      BY <1>1, <1>6, <2>4, <3>1, <3>2
    <3> HIDE DEF end
    <3> QED BY <1>1, <1>4, <3>2, <3>3, EmitSound
  <2>5. CASE close # {}
    <3> DEFINE end == least(close) + Len(delim)
               val == SubSeq(src, j + 1, least(close) - 1)
    <3>1. agrees("string", i, end - 1)
      BY <2>2, <2>3, <2>5 DEF agrees
    <3>2. end \in (i + 1)..(Len(src) + 1)
      BY <2>2, <2>5
    <3>3. val \in Seq(STRING)
      BY <1>2, <2>1, <2>2, <2>5
    <3>4. emit("string", end, val)
      BY <1>1, <1>6, <2>5
    <3> HIDE DEF end, val
    <3> QED BY <1>1, <1>4, <3>1, <3>2, <3>3, <3>4, EmitSound
  <2> QED BY <2>4, <2>5
<1> QED BY <1>5, <1>6

LEMMA IdentifierSound ==
  ASSUME LexInv, Identifier PROVE LexInv'
<1> DEFINE S == Word \cup {"$"}
           end == past(i, S)
           val == SubSeq(src, i, end - 1)
<1>1. i <= Len(src) /\ src[i] \in Word /\ ~(src[i] = "E" /\ at(src, i + 1) = "'")
      /\ emit("ident", end, val)
  BY DEF Identifier, here, next
<1>2. src \in Seq(STRING) /\ i \in 1..Len(src)
  BY <1>1, InText
<1>3. end \in (i + 1)..(Len(src) + 1) /\ end - 1 = runEnd(src, i, S)
  <2>1. src[i] \in S /\ Nothing \notin S
    BY <1>1, Distinct
  <2> HIDE DEF S
  <2> QED BY <1>2, <2>1, RunRight
<1> HIDE DEF end
<1>4. val \in Seq(STRING)
  BY <1>2, <1>3
<1> HIDE DEF val
<1>5. agrees("ident", i, end - 1)
  BY <1>1, <1>3, LexemeCases DEF agrees
<1>6. "ident" \in Kinds
  BY DEF Kinds
<1> QED BY <1>1, <1>3, <1>4, <1>5, <1>6, EmitSound

LEMMA OperatorSound ==
  ASSUME LexInv, Operator PROVE LexInv'
<1> DEFINE fits == {op \in MultiOps : isAt(src, i, op)}
           size == IF fits = {} THEN 1
                   ELSE Len(CHOOSE op \in fits : \A o \in fits : Len(o) <= Len(op))
           val == SubSeq(src, i, i + size - 1)
<1>1. /\ i <= Len(src) /\ src[i] \notin Word \cup Space \cup {"'", DoubleQuote, "$"}
      /\ ~(src[i] = "-" /\ at(src, i + 1) = "-") /\ ~(src[i] = "/" /\ at(src, i + 1) = "*")
      /\ emit("op", i + size, val)
  BY DEF Operator, here, next
<1>2. src \in Seq(STRING) /\ i \in 1..Len(src)
  BY <1>1, InText
<1>3. /\ size \in Nat /\ i + size \in (i + 1)..(Len(src) + 1)
      /\ ~torn(src, i) => /\ i + size - 1 <= opEnd(src, i)
                          /\ known(src, i) => i + size - 1 = opEnd(src, i)
  BY <1>2, OperatorRight
<1> HIDE DEF size
<1> DEFINE end == i + size
<1>4. /\ end \in (i + 1)..(Len(src) + 1)
      /\ ~torn(src, i) => end - 1 <= opEnd(src, i) /\ (known(src, i) => end - 1 = opEnd(src, i))
  BY <1>2, <1>3
<1>5. emit("op", end, val)
  BY <1>1
<1>6. val = SubSeq(src, i, end - 1)
  BY <1>2, <1>3
<1> HIDE DEF end, val
<1>7. val \in Seq(STRING)
  BY <1>2, <1>4, <1>6
<1>8. agrees("op", i, end - 1)
  <2>1. Lexeme(src, i) = lexeme("op", opEnd(src, i))
    BY <1>1, LexemeCases
  <2>2. Lexeme(src, i).kind = "op" /\ Lexeme(src, i).to = opEnd(src, i)
    BY <2>1 DEF lexeme
  <2> QED BY <1>4, <2>1, <2>2 DEF agrees
<1>9. "op" \in Kinds
  BY DEF Kinds
<1> QED BY <1>1, <1>4, <1>5, <1>7, <1>8, <1>9, EmitSound

LEMMA SplitSound ==
  ASSUME LexInv, Split PROVE LexInv'
<1>1. /\ i > Len(src) /\ split' = TRUE /\ stmts' = splitStatements(toks)
      /\ src' = src /\ i' = i /\ toks' = toks
  BY DEF Split
<1>2. LexShape'
  BY <1>1 DEF LexInv, LexShape
<1>3. \A k \in 1..Len(toks) : TokenSound(k) => TokenSound(k)'
  BY <1>1 DEF TokenSound, lines, agrees
<1> QED BY <1>1, <1>2, <1>3 DEF LexInv

LEMMA LexStart ==
  ASSUME LexInit PROVE LexInv
<1>1. src \in Sources /\ i = 1 /\ toks = <<>> /\ stmts = <<>> /\ split = FALSE
  BY DEF LexInit
<1>2. Len(src) \in Nat
  <2>1. Word \cup STRING = STRING
    BY TextAssumption
  <2>2. src \in Seq(STRING)
    BY <1>1, <2>1, SourcesAssumption
  <2> QED BY <2>2
<1>3. LexShape
  <2>1. <<>> \in Seq(Token) /\ 1 \in 1..(Len(src) + 1)
    BY <1>2
  <2> QED BY <1>1, <2>1 DEF LexShape
<1>4. Len(toks) = 0
  BY <1>1
<1> QED BY <1>3, <1>4 DEF LexInv

LEMMA LexStep ==
  ASSUME LexInv, [LexNext]_lexVars PROVE LexInv'
<1>1. CASE Whitespace
  BY <1>1, WhitespaceSound
<1>2. CASE LineComment
  BY <1>2, LineCommentSound
<1>3. CASE BlockComment
  BY <1>3, BlockCommentSound
<1>4. CASE PlainString
  BY <1>4, PlainStringSound
<1>5. CASE EscapeString
  BY <1>5, EscapeStringSound
<1>6. CASE QuotedIdent
  BY <1>6, QuotedIdentSound
<1>7. CASE Dollar
  BY <1>7, DollarSound
<1>8. CASE Identifier
  BY <1>8, IdentifierSound
<1>9. CASE Operator
  BY <1>9, OperatorSound
<1>10. CASE Split
  BY <1>10, SplitSound
<1>11. CASE UNCHANGED lexVars
  <2>1. src' = src /\ i' = i /\ toks' = toks /\ stmts' = stmts /\ split' = split
    BY <1>11 DEF lexVars
  <2>2. LexShape'
    BY <2>1 DEF LexInv, LexShape
  <2>3. \A k \in 1..Len(toks) : TokenSound(k) => TokenSound(k)'
    BY <2>1 DEF TokenSound, lines, agrees
  <2> QED BY <2>1, <2>2, <2>3 DEF LexInv
<1> QED
  BY <1>1, <1>2, <1>3, <1>4, <1>5, <1>6, <1>7, <1>8, <1>9, <1>10, <1>11 DEF LexNext

THEOREM LexInvariant == LexSpec => []LexInv
<1>1. LexInit => LexInv
  BY LexStart
<1>2. LexInv /\ [LexNext]_lexVars => LexInv'
  BY LexStep
<1> QED BY <1>1, <1>2, PTL DEF LexSpec

\* lex.go: dollar-quoted bodies, nested block comments, escaped strings and
\* quoted identifiers all tokenize correctly: every token of every text is the
\* one PostgreSQL cuts there, or part of an operator that the code does not know.
THEOREM TokensRightTheorem == LexSpec => []TokensRight
<1>1. LexInv => TokensRight
  BY DEF LexInv, TokenSound, TokensRight
<1> QED BY <1>1, LexInvariant, PTL

\* A token that says what it means is PostgreSQL's.
LEMMA LegibleSound ==
  ASSUME LexInv, NEW k \in 1..Len(toks), legible(src, toks[k].from)
  PROVE  /\ lexeme(toks[k].kind, toks[k].to) = Lexeme(src, toks[k].from)
         /\ Lexeme(src, toks[k].from).kind = toks[k].kind
         /\ Lexeme(src, toks[k].from).to = toks[k].to
<1>1. agrees(toks[k].kind, toks[k].from, toks[k].to)
  BY DEF LexInv, TokenSound
<1>2. lexeme(toks[k].kind, toks[k].to) = Lexeme(src, toks[k].from)
  BY <1>1 DEF agrees, legible
<1> QED BY <1>2 DEF lexeme

-----------------------------------------------------------------------------
\* Values.

\* What the scan keeps of a quoted text, by its kind and first symbol.
readQuoted(raw) ==
  IF Len(raw) >= 2 /\ raw[Len(raw)] = DoubleQuote THEN unquoted(raw, DoubleQuote) ELSE raw

ReadAs(kind, from, to, val) ==
  /\ kind \in {"space", "comment"} => val = <<>>
  /\ kind \in {"ident", "op"} => val = SubSeq(src, from, to)
  /\ kind = "string" /\ src[from] = "$" /\ dollarEnds(src, from) # {} =>
       LET open == delimiterEnd(src, from)
       IN  val = SubSeq(src, open + 1, to - (open - from) - 1)
  /\ kind = "string" /\ src[from] = "'" => val = decodeString(SubSeq(src, from, to), FALSE)
  /\ kind = "string" /\ src[from] = "E" => val = decodeString(SubSeq(src, from + 1, to), TRUE)
  /\ kind = "quoted" => src[from] = DoubleQuote /\ val = readQuoted(SubSeq(src, from, to))

ValueInv ==
  \A k \in 1..Len(toks) : ReadAs(toks[k].kind, toks[k].from, toks[k].to, toks[k].val)

LEMMA EmitValue ==
  ASSUME LexInv, ValueInv, NEW kind, NEW end, NEW val, emit(kind, end, val),
         ReadAs(kind, i, end - 1, val)
  PROVE  ValueInv'
<1>1. toks \in Seq(Token) /\ Len(toks) \in Nat
  BY DEF LexInv, LexShape
<1>2. PICK line : toks' = Append(toks, token(kind, end, val, line)) /\ src' = src
  BY DEF emit
<1> DEFINE t == token(kind, end, val, line)
<1>3. t.kind = kind /\ t.from = i /\ t.to = end - 1 /\ t.val = val
  BY DEF token
<1> HIDE DEF t
<1>4. /\ Len(toks') = Len(toks) + 1 /\ toks'[Len(toks) + 1] = t
      /\ \A k \in 1..Len(toks) : toks'[k] = toks[k]
  BY <1>1, <1>2 DEF t
<1>5. ASSUME NEW k \in 1..Len(toks')
      PROVE  ReadAs(toks[k].kind, toks[k].from, toks[k].to, toks[k].val)'
  <2>1. CASE k \in 1..Len(toks)
    <3>1. ReadAs(toks[k].kind, toks[k].from, toks[k].to, toks[k].val)
      BY <2>1 DEF ValueInv
    <3> QED BY <1>2, <1>4, <2>1, <3>1 DEF ReadAs
  <2>2. CASE k = Len(toks) + 1
    <3>1. toks'[k].kind = kind /\ toks'[k].from = i /\ toks'[k].to = end - 1 /\ toks'[k].val = val
      BY <1>3, <1>4, <2>2
    <3> QED BY <1>2, <3>1 DEF ReadAs
  <2> QED BY <1>1, <1>4, <2>1, <2>2
<1> QED BY <1>5 DEF ValueInv

\* Every action keeps of its token what ReadAs says.
LEMMA ValueStep ==
  ASSUME LexInv, ValueInv, [LexNext]_lexVars PROVE ValueInv'
<1>1. /\ "'" # "E" /\ DoubleQuote # "'" /\ DoubleQuote # "E"
      /\ "$" # "'" /\ "$" # "E" /\ "string" # "quoted"
  BY Distinct
<1>2. ASSUME Whitespace \/ LineComment \/ BlockComment
      PROVE  ValueInv'
  <2>1. PICK kind, end : emit(kind, end, <<>>) /\ kind \in {"space", "comment"}
    BY <1>2 DEF Whitespace, LineComment, BlockComment
  <2>2. ReadAs(kind, i, end - 1, <<>>)
    BY <2>1 DEF ReadAs
  <2> QED BY <2>1, <2>2, EmitValue
<1>3. ASSUME NEW kind, NEW end, NEW val, emit(kind, end, val),
             kind \in {"ident", "op"}, val = SubSeq(src, i, end - 1)
      PROVE  ValueInv'
  <2>1. ReadAs(kind, i, end - 1, val)
    BY <1>3 DEF ReadAs
  <2> QED BY <1>3, <2>1, EmitValue
<1>4. CASE PlainString
  <2> DEFINE end == scanString(i, "'", FALSE)
             val == decodeString(SubSeq(src, i, end - 1), FALSE)
  <2>1. src[i] = "'" /\ emit("string", end, val)
    BY <1>4 DEF PlainString, here
  <2>2. ReadAs("string", i, end - 1, val)
    <3> HIDE DEF end
    <3> QED BY <1>1, <2>1 DEF ReadAs
  <2> HIDE DEF end, val
  <2> QED BY <2>1, <2>2, EmitValue
<1>5. CASE EscapeString
  <2> DEFINE end == scanString(i + 1, "'", TRUE)
             val == decodeString(SubSeq(src, i + 1, end - 1), TRUE)
  <2>1. src[i] = "E" /\ emit("string", end, val)
    BY <1>5 DEF EscapeString, here
  <2>2. ReadAs("string", i, end - 1, val)
    <3> HIDE DEF end
    <3> QED BY <1>1, <2>1 DEF ReadAs
  <2> HIDE DEF end, val
  <2> QED BY <2>1, <2>2, EmitValue
<1>6. CASE QuotedIdent
  <2> DEFINE end == scanString(i, DoubleQuote, FALSE)
             val == readQuoted(SubSeq(src, i, end - 1))
  <2>1. src[i] = DoubleQuote /\ emit("quoted", end, val)
    BY <1>6 DEF QuotedIdent, here, readQuoted
  <2>2. ReadAs("quoted", i, end - 1, val)
    <3> HIDE DEF end
    <3> QED BY <1>1, <2>1 DEF ReadAs
  <2> HIDE DEF end, val
  <2> QED BY <2>1, <2>2, EmitValue
<1>7. CASE Dollar
  <2> DEFINE j == past(i + 1, Word)
             delim == SubSeq(src, i, j)
             close == {c \in (j + 1)..Len(src) : isAt(src, c, delim)}
  <2>1. /\ i <= Len(src) /\ src[i] = "$"
        /\ IF at(src, j) # "$" THEN emit("op", i + 1, <<"$">>)
           ELSE IF close = {} THEN emit("string", Len(src) + 1, <<>>)
           ELSE emit("string", least(close) + Len(delim), SubSeq(src, j + 1, least(close) - 1))
    BY <1>7 DEF Dollar, here
  <2>2. src \in Seq(STRING) /\ i \in 1..Len(src) /\ Len(src) \in Nat
    BY <2>1, InText
  <2>3. /\ j \in (i + 1)..(Len(src) + 1)
        /\ at(src, j) = "$" => j \in 1..Len(src) /\ delimiterEnd(src, i) = j
    BY <2>1, <2>2, DelimiterRight
  <2> HIDE DEF j
  <2>4. CASE at(src, j) # "$"
    <3> DEFINE end == i + 1
    <3>1. emit("op", end, <<"$">>)
      BY <2>1, <2>4
    <3>2. <<"$">> = SubSeq(src, i, end - 1)
      BY <2>1, <2>2
    <3> HIDE DEF end
    <3> QED BY <1>3, <3>1, <3>2
  <2>5. CASE at(src, j) = "$"
    <3>1. j \in (i + 1)..Len(src) /\ delimiterEnd(src, i) = j
      BY <2>2, <2>3, <2>5
    <3>2. /\ close = {} <=> dollarEnds(src, i) = {}
          /\ close # {} => least(close) \in (j + 1)..Len(src)
      BY <2>2, <3>1, DollarRight
    <3>3. Len(delim) = j - i + 1
      BY <2>2, <3>1
    <3> HIDE DEF close, delim
    <3>4. CASE close = {}
      <4> DEFINE end == Len(src) + 1
      <4>1. emit("string", end, <<>>)
        BY <2>1, <2>5, <3>4
      <4>2. ReadAs("string", i, end - 1, <<>>)
        BY <1>1, <2>1, <3>2, <3>4 DEF ReadAs
      <4> HIDE DEF end
      <4> QED BY <4>1, <4>2, EmitValue
    <3>5. CASE close # {}
      <4> DEFINE end == least(close) + Len(delim)
                 val == SubSeq(src, j + 1, least(close) - 1)
      <4>1. emit("string", end, val)
        BY <2>1, <2>5, <3>5
      <4>2. least(close) - 1 = end - 1 - (j - i) - 1
        BY <2>2, <3>1, <3>2, <3>3, <3>5
      <4>3. ReadAs("string", i, end - 1, val)
        <5> HIDE DEF end
        <5> QED BY <1>1, <2>1, <3>1, <4>2 DEF ReadAs
      <4> HIDE DEF end, val
      <4> QED BY <4>1, <4>3, EmitValue
    <3> QED BY <3>4, <3>5
  <2> QED BY <2>4, <2>5
<1>8. CASE Identifier
  <2>1. PICK end : emit("ident", end, SubSeq(src, i, end - 1))
    BY <1>8 DEF Identifier
  <2> QED BY <1>3, <2>1
<1>9. CASE Operator
  <2> DEFINE fits == {op \in MultiOps : isAt(src, i, op)}
             size == IF fits = {} THEN 1
                     ELSE Len(CHOOSE op \in fits : \A o \in fits : Len(o) <= Len(op))
             end == i + size
  <2>1. i <= Len(src) /\ emit("op", i + size, SubSeq(src, i, i + size - 1))
    BY <1>9 DEF Operator
  <2>2. i \in Nat /\ size \in Nat
    BY <2>1, InText, OperatorRight
  <2> HIDE DEF size
  <2>3. SubSeq(src, i, i + size - 1) = SubSeq(src, i, end - 1)
    BY <2>2
  <2> DEFINE val == SubSeq(src, i, i + size - 1)
  <2>4. emit("op", end, val)
    BY <2>1
  <2>5. val = SubSeq(src, i, end - 1)
    BY <2>3
  <2> HIDE DEF end, val
  <2> QED BY <1>3, <2>4, <2>5
<1>10. CASE Split \/ UNCHANGED lexVars
  <2>1. src' = src /\ toks' = toks
    BY <1>10 DEF Split, lexVars
  <2> QED BY <2>1 DEF ValueInv, ReadAs
<1> QED BY <1>2, <1>4, <1>5, <1>6, <1>7, <1>8, <1>9, <1>10 DEF LexNext

\* A quoted token that closes is read as what it says.
LEMMA QuotedValue ==
  ASSUME src \in Seq(STRING), NEW from \in 1..Len(src), NEW to \in from..Len(src),
         NEW kind \in {"string", "quoted"}, NEW val,
         lexeme(kind, to) = Lexeme(src, from), ReadAs(kind, from, to, val),
         LET esc  == src[from] = "E"
             q    == IF kind = "quoted" THEN DoubleQuote ELSE "'"
             open == IF esc THEN from + 1 ELSE from
             body == SubSeq(src, open + 1, to - 1)
         IN  /\ src[open] = q /\ to \in closings(src, open, q, esc)
             /\ esc => \A j \in 1..(Len(body) - 1) :
                  body[j] = "\\" => body[j + 1] \in {"'", "\\"}
  PROVE  LET esc  == src[from] = "E"
             q    == IF kind = "quoted" THEN DoubleQuote ELSE "'"
             open == IF esc THEN from + 1 ELSE from
         IN  val = meant(SubSeq(src, open + 1, to - 1), q, esc)
<1> DEFINE esc  == src[from] = "E"
           q    == IF kind = "quoted" THEN DoubleQuote ELSE "'"
           open == IF esc THEN from + 1 ELSE from
           body == SubSeq(src, open + 1, to - 1)
           raw  == SubSeq(src, open, to)
<1> SUFFICES ASSUME src[open] = q, to \in closings(src, open, q, esc),
                    esc => \A j \in 1..(Len(body) - 1) :
                             body[j] = "\\" => body[j + 1] \in {"'", "\\"}
             PROVE  val = meant(body, q, esc)
  OBVIOUS
<1>1. /\ src \in Seq(STRING) /\ from \in 1..Len(src) /\ to \in from..Len(src)
      /\ lexeme(kind, to) = Lexeme(src, from) /\ ReadAs(kind, from, to, val)
  OBVIOUS
<1>2. /\ DoubleQuote # "E" /\ DoubleQuote # "\\" /\ DoubleQuote # Nothing /\ DoubleQuote # "'"
      /\ "'" # "E" /\ "'" # "\\" /\ "'" # Nothing /\ "string" # "quoted"
  BY Distinct
<1>3. ASSUME open \in 1..Len(src), to = quotedEnd(src, open, q, esc)
      PROVE  /\ body \in Seq(STRING) /\ Len(raw) >= 2 /\ raw[Len(raw)] = q
             /\ unquoted(raw, q) = merged(body, q, q)
             /\ \E B : Units(body, q, marks(q, esc), B)
  <2>1. q # "\\" /\ q # Nothing
    BY <1>2
  <2> HIDE DEF open, q, esc, body, raw
  <2>2. ReadPlain(open, q, esc, to)
    BY <1>1, <1>3, <2>1, ClosedText
  <2> QED BY <2>2 DEF ReadPlain, body, raw
<1>4. ASSUME ~esc, open \in 1..Len(src), to = quotedEnd(src, open, q, esc)
      PROVE  merged(body, q, q) = meant(body, q, esc)
  <2>1. marks(q, esc) = {q}
    BY <1>4 DEF marks
  <2> DEFINE M == marks(q, esc)
  <2>2. q \in M
    BY <2>1
  <2> HIDE DEF M, body, q, esc
  <2>3. M = marks(q, esc) /\ M = {q} => merged(body, q, q) = meant(body, q, esc)
    <3>1. PICK B : Units(body, q, M, B)
      BY <1>3, <1>4 DEF M
    <3> QED BY <1>3, <1>4, <2>2, <3>1, MeantPlain
  <2> QED BY <2>1, <2>3 DEF M
<1>5. CASE kind = "quoted"
  <2>1. src[from] = DoubleQuote /\ val = readQuoted(SubSeq(src, from, to)) /\ ~esc
    BY <1>1, <1>2, <1>5 DEF ReadAs
  <2>2. open = from /\ q = DoubleQuote
    BY <1>5, <2>1
  <2>3. Lexeme(src, from) = lexeme("quoted", quotedEnd(src, from, DoubleQuote, FALSE))
    BY <2>1, LexemeCases
  <2>4. to = quotedEnd(src, open, q, esc)
    <3>1. to = quotedEnd(src, from, DoubleQuote, FALSE)
      <4> DEFINE end == quotedEnd(src, from, DoubleQuote, FALSE)
      <4>1. lexeme(kind, to) = lexeme("quoted", end)
        BY <1>1, <2>3
      <4> HIDE DEF end
      <4>2. to = end
        BY <4>1 DEF lexeme
      <4> QED BY <4>2 DEF end
    <3>2. esc = FALSE
      BY <2>1
    <3> QED BY <2>2, <3>1, <3>2
  <2>5. val = unquoted(raw, q)
    BY <1>1, <1>3, <2>1, <2>2, <2>4 DEF readQuoted
  <2> QED BY <1>1, <1>3, <1>4, <2>1, <2>2, <2>4, <2>5
<1>6. CASE kind = "string" /\ ~esc
  <2>1. open = from /\ q = "'" /\ src[from] = "'"
    BY <1>2, <1>6
  <2>2. val = decodeString(SubSeq(src, from, to), FALSE)
    BY <1>1, <1>6, <2>1 DEF ReadAs
  <2>3. Lexeme(src, from) = lexeme("string", quotedEnd(src, from, "'", FALSE))
    BY <2>1, LexemeCases
  <2>4. to = quotedEnd(src, open, q, esc)
    <3>1. to = quotedEnd(src, from, "'", FALSE)
      <4> DEFINE end == quotedEnd(src, from, "'", FALSE)
      <4>1. lexeme(kind, to) = lexeme("string", end)
        BY <1>1, <2>3
      <4> HIDE DEF end
      <4>2. to = end
        BY <4>1 DEF lexeme
      <4> QED BY <4>2 DEF end
    <3>2. esc = FALSE
      BY <1>6
    <3> QED BY <2>1, <3>1, <3>2
  <2>5. Len(raw) >= 2
    BY <1>1, <1>3, <2>1, <2>4
  <2>6. val = unquoted(raw, q)
    <3>1. Len(raw) \in Nat
      BY <1>1, <2>1
    <3> HIDE DEF raw
    <3>2. decodeString(raw, FALSE) = unquoted(raw, "'")
      BY <2>5, <3>1 DEF decodeString
    <3> QED BY <2>1, <2>2, <3>2 DEF raw
  <2> QED BY <1>1, <1>3, <1>4, <1>6, <2>1, <2>4, <2>6
<1>7. CASE kind = "string" /\ esc
  <2>1. open = from + 1 /\ q = "'" /\ src[from] = "E" /\ src[from + 1] = "'"
    BY <1>2, <1>7
  <2>2. val = decodeString(raw, TRUE)
    BY <1>1, <1>7, <2>1 DEF ReadAs
  <2>3. from + 1 \in 1..Len(src)
    <3>1. to \in (open + 1)..Len(src)
      BY DEF closings
    <3> QED BY <1>1, <2>1, <3>1
  <2>4. Lexeme(src, from) = lexeme("string", quotedEnd(src, from + 1, "'", TRUE))
    <3>1. at(src, from + 1) = "'"
      BY <2>1, <2>3 DEF at
    <3> QED BY <2>1, <3>1, LexemeCases
  <2>5. to = quotedEnd(src, open, q, esc)
    <3>1. to = quotedEnd(src, from + 1, "'", TRUE)
      <4> DEFINE end == quotedEnd(src, from + 1, "'", TRUE)
      <4>1. lexeme(kind, to) = lexeme("string", end)
        BY <1>1, <2>4
      <4> HIDE DEF end
      <4>2. to = end
        BY <4>1 DEF lexeme
      <4> QED BY <4>2 DEF end
    <3>2. esc = TRUE
      BY <1>7
    <3> QED BY <2>1, <3>1, <3>2
  <2>6. /\ body \in Seq(STRING) /\ Len(raw) >= 2 /\ unquoted(raw, q) = merged(body, q, q)
        /\ \E B : Units(body, q, marks(q, esc), B)
    BY <1>3, <2>1, <2>3, <2>5
  <2>7. val = merged(merged(merged(body, q, q), "\\", q), "\\", "\\")
    <3>1. Len(raw) \in Nat
      BY <1>1, <2>3, <2>1
    <3> HIDE DEF raw, body
    <3>2. decodeString(raw, TRUE)
            = replaceAll(replaceAll(unquoted(raw, "'"), <<"\\", "'">>, "'"),
                         <<"\\", "\\">>, "\\")
      BY <2>6, <3>1 DEF decodeString
    <3> QED BY <2>1, <2>2, <2>6, <3>2 DEF merged
  <2>8. Escapes(body, q)
    <3>1. \A j \in 1..(Len(body) - 1) : body[j] = "\\" => body[j + 1] \in {"'", "\\"}
      BY <1>7
    <3> HIDE DEF body
    <3> QED BY <2>1, <3>1 DEF Escapes
  <2>9. merged(merged(merged(body, q, q), "\\", q), "\\", "\\") = meant(body, q, esc)
    <3>1. marks(q, esc) = {q, "\\"}
      BY <1>7 DEF marks
    <3>2. q # "\\"
      BY <1>2, <2>1
    <3> HIDE DEF body, q, esc
    <3>3. PICK B : Units(body, q, marks(q, esc), B)
      BY <2>6
    <3> QED BY <2>6, <2>8, <3>1, <3>2, <3>3, EscapedText
  <2> QED BY <2>7, <2>9
<1> QED BY <1>5, <1>6, <1>7

\* What stands at the start of a token of a quoted kind.
LEMMA QuotedStart ==
  ASSUME NEW k, Lexeme(src, k).kind \in {"string", "quoted"}
  PROVE  \/ Lexeme(src, k).kind = "quoted" /\ src[k] = DoubleQuote
         \/ Lexeme(src, k).kind = "string" /\ src[k] = "'"
         \/ Lexeme(src, k).kind = "string" /\ src[k] = "E" /\ at(src, k + 1) = "'"
         \/ Lexeme(src, k).kind = "string" /\ src[k] = "$" /\ delimiterEnd(src, k) # 0
<1>1. \A kind, to : lexeme(kind, to).kind = kind
  BY DEF lexeme
<1>2. /\ "space" \notin {"string", "quoted"} /\ "comment" \notin {"string", "quoted"}
      /\ "ident" \notin {"string", "quoted"} /\ "op" \notin {"string", "quoted"}
  OBVIOUS
<1> DEFINE c == src[k]
           d == at(src, k + 1)
<1>3. CASE c \in Space
  <2>1. Lexeme(src, k) = lexeme("space", runEnd(src, k, Space))
    BY <1>3, LexemeCases
  <2>2. Lexeme(src, k).kind = "space"
    BY <1>1, <2>1
  <2> QED BY <1>2, <1>3, <2>2
<1>4. CASE c = "-" /\ d = "-"
  <2>1. Lexeme(src, k) = lexeme("comment", lineEnd(src, k))
    BY <1>4, LexemeCases
  <2>2. Lexeme(src, k).kind = "comment"
    BY <1>1, <2>1
  <2> QED BY <1>2, <1>4, <2>2
<1>5. CASE c = "/" /\ d = "*"
  <2>1. Lexeme(src, k) = lexeme("comment", commentEnd(src, k))
    BY <1>5, LexemeCases
  <2>2. Lexeme(src, k).kind = "comment"
    BY <1>1, <2>1
  <2> QED BY <1>2, <1>5, <2>2
<1>6. CASE c = "'"
  <2>1. Lexeme(src, k) = lexeme("string", quotedEnd(src, k, "'", FALSE))
    BY <1>6, LexemeCases
  <2>2. Lexeme(src, k).kind = "string"
    BY <1>1, <2>1
  <2> QED BY <1>2, <1>6, <2>2
<1>7. CASE c = "E" /\ d = "'"
  <2>1. Lexeme(src, k) = lexeme("string", quotedEnd(src, k + 1, "'", TRUE))
    BY <1>7, LexemeCases
  <2>2. Lexeme(src, k).kind = "string"
    BY <1>1, <2>1
  <2> QED BY <1>2, <1>7, <2>2
<1>8. CASE c = DoubleQuote
  <2>1. Lexeme(src, k) = lexeme("quoted", quotedEnd(src, k, DoubleQuote, FALSE))
    BY <1>8, LexemeCases
  <2>2. Lexeme(src, k).kind = "quoted"
    BY <1>1, <2>1
  <2> QED BY <1>2, <1>8, <2>2
<1>9. CASE c = "$" /\ delimiterEnd(src, k) # 0
  <2>1. Lexeme(src, k) = lexeme("string", dollarEnd(src, k))
    BY <1>9, LexemeCases
  <2>2. Lexeme(src, k).kind = "string"
    BY <1>1, <2>1
  <2> QED BY <1>2, <1>9, <2>2
<1>10. CASE c = "$" /\ delimiterEnd(src, k) = 0
  <2>1. Lexeme(src, k) = lexeme("op", opEnd(src, k))
    BY <1>10, LexemeCases
  <2>2. Lexeme(src, k).kind = "op"
    BY <1>1, <2>1
  <2> QED BY <1>2, <1>10, <2>2
<1>11. CASE c \in Word /\ ~(c = "E" /\ d = "'")
  <2>1. Lexeme(src, k) = lexeme("ident", runEnd(src, k, Word \cup {"$"}))
    BY <1>11, LexemeCases
  <2>2. Lexeme(src, k).kind = "ident"
    BY <1>1, <2>1
  <2> QED BY <1>2, <1>11, <2>2
<1>12. CASE /\ c \notin Word \cup Space \cup {"'", DoubleQuote, "$"}
            /\ ~(c = "-" /\ d = "-") /\ ~(c = "/" /\ d = "*")
  <2>1. Lexeme(src, k) = lexeme("op", opEnd(src, k))
    BY <1>12, LexemeCases
  <2>2. Lexeme(src, k).kind = "op"
    BY <1>1, <2>1
  <2> QED BY <1>2, <1>12, <2>2
<1> QED BY <1>3, <1>4, <1>5, <1>6, <1>7, <1>8, <1>9, <1>10, <1>11, <1>12

LEMMA ValueHolds ==
  ASSUME LexInv, ValueInv PROVE ValuesRight
<1> SUFFICES ASSUME split, NEW k \in 1..Len(toks), legible(src, toks[k].from)
             PROVE  toks[k].val = Value(src, toks[k].from)
  BY DEF ValuesRight
<1> DEFINE from == toks[k].from
           to   == toks[k].to
           kind == toks[k].kind
           val  == toks[k].val
           esc  == src[from] = "E"
           q    == IF kind = "quoted" THEN DoubleQuote ELSE "'"
           open == IF esc THEN from + 1 ELSE from
           body == SubSeq(src, open + 1, to - 1)
           raw  == SubSeq(src, open, to)
<1>1. /\ src \in Seq(STRING) /\ from \in 1..Len(src) /\ to \in from..Len(src)
      /\ lexeme(kind, to) = Lexeme(src, from) /\ ReadAs(kind, from, to, val)
      /\ Lexeme(src, from).kind = kind /\ Lexeme(src, from).to = to
      /\ kind \in Kinds
  <2>1. src \in Seq(STRING)
    <3>1. Word \cup STRING = STRING
      BY TextAssumption
    <3>2. src \in Seq(Word \cup STRING)
      BY SourcesAssumption DEF LexInv, LexShape
    <3> QED BY <3>1, <3>2
  <2>2. TokenSound(k)
    BY DEF LexInv
  <2>3. toks[k] \in Token
    BY DEF LexInv, LexShape
  <2>4. /\ lexeme(kind, to) = Lexeme(src, from)
        /\ Lexeme(src, from).kind = kind /\ Lexeme(src, from).to = to
    BY LegibleSound
  <2> QED BY <2>1, <2>2, <2>3, <2>4 DEF TokenSound, ValueInv, Token
<1>2. legible(src, from) /\ Lexeme(src, from).kind = kind /\ Lexeme(src, from).to = to
  BY <1>1
<1> HIDE DEF from, to, kind, val
<1>3. SUFFICES val = Value(src, from)
  BY DEF from, val
<1>4. CASE kind \in {"space", "comment", "ident", "op"}
  <2>1. CASE kind \in {"space", "comment"}
    BY <1>1, <1>2, <2>1 DEF ReadAs, Value
  <2>2. CASE kind \in {"ident", "op"}
    <3>1. kind \notin {"space", "comment"}
      BY <2>2
    <3>2. val = SubSeq(src, from, to)
      BY <1>1, <2>2 DEF ReadAs
    <3> QED BY <1>2, <2>2, <3>1, <3>2 DEF Value
  <2> QED BY <1>4, <2>1, <2>2
<1>5. ASSUME kind \in {"string", "quoted"}
      PROVE  Value(src, from)
               = IF src[from] = "$"
                 THEN SubSeq(src, delimiterEnd(src, from) + 1,
                             to - (delimiterEnd(src, from) - from) - 1)
                 ELSE meant(body, src[open], esc)
  <2>1. kind \notin {"space", "comment"} /\ kind \notin {"ident", "op"}
    BY <1>5
  <2> QED BY <1>2, <1>5, <2>1 DEF Value, quoteOf
<1>6. CASE kind \in {"string", "quoted"} /\ src[from] = "$"
  <2>1. kind = "string"
    BY <1>2, <1>6, QuotedStart, Distinct
  <2>2. dollarEnds(src, from) # {}
    BY <1>2, <1>6 DEF legible
  <2> QED BY <1>1, <1>5, <1>6, <2>1, <2>2 DEF ReadAs
<1>7. ASSUME kind \in {"string", "quoted"}, src[from] # "$"
      PROVE  val = meant(body, src[open], esc)
  <2>1. \/ kind = "quoted" /\ src[from] = DoubleQuote
        \/ kind = "string" /\ src[from] = "'"
        \/ kind = "string" /\ esc /\ at(src, from + 1) = "'"
    BY <1>2, <1>7, QuotedStart
  <2>2. src[open] = q
    <3>1. DoubleQuote # "E" /\ "'" # "E" /\ "'" # Nothing /\ "string" # "quoted"
      BY Distinct
    <3>2. at(src, from + 1) = "'" => src[from + 1] = "'"
      BY <3>1 DEF at
    <3> QED BY <2>1, <3>1, <3>2
  <2>3. to \in closings(src, open, q, esc)
    BY <1>2, <1>7, <2>2 DEF legible, quoteOf
  <2>4. esc => \A j \in 1..(Len(body) - 1) : body[j] = "\\" => body[j + 1] \in {"'", "\\"}
    <3> SUFFICES ASSUME esc, NEW j \in 1..(Len(body) - 1), body[j] = "\\"
                 PROVE  body[j + 1] \in {"'", "\\"}
      OBVIOUS
    <3>1. open = from + 1 /\ to \in (open + 1)..Len(src)
      BY <2>3 DEF closings
    <3>2. Len(body) = to - 1 - open
      BY <1>1, <3>1
    <3>3. j \in 1..(to - 2 - open)
      BY <1>1, <3>1, <3>2
    <3>4. open + j \in (open + 1)..(to - 2) /\ body[j] = src[open + j]
          /\ body[j + 1] = src[open + j + 1]
      BY <1>1, <3>1, <3>3
    <3>5. \A m \in (open + 1)..(to - 2) : src[m] = "\\" => src[m + 1] \in {"'", "\\"}
      BY <1>2, <1>7, <2>2 DEF legible, quoteOf
    <3> HIDE DEF open, body
    <3> QED BY <3>4, <3>5
  <2> HIDE DEF open, esc, q, body
  <2> QED BY <1>1, <1>7, <2>2, <2>3, <2>4, QuotedValue DEF open, esc, q, body
<1> QED BY <1>1, <1>4, <1>5, <1>6, <1>7 DEF Kinds

\* lex.go: escaped strings and quoted identifiers tokenize correctly: in every
\* text, a string or a quoted identifier that is closed is read as PostgreSQL
\* reads it, whatever quotes and backslashes stand in it.
THEOREM ValuesRightTheorem == LexSpec => []ValuesRight
<1>1. LexInit => ValueInv
  <2> SUFFICES ASSUME LexInit PROVE ValueInv
    OBVIOUS
  <2>1. Len(toks) = 0
    BY DEF LexInit
  <2> QED BY <2>1 DEF ValueInv
<1>2. LexInv /\ ValueInv /\ [LexNext]_lexVars => ValueInv'
  BY ValueStep
<1>3. LexInv /\ ValueInv => ValuesRight
  BY ValueHolds
<1> QED BY <1>1, <1>2, <1>3, LexInvariant, PTL DEF LexSpec

-----------------------------------------------------------------------------
\* The tokens of a text.

\* A token has at least one symbol and ends within its text.
LEMMA LexemeEnds ==
  ASSUME src \in Seq(STRING), NEW k \in 1..Len(src)
  PROVE  Lexeme(src, k).to \in k..Len(src)
<1>1. Len(src) \in Nat /\ k \in 1..Len(src)
  OBVIOUS
<1>2. ASSUME NEW kind, NEW to, Lexeme(src, k) = lexeme(kind, to), to \in k..Len(src)
      PROVE  Lexeme(src, k).to \in k..Len(src)
  BY <1>2 DEF lexeme
<1>3. ASSUME NEW end \in (k + 1)..(Len(src) + 1), NEW to, end - 1 = to
      PROVE  to \in k..Len(src)
  BY <1>1, <1>3
<1> DEFINE c == src[k]
           d == at(src, k + 1)
<1>4. CASE c \in Space
  <2>1. past(k, Space) \in (k + 1)..(Len(src) + 1) /\ past(k, Space) - 1 = runEnd(src, k, Space)
    BY <1>4, Distinct, RunRight
  <2>2. runEnd(src, k, Space) \in k..Len(src)
    BY <1>3, <2>1
  <2> QED BY <1>2, <1>4, <2>2, LexemeCases
<1>5. CASE c = "-" /\ d = "-"
  <2> DEFINE end == past(k, {src[m] : m \in 1..Len(src)} \ {"\n"})
  <2>1. end \in (k + 1)..(Len(src) + 1) /\ end - 1 = lineEnd(src, k)
    BY <1>5, LineRight
  <2> HIDE DEF end
  <2>2. lineEnd(src, k) \in k..Len(src)
    BY <1>3, <2>1
  <2> QED BY <1>2, <1>5, <2>2, LexemeCases
<1>6. CASE c = "/" /\ d = "*"
  <2>1. commentEnd(src, k) \in k..Len(src)
    BY <1>3, <1>6, CommentRight
  <2> QED BY <1>2, <1>6, <2>1, LexemeCases
<1>7. ASSUME NEW m \in k..Len(src), NEW q \in {"'", DoubleQuote}, NEW backslash \in BOOLEAN,
             src[m] = q
      PROVE  quotedEnd(src, m, q, backslash) \in k..Len(src)
  <2>1. m \in 1..Len(src) /\ q # "\\" /\ q # Nothing
    BY <1>1, Distinct
  <2>2. /\ scanString(m, q, backslash) \in (m + 1)..(Len(src) + 1)
        /\ scanString(m, q, backslash) - 1 = quotedEnd(src, m, q, backslash)
    BY <1>7, <2>1, ScanRight
  <2>3. scanString(m, q, backslash) \in (k + 1)..(Len(src) + 1)
    BY <1>1, <2>2
  <2> QED BY <1>3, <2>2, <2>3
<1>8. CASE c = "'"
  <2>1. k \in k..Len(src) /\ src[k] = "'"
    BY <1>1, <1>8
  <2>2. quotedEnd(src, k, "'", FALSE) \in k..Len(src)
    BY <1>7, <2>1
  <2> QED BY <1>2, <1>8, <2>2, LexemeCases
<1>9. CASE c = "E" /\ d = "'"
  <2>1. k + 1 \in k..Len(src) /\ src[k + 1] = "'"
    BY <1>1, <1>9, Distinct DEF at
  <2>2. quotedEnd(src, k + 1, "'", TRUE) \in k..Len(src)
    BY <1>7, <2>1
  <2> QED BY <1>2, <1>9, <2>2, LexemeCases
<1>10. CASE c = DoubleQuote
  <2>1. k \in k..Len(src) /\ src[k] = DoubleQuote
    BY <1>1, <1>10
  <2>2. quotedEnd(src, k, DoubleQuote, FALSE) \in k..Len(src)
    BY <1>7, <2>1
  <2> QED BY <1>2, <1>10, <2>2, LexemeCases
<1>11. opEnd(src, k) \in k..Len(src)
  BY <1>1, OpEndIn
<1>12. CASE c = "$" /\ delimiterEnd(src, k) = 0
  BY <1>2, <1>11, <1>12, LexemeCases
<1>13. CASE c = "$" /\ delimiterEnd(src, k) # 0
  <2> DEFINE j == past(k + 1, Word)
             delim == SubSeq(src, k, j)
             close == {e \in (j + 1)..Len(src) : isAt(src, e, delim)}
  <2>1. /\ j \in (k + 1)..(Len(src) + 1)
        /\ at(src, j) = "$" => j \in 1..Len(src) /\ delimiterEnd(src, k) = j
        /\ at(src, j) # "$" => delimiterEnd(src, k) = 0
    BY <1>13, DelimiterRight
  <2> HIDE DEF j
  <2>2. j \in (k + 1)..Len(src) /\ delimiterEnd(src, k) = j
    BY <1>1, <1>13, <2>1
  <2>3. /\ close = {} => dollarEnd(src, k) = Len(src)
        /\ close # {} => /\ least(close) + Len(delim) \in (k + 1)..(Len(src) + 1)
                         /\ least(close) + Len(delim) - 1 = dollarEnd(src, k)
    BY <2>2, DollarRight
  <2>4. Len(delim) \in Nat
    BY <1>1, <2>2
  <2>5. least(close) \in (j + 1)..Len(src) \/ close = {}
    BY <2>2, DollarRight
  <2> HIDE DEF close, delim
  <2>6. dollarEnd(src, k) \in k..Len(src)
    BY <1>1, <2>2, <2>3, <2>4, <2>5
  <2> QED BY <1>2, <1>13, <2>6, LexemeCases
<1>14. CASE c \in Word /\ ~(c = "E" /\ d = "'")
  <2> DEFINE S == Word \cup {"$"}
  <2>1. c \in S /\ Nothing \notin S
    BY <1>14, Distinct
  <2> HIDE DEF S
  <2>2. past(k, S) \in (k + 1)..(Len(src) + 1) /\ past(k, S) - 1 = runEnd(src, k, S)
    BY <2>1, RunRight
  <2>3. runEnd(src, k, S) \in k..Len(src)
    BY <1>3, <2>2
  <2> QED BY <1>2, <1>14, <2>3, LexemeCases DEF S
<1>15. CASE /\ c \notin Word \cup Space \cup {"'", DoubleQuote, "$"}
            /\ ~(c = "-" /\ d = "-") /\ ~(c = "/" /\ d = "*")
  BY <1>2, <1>11, <1>15, LexemeCases
<1> QED
  BY <1>4, <1>5, <1>6, <1>8, <1>9, <1>10, <1>12, <1>13, <1>14, <1>15

\* So the tokens from each position on are defined.
TokensFrom(t, s) ==
  /\ DOMAIN t = 1..(Len(s) + 1) /\ PgTokens(s) = t[1] /\ t[Len(s) + 1] = <<>>
  /\ \A k \in 1..(Len(s) + 1) : t[k] \in Seq({tokenAt(s, m) : m \in 1..Len(s)})
  /\ \A k \in 1..Len(s) : t[k] = <<tokenAt(s, k)>> \o t[Lexeme(s, k).to + 1]

LEMMA TokensDefined ==
  ASSUME src \in Seq(STRING)
  PROVE  \E t : TokensFrom(t, src)
<1> DEFINE n == Len(src)
           S == 1..(n + 1)
           V == Seq({tokenAt(src, k) : k \in 1..n})
           after(k) == Lexeme(src, k).to + 1
           step(k, t) == IF k > n THEN <<>> ELSE <<tokenAt(src, k)>> \o t[after(k)]
           D == [x \in S \X [S -> V] |-> step(x[1], x[2])]
           m == [k \in S |-> n + 1 - k]
<1>1. n \in Nat
  OBVIOUS
<1>2. \A k \in 1..n : after(k) \in (k + 1)..(n + 1)
  <2> SUFFICES ASSUME NEW k \in 1..n PROVE after(k) \in (k + 1)..(n + 1)
    OBVIOUS
  <2>1. Lexeme(src, k).to \in k..n
    BY LexemeEnds
  <2> QED BY <1>1, <2>1
<1> HIDE DEF after
<1>3. \A k \in S, t \in [S -> V] : step(k, t) \in V
  <2> SUFFICES ASSUME NEW k \in S, NEW t \in [S -> V]
               PROVE  step(k, t) \in V
    OBVIOUS
  <2>1. CASE k > n
    <3>1. <<>> \in V
      OBVIOUS
    <3> HIDE DEF V
    <3> QED BY <2>1, <3>1
  <2> SUFFICES ASSUME ~(k > n)
               PROVE  <<tokenAt(src, k)>> \o t[after(k)] \in V
    <3> HIDE DEF V, S, n
    <3> QED BY <2>1
  <2>2. k \in 1..n
    BY <1>1
  <2>3. after(k) \in S
    BY <1>1, <1>2, <2>2
  <2>4. t[after(k)] \in V
    <3> HIDE DEF S, V
    <3> QED BY <2>3
  <2>5. <<tokenAt(src, k)>> \in V
    BY <2>2
  <2> QED BY <2>4, <2>5
<1>4. D \in [S \X [S -> V] -> V]
  <2> HIDE DEF S, V, step
  <2> QED BY <1>3
<1>5. m \in [S -> 0..n]
  BY <1>1
<1>6. ASSUME NEW x \in S, NEW g \in [S -> V], NEW h \in [S -> V],
             \A y \in S : m[y] < m[x] => g[y] = h[y]
      PROVE  D[<<x, g>>] = D[<<x, h>>]
  <2>1. step(x, g) = step(x, h)
    <3>1. CASE x > n
      BY <3>1
    <3>2. CASE ~(x > n)
      <4>1. x \in 1..n
        BY <1>1, <3>2
      <4>2. after(x) \in S /\ m[after(x)] < m[x]
        BY <1>1, <1>2, <4>1
      <4>3. g[after(x)] = h[after(x)]
        <5> HIDE DEF S, m
        <5> QED BY <1>6, <4>2
      <4> QED BY <4>3
    <3> QED BY <3>1, <3>2
  <2> HIDE DEF step, S, V
  <2> QED BY <2>1
<1>7. \E f \in [S -> V] : f = [x \in S |-> D[<<x, f>>]]
  <2>1. V # {} /\ n \in Nat
    <3>1. <<>> \in V
      OBVIOUS
    <3> HIDE DEF V
    <3> QED BY <1>1, <3>1
  <2>2. \A x \in S, g, h \in [S -> V] :
          (\A y \in S : m[y] < m[x] => g[y] = h[y]) => D[<<x, g>>] = D[<<x, h>>]
    <3> HIDE DEF S, V, D, m
    <3> QED BY <1>6
  <2>3. Decreasing(S, V, n, m, D)
    <3> HIDE DEF S, V, D, m, n
    <3> QED BY <1>4, <1>5, <2>1, <2>2 DEF Decreasing
  <2> HIDE DEF S, V, D, m, n
  <2> QED BY <2>3, Recursion
<1> DEFINE r == CHOOSE t : t = [k \in S |-> step(k, t)]
<1>8. r = [k \in S |-> step(k, r)]
  <2>1. PICK f \in [S -> V] : f = [x \in S |-> D[<<x, f>>]]
    BY <1>7
  <2>2. f = [x \in S |-> step(x, f)]
    <3> HIDE DEF step, S, V
    <3> QED BY <2>1
  <2> HIDE DEF S, V, step
  <2> QED BY <2>2
<1>9. PgTokens(src) = r[1]
  BY DEF PgTokens, after
<1>10. DOMAIN r = S /\ \A k \in S : r[k] = step(k, r)
  <2> HIDE DEF S, step, r
  <2> QED BY <1>8
<1>11. r[n + 1] = <<>>
  <2>1. n + 1 \in S /\ n + 1 > n
    BY <1>1
  <2> HIDE DEF r, S
  <2>2. r[n + 1] = step(n + 1, r)
    BY <1>10, <2>1
  <2> QED BY <2>1, <2>2
<1>12. ASSUME NEW k \in 1..n
       PROVE  r[k] = <<tokenAt(src, k)>> \o r[Lexeme(src, k).to + 1]
  <2>1. k \in S /\ ~(k > n)
    BY <1>1
  <2> HIDE DEF r, S
  <2>2. r[k] = step(k, r)
    BY <1>10, <2>1
  <2> QED BY <2>1, <2>2 DEF after
<1>13. \A k \in S : r[k] \in V
  <2> DEFINE T == {k \in S : r[k] \in V}
  <2>1. ASSUME NEW k \in S, \A j \in (k + 1)..(n + 1) : j \in T
        PROVE  k \in T
    <3>1. CASE k > n
      <4>1. r[k] = <<>>
        <5> HIDE DEF r
        <5> QED BY <1>1, <1>11, <3>1
      <4>2. <<>> \in V
        OBVIOUS
      <4> HIDE DEF r, V
      <4> QED BY <4>1, <4>2
    <3>2. CASE ~(k > n)
      <4>1. k \in 1..n /\ after(k) \in (k + 1)..(n + 1)
        BY <1>1, <1>2, <3>2
      <4>2. r[after(k)] \in V
        <5> HIDE DEF r, V
        <5> QED BY <2>1, <4>1
      <4>3. r[k] = <<tokenAt(src, k)>> \o r[after(k)]
        <5> HIDE DEF r
        <5> QED BY <1>12, <4>1 DEF after
      <4>4. <<tokenAt(src, k)>> \in V
        BY <4>1
      <4> HIDE DEF r
      <4>5. <<tokenAt(src, k)>> \o r[after(k)] \in V
        BY <4>2, <4>4
      <4> HIDE DEF V
      <4> QED BY <4>3, <4>5
    <3> QED BY <3>1, <3>2
  <2>2. \A k \in S : (\A j \in (k + 1)..(n + 1) : j \in T) => k \in T
    BY <2>1
  <2>3. 1 \in Int /\ n + 1 \in Int
    BY <1>1
  <2>4. \A k \in S : k \in T
    <3> HIDE DEF T
    <3> QED BY <2>2, <2>3, Downward
  <2> HIDE DEF r, V
  <2> QED BY <2>4
<1> HIDE DEF r
<1> QED BY <1>9, <1>10, <1>11, <1>12, <1>13 DEF TokensFrom

\* The scan reads no token of such a text but PostgreSQL's.
LEMMA ReadableTokens ==
  ASSUME LexInv, split, readable(src), NEW k \in 1..Len(toks)
  PROVE  legible(src, toks[k].from)
<1> DEFINE n == Len(src)
           Tok == {tokenAt(src, m) : m \in 1..n}
           fine(ts) == \A j \in 1..Len(ts) : legible(src, ts[j].from)
<1>1. src \in Seq(STRING) /\ n \in Nat /\ n = Len(src) /\ Len(toks) \in Nat
  <2>1. Word \cup STRING = STRING
    BY TextAssumption
  <2>2. src \in Seq(Word \cup STRING) /\ toks \in Seq(Token)
    BY SourcesAssumption DEF LexInv, LexShape
  <2> QED BY <2>1, <2>2
<1>2. PICK t : TokensFrom(t, src)
  BY <1>1, TokensDefined
<1>3. \A m \in 1..Len(toks) : TokenSound(m)
  BY DEF LexInv
<1> DEFINE T == {m \in 1..Len(toks) : fine(t[toks[m].from])}
<1>4. ASSUME NEW m \in T
      PROVE  legible(src, toks[m].from) /\ fine(t[toks[m].to + 1])
  <2>1. toks[m].from \in 1..n /\ toks[m].to \in toks[m].from..n /\ fine(t[toks[m].from])
    BY <1>3 DEF TokenSound
  <2> DEFINE from == toks[m].from
             ts == t[from]
             rest == t[Lexeme(src, from).to + 1]
  <2>2. Lexeme(src, from).to \in from..n /\ Lexeme(src, from).to + 1 \in 1..(n + 1)
    <3>1. Lexeme(src, from).to \in from..n
      BY <1>1, <2>1, LexemeEnds
    <3> QED BY <1>1, <2>1, <3>1
  <2>3. ts = <<tokenAt(src, from)>> \o rest /\ rest \in Seq(Tok) /\ tokenAt(src, from) \in Tok
    BY <1>2, <2>1, <2>2 DEF TokensFrom
  <2> HIDE DEF rest, ts, Tok
  <2>4. /\ Len(rest) \in Nat /\ Len(ts) = Len(rest) + 1 /\ ts[1] = tokenAt(src, from)
        /\ \A j \in 1..Len(rest) : ts[j + 1] = rest[j]
    BY <2>3
  <2>5. \A j \in 1..Len(ts) : legible(src, ts[j].from)
    BY <2>1 DEF ts
  <2>6. legible(src, from)
    <3>1. 1 \in 1..Len(ts)
      BY <2>4
    <3>2. tokenAt(src, from).from = from
      BY DEF tokenAt
    <3> HIDE DEF from
    <3> QED BY <2>4, <2>5, <3>1, <3>2
  <2>7. fine(rest)
    <3> SUFFICES ASSUME NEW j \in 1..Len(rest) PROVE legible(src, rest[j].from)
      OBVIOUS
    <3>1. j + 1 \in 1..Len(ts) /\ ts[j + 1] = rest[j]
      BY <2>4
    <3> QED BY <2>5, <3>1
  <2>8. Lexeme(src, from).to = toks[m].to
    BY <2>6, LegibleSound
  <2> QED BY <2>6, <2>7, <2>8 DEF rest
<1>5. ASSUME NEW m \in 1..Len(toks), \A j \in 1..(m - 1) : j \in T
      PROVE  m \in T
  <2>1. CASE m = 1
    <3>1. toks[m].from = 1
      BY <1>3, <2>1 DEF TokenSound
    <3>2. t[1] = PgTokens(src)
      BY <1>2 DEF TokensFrom
    <3> QED BY <3>1, <3>2 DEF readable
  <2>2. CASE m # 1
    <3>1. m - 1 \in 1..(m - 1) /\ m - 1 \in T
      BY <1>1, <1>5, <2>2
    <3>2. toks[m].from = toks[m - 1].to + 1
      BY <1>3, <2>2 DEF TokenSound
    <3>3. fine(t[toks[m - 1].to + 1])
      BY <1>4, <3>1
    <3> QED BY <3>2, <3>3
  <2> QED BY <2>1, <2>2
<1>6. k \in T
  <2>1. \A m \in 1..Len(toks) : (\A j \in 1..(m - 1) : j \in T) => m \in T
    BY <1>5
  <2>2. 1 \in Int /\ Len(toks) \in Int
    BY <1>1
  <2> HIDE DEF T
  <2> QED BY <2>1, <2>2, Upward
<1> QED BY <1>4, <1>6

\* Cut, such a text is the sequence of PostgreSQL's tokens, each as it stands there.
LEMMA TokensCut ==
  ASSUME LexInv, split, readable(src)
  PROVE  PgTokens(src) = [j \in 1..Len(toks) |-> tokenAt(src, toks[j].from)]
<1> DEFINE n == Len(src)
           l == Len(toks)
           rest(m) == [j \in 1..(l - m + 1) |-> tokenAt(src, toks[m + j - 1].from)]
<1>1. src \in Seq(STRING) /\ n \in Nat /\ l \in Nat /\ toks \in Seq(Token)
  <2>1. Word \cup STRING = STRING
    BY TextAssumption
  <2>2. src \in Seq(Word \cup STRING) /\ toks \in Seq(Token)
    BY SourcesAssumption DEF LexInv, LexShape
  <2> QED BY <2>1, <2>2
<1>2. PICK t : TokensFrom(t, src)
  BY <1>1, TokensDefined
<1>3. \A m \in 1..l : TokenSound(m)
  BY DEF LexInv
<1>4. CASE toks = <<>>
  <2>1. n = 0
    BY <1>1, <1>4 DEF LexInv, LexShape
  <2>2. PgTokens(src) = <<>>
    BY <1>2, <2>1 DEF TokensFrom
  <2>3. l = 0
    BY <1>4
  <2> QED BY <2>2, <2>3
<1>5. CASE toks # <<>>
  <2>1. l >= 1 /\ toks[l].to = n
    <3>1. l >= 1
      BY <1>1, <1>5
    <3>2. toks[l].to \in 1..n
      BY <1>1, <1>3, <3>1 DEF TokenSound
    <3>3. toks[l].to + 1 > n
      BY <1>5 DEF LexInv, LexShape
    <3> QED BY <1>1, <3>1, <3>2, <3>3
  <2> DEFINE T == {m \in 1..l : t[toks[m].from] = rest(m)}
  <2>2. ASSUME NEW m \in 1..l, \A j \in (m + 1)..l : j \in T
        PROVE  m \in T
    <3>1. toks[m].from \in 1..n /\ toks[m].to \in toks[m].from..n
      BY <1>3 DEF TokenSound
    <3>2. Lexeme(src, toks[m].from).to = toks[m].to
      BY ReadableTokens, LegibleSound
    <3>3. t[toks[m].from] = <<tokenAt(src, toks[m].from)>> \o t[toks[m].to + 1]
      BY <1>2, <3>2, <3>1 DEF TokensFrom
    <3>4. CASE m = l
      <4>1. t[toks[m].to + 1] = <<>>
        BY <1>2, <2>1, <3>4 DEF TokensFrom
      <4>2. rest(m) = <<tokenAt(src, toks[m].from)>>
        BY <1>1, <3>4
      <4> HIDE DEF rest
      <4> QED BY <3>3, <4>1, <4>2
    <3>5. CASE m # l
      <4>1. m + 1 \in 1..l /\ m + 1 \in (m + 1)..l
        BY <1>1, <3>5
      <4>2. toks[m + 1].from = toks[m].to + 1
        BY <1>1, <1>3, <4>1 DEF TokenSound
      <4>3. t[toks[m].to + 1] = rest(m + 1)
        <5>1. m + 1 \in T
          BY <2>2, <4>1
        <5> HIDE DEF rest
        <5> QED BY <4>2, <5>1
      <4>4. rest(m) = <<tokenAt(src, toks[m].from)>> \o rest(m + 1)
        <5>1. PICK q : q = [j \in 1..l |-> tokenAt(src, toks[j].from)]
          OBVIOUS
        <5>2. q \in Seq({q[j] : j \in 1..l}) /\ Len(q) = l
          BY <1>1, <5>1
        <5>3. \A x \in 1..l : rest(x) = [j \in 1..(l - x + 1) |-> q[x + j - 1]]
          BY <1>1, <5>1
        <5> HIDE DEF rest
        <5>4. rest(m) = [j \in 1..(l - m + 1) |-> q[m + j - 1]]
              /\ rest(m + 1) = [j \in 1..(l - m) |-> q[m + j]]
          <6>1. rest(m + 1) = [j \in 1..(l - (m + 1) + 1) |-> q[m + 1 + j - 1]]
            BY <4>1, <5>3
          <6>2. l - (m + 1) + 1 = l - m /\ \A j \in 1..(l - m) : m + 1 + j - 1 = m + j
            BY <1>1
          <6> QED BY <5>3, <6>1, <6>2
        <5>5. <<q[m]>> \o [j \in 1..(l - m) |-> q[m + j]] = [j \in 1..(l - m + 1) |-> q[m + j - 1]]
          <6> DEFINE a == <<q[m]>> \o [j \in 1..(l - m) |-> q[m + j]]
                     b == [j \in 1..(l - m + 1) |-> q[m + j - 1]]
                     Q == {q[j] : j \in 1..l}
          <6>1. l - m \in Nat /\ l - m >= 1
            BY <1>1, <4>1
          <6>2. [j \in 1..(l - m) |-> q[m + j]] \in Seq(Q) /\ <<q[m]>> \in Seq(Q)
            BY <1>1, <6>1
          <6>3. a \in Seq(Q) /\ b \in Seq(Q)
            <7>1. a \in Seq(Q)
              <8> DEFINE y == [j \in 1..(l - m) |-> q[m + j]]
                         z == <<q[m]>>
              <8>1. y \in Seq(Q) /\ z \in Seq(Q)
                BY <6>2
              <8> HIDE DEF Q, y, z
              <8>2. z \o y \in Seq(Q)
                BY <8>1
              <8> QED BY <8>2 DEF y, z
            <7>2. l - m + 1 \in Nat /\ \A j \in 1..(l - m + 1) : q[m + j - 1] \in Q
              BY <1>1, <6>1
            <7> HIDE DEF Q
            <7>3. b \in Seq(Q)
              BY <7>2
            <7> QED BY <7>1, <7>3
          <6>4. Len(a) = l - m + 1 /\ Len(b) = l - m + 1
            <7>1. Len([j \in 1..(l - m) |-> q[m + j]]) = l - m /\ Len(<<q[m]>>) = 1
              BY <6>1
            <7>2. Len(a) = 1 + (l - m)
              <8> HIDE DEF Q
              <8> QED BY <6>2, <7>1
            <7>3. l - m + 1 \in Nat
              BY <6>1
            <7> QED BY <6>1, <7>2, <7>3
          <6>5. \A j \in 1..(l - m + 1) : a[j] = b[j]
            BY <1>1, <6>1, <6>2
          <6> HIDE DEF a, b, Q
          <6> QED BY <6>3, <6>5, <6>4, SeqEqual DEF a, b
        <5>6. q[m] = tokenAt(src, toks[m].from)
          BY <5>1
        <5> QED BY <5>4, <5>5, <5>6
      <4> HIDE DEF rest
      <4> QED BY <3>3, <4>3, <4>4
    <3> QED BY <3>4, <3>5
  <2>3. 1 \in T
    <3>1. \A m \in 1..l : (\A j \in (m + 1)..l : j \in T) => m \in T
      BY <2>2
    <3>2. 1 \in Int /\ l \in Int /\ 1 \in 1..l
      BY <1>1, <2>1
    <3> HIDE DEF T
    <3> QED BY <3>1, <3>2, Downward
  <2>4. toks[1].from = 1
    BY <1>1, <1>3, <2>1 DEF TokenSound
  <2>5. rest(1) = [j \in 1..l |-> tokenAt(src, toks[j].from)]
    BY <1>1
  <2> HIDE DEF rest
  <2> QED BY <1>2, <2>3, <2>4, <2>5 DEF TokensFrom
<1> QED BY <1>4, <1>5

\* A text whose tokens all say what they mean is read as PostgreSQL's tokens of it,
\* with what they say and the lines they are on.
TextRead == split /\ readable(src) => toks = PgTokens(src)

LEMMA TextReadHolds ==
  ASSUME LexInv, ValuesRight PROVE TextRead
<1> SUFFICES ASSUME split, readable(src) PROVE toks = PgTokens(src)
  BY DEF TextRead
<1>1. toks \in Seq(Token) /\ Len(toks) \in Nat
  BY DEF LexInv, LexShape
<1> DEFINE p == PgTokens(src)
<1>2. p = [j \in 1..Len(toks) |-> tokenAt(src, toks[j].from)]
  BY TokensCut
<1>3. ASSUME NEW j \in 1..Len(toks)
      PROVE  toks[j] = tokenAt(src, toks[j].from)
  <2>1. legible(src, toks[j].from)
    BY ReadableTokens
  <2>2. toks[j].val = Value(src, toks[j].from)
    BY <2>1 DEF ValuesRight
  <2>3. TokenSound(j)
    BY DEF LexInv
  <2>4. /\ toks[j].kind = Lexeme(src, toks[j].from).kind
        /\ toks[j].to = Lexeme(src, toks[j].from).to
    BY <2>1, LegibleSound
  <2>5. toks[j].line = 1 + Cardinality({k \in 1..(toks[j].from - 1) : src[k] = "\n"})
    BY <2>3 DEF TokenSound, lines
  <2>6. toks[j] \in Token
    BY <1>1
  <2>7. toks[j] = [kind |-> toks[j].kind, from |-> toks[j].from, to |-> toks[j].to,
                   val |-> toks[j].val, line |-> toks[j].line]
    BY <2>6 DEF Token
  <2> QED BY <2>2, <2>4, <2>5, <2>7 DEF tokenAt
<1>4. toks = [j \in 1..Len(toks) |-> toks[j]]
  BY <1>1
<1> HIDE DEF p
<1> QED BY <1>2, <1>3, <1>4 DEF p

\* lex.go: every text whose tokens all say what they mean is cut into the tokens
\* PostgreSQL reads in it, all of them and nothing else, each with its value.
THEOREM TextReadTheorem == LexSpec => []TextRead
<1>1. LexInv /\ ValuesRight => TextRead
  BY TextReadHolds
<1> QED BY <1>1, LexInvariant, ValuesRightTheorem, PTL

-----------------------------------------------------------------------------
\* Statements.

\* What the loop over the tokens computes.
LoopValues(f, Tok, ts) ==
  /\ f \in [0..Len(ts) -> [stmts : Seq(Seq(Tok)), cur : Seq(Tok)]]
  /\ loop(ts) = f[Len(ts)]
  /\ f[0] = [stmts |-> <<>>, cur |-> <<>>]
  /\ \A k \in 1..Len(ts) :
       f[k] = IF isOp(ts[k], <<Semicolon>>) THEN flush(f[k - 1])
              ELSE [stmts |-> f[k - 1].stmts, cur |-> Append(f[k - 1].cur, ts[k])]

LEMMA LoopDefined ==
  ASSUME NEW Tok, NEW ts \in Seq(Tok)
  PROVE  \E f : LoopValues(f, Tok, ts)
<1> DEFINE n == Len(ts)
           S == 0..n
           V == [stmts : Seq(Seq(Tok)), cur : Seq(Tok)]
           step(k, f) == IF k = 0 THEN [stmts |-> <<>>, cur |-> <<>>]
                         ELSE IF isOp(ts[k], <<Semicolon>>) THEN flush(f[k - 1])
                         ELSE [f[k - 1] EXCEPT !.cur = Append(@, ts[k])]
           D == [x \in S \X [S -> V] |-> step(x[1], x[2])]
           m == [k \in S |-> k]
<1>1. n \in Nat
  OBVIOUS
<1>2. ASSUME NEW k \in S, NEW f, k # 0 => f[k - 1] \in V
      PROVE  /\ step(k, f) \in V
             /\ k # 0 => step(k, f) =
                  IF isOp(ts[k], <<Semicolon>>) THEN flush(f[k - 1])
                  ELSE [stmts |-> f[k - 1].stmts, cur |-> Append(f[k - 1].cur, ts[k])]
  <2>1. CASE k = 0
    <3>1. [stmts |-> <<>>, cur |-> <<>>] \in V
      OBVIOUS
    <3> HIDE DEF V
    <3> QED BY <2>1, <3>1
  <2>2. CASE k # 0
    <3>1. PICK v \in V : v = f[k - 1]
      BY <1>2, <2>2
    <3>2. /\ v.stmts \in Seq(Seq(Tok)) /\ v.cur \in Seq(Tok)
          /\ v = [stmts |-> v.stmts, cur |-> v.cur]
      OBVIOUS
    <3>3. ts[k] \in Tok
      BY <1>1, <2>2
    <3>4. flush(v) \in V
      <4>1. Append(v.stmts, v.cur) \in Seq(Seq(Tok)) /\ <<>> \in Seq(Tok)
        BY <3>2
      <4> QED BY <3>2, <4>1 DEF flush
    <3>5. [v EXCEPT !.cur = Append(@, ts[k])]
             = [stmts |-> v.stmts, cur |-> Append(v.cur, ts[k])]
      <4>1. \A w : [v EXCEPT !.cur = w] = [stmts |-> v.stmts, cur |-> w]
        BY <3>2
      <4> QED BY <4>1
    <3>6. [stmts |-> v.stmts, cur |-> Append(v.cur, ts[k])] \in V
      BY <3>2, <3>3
    <3> HIDE DEF V
    <3> QED BY <2>2, <3>1, <3>4, <3>5, <3>6
  <2> QED BY <2>1, <2>2
<1>3. \A k \in S, f \in [S -> V] : step(k, f) \in V
  <2> SUFFICES ASSUME NEW k \in S, NEW f \in [S -> V]
               PROVE  step(k, f) \in V
    OBVIOUS
  <2>1. ASSUME k # 0
        PROVE  f[k - 1] \in V
    <3>1. k - 1 \in S
      BY <1>1, <2>1
    <3> HIDE DEF S, V
    <3> QED BY <3>1
  <2> HIDE DEF S, V, step
  <2> QED BY <1>2, <2>1
<1>4. D \in [S \X [S -> V] -> V]
  <2> HIDE DEF S, V, step
  <2> QED BY <1>3
<1>5. m \in [S -> 0..n]
  BY <1>1
<1>6. ASSUME NEW x \in S, NEW g \in [S -> V], NEW h \in [S -> V],
             \A y \in S : m[y] < m[x] => g[y] = h[y]
      PROVE  D[<<x, g>>] = D[<<x, h>>]
  <2>1. step(x, g) = step(x, h)
    <3>1. CASE x = 0
      BY <3>1
    <3>2. CASE x # 0
      <4>1. x - 1 \in S /\ m[x - 1] < m[x]
        BY <1>1, <3>2
      <4>2. g[x - 1] = h[x - 1]
        <5> HIDE DEF S, m
        <5> QED BY <1>6, <4>1
      <4> HIDE DEF S, m
      <4> QED BY <4>2
    <3> QED BY <3>1, <3>2
  <2> HIDE DEF step, S, V
  <2> QED BY <2>1
<1>7. \E f \in [S -> V] : f = [x \in S |-> D[<<x, f>>]]
  <2>1. V # {} /\ n \in Nat
    <3>1. [stmts |-> <<>>, cur |-> <<>>] \in V
      OBVIOUS
    <3> HIDE DEF V
    <3> QED BY <1>1, <3>1
  <2>2. \A x \in S, g, h \in [S -> V] :
          (\A y \in S : m[y] < m[x] => g[y] = h[y]) => D[<<x, g>>] = D[<<x, h>>]
    <3> HIDE DEF S, V, D, m
    <3> QED BY <1>6
  <2>3. Decreasing(S, V, n, m, D)
    <3> HIDE DEF S, V, D, m, n
    <3> QED BY <1>4, <1>5, <2>1, <2>2 DEF Decreasing
  <2> HIDE DEF S, V, D, m, n
  <2> QED BY <2>3, Recursion
<1> DEFINE r == CHOOSE f : f = [k \in S |-> step(k, f)]
<1>8. r = [k \in S |-> step(k, r)]
  <2>1. PICK f \in [S -> V] : f = [x \in S |-> D[<<x, f>>]]
    BY <1>7
  <2>2. f = [x \in S |-> step(x, f)]
    <3> HIDE DEF step, S, V
    <3> QED BY <2>1
  <2> HIDE DEF S, V, step
  <2> QED BY <2>2
<1>9. loop(ts) = r[Len(ts)]
  BY DEF loop
<1>10. \A k \in S : r[k] = step(k, r)
  <2> HIDE DEF S, step, r
  <2> QED BY <1>8
<1> DEFINE T == {k \in S : r[k] \in V}
<1>11. ASSUME NEW k \in 0..n, \A l \in 0..(k - 1) : l \in T
       PROVE  k \in T
  <2>1. ASSUME k # 0
        PROVE  r[k - 1] \in V
    <3>1. k - 1 \in 0..(k - 1)
      BY <1>1, <2>1
    <3> HIDE DEF V, r
    <3> QED BY <1>11, <3>1
  <2>2. r[k] = step(k, r)
    <3> HIDE DEF step, r
    <3> QED BY <1>10
  <2> HIDE DEF V, step, r
  <2> QED BY <1>2, <2>1, <2>2
<1>12. \A k \in 0..n : k \in T
  <2>1. \A k \in 0..n : (\A l \in 0..(k - 1) : l \in T) => k \in T
    BY <1>11
  <2>2. 0 \in Int /\ n \in Int
    BY <1>1
  <2> HIDE DEF T
  <2> QED BY <2>1, <2>2, Upward
<1>13. r \in [S -> V]
  <2>1. \A k \in S : step(k, r) \in V
    <3> HIDE DEF V, step, r
    <3> QED BY <1>10, <1>12
  <2> HIDE DEF V, step, r, S
  <2>2. r = [k \in S |-> r[k]]
    BY <1>8
  <2> QED BY <1>10, <2>1, <2>2
<1>14. r[0] = [stmts |-> <<>>, cur |-> <<>>]
  <2>1. 0 \in S
    BY <1>1
  <2> HIDE DEF r
  <2> QED BY <1>10, <2>1
<1>15. ASSUME NEW k \in 1..n
       PROVE  r[k] = IF isOp(ts[k], <<Semicolon>>) THEN flush(r[k - 1])
                     ELSE [stmts |-> r[k - 1].stmts, cur |-> Append(r[k - 1].cur, ts[k])]
  <2>1. k \in S /\ k # 0 /\ k - 1 \in 0..n
    BY <1>1
  <2>2. r[k - 1] \in V
    <3> HIDE DEF V, r
    <3> QED BY <1>12, <2>1
  <2>3. r[k] = step(k, r)
    <3> HIDE DEF step, r
    <3> QED BY <1>10, <2>1
  <2> HIDE DEF V, step, r
  <2> QED BY <1>2, <2>1, <2>2, <2>3
<1> HIDE DEF r
<1> QED BY <1>9, <1>13, <1>14, <1>15 DEF LoopValues

LEMMA SplitType ==
  ASSUME NEW Tok, NEW ts \in Seq(Tok)
  PROVE  splitStatements(ts) \in Seq(Seq(Tok))
<1>1. PICK f : LoopValues(f, Tok, ts)
  BY LoopDefined
<1>2. loop(ts) \in [stmts : Seq(Seq(Tok)), cur : Seq(Tok)]
  <2>1. Len(ts) \in 0..Len(ts)
    <3>1. Len(ts) \in Nat
      OBVIOUS
    <3> QED BY <3>1
  <2> QED BY <1>1, <2>1 DEF LoopValues
<1>3. loop(ts).stmts \in Seq(Seq(Tok)) /\ loop(ts).cur \in Seq(Tok)
  BY <1>2
<1>4. Append(loop(ts).stmts, loop(ts).cur) \in Seq(Seq(Tok))
  BY <1>3
<1> QED BY <1>3, <1>4 DEF splitStatements, flush

\* The tokens lie end to end, and the line a note, a blocker or an origin quotes
\* is the one its token is on.
THEOREM LexTypeOKTheorem == LexSpec => []LexTypeOK
<1>1. ASSUME LexInv
      PROVE  LexTypeOK
  <2>1. stmts \in Seq(Seq(Token))
    <3>1. toks \in Seq(Token) /\ <<>> \in Seq(Seq(Token))
      BY <1>1 DEF LexInv, LexShape
    <3>2. splitStatements(toks) \in Seq(Seq(Token))
      BY <3>1, SplitType
    <3>3. stmts = splitStatements(toks) \/ stmts = <<>>
      BY <1>1 DEF LexInv, LexShape
    <3> QED BY <3>1, <3>2, <3>3
  <2>2. \A k \in 1..Len(toks) :
          /\ toks[k].from = IF k = 1 THEN 1 ELSE toks[k - 1].to + 1
          /\ toks[k].line = 1 + lines(1, toks[k].from - 1)
    BY <1>1 DEF LexInv, TokenSound
  <2> QED BY <1>1, <2>1, <2>2 DEF LexInv, LexShape, LexTypeOK
<1> QED BY <1>1, LexInvariant, PTL

\* Of two tokens the earlier one ends before the later one starts.
LEMMA Ordered ==
  ASSUME LexInv, NEW x \in 1..Len(toks), NEW y \in 1..Len(toks)
  PROVE  /\ toks[x].from \in Nat /\ toks[x].to \in Nat /\ toks[x].from <= toks[x].to
         /\ x < y => toks[x].to < toks[y].from
<1>1. Len(toks) \in Nat
  BY DEF LexInv, LexShape
<1>2. Len(src) \in Nat
  <2>1. Word \cup STRING = STRING
    BY TextAssumption
  <2>2. src \in Seq(STRING)
    BY <2>1, SourcesAssumption DEF LexInv, LexShape
  <2> QED BY <2>2
<1>3. \A k \in 1..Len(toks) :
        /\ toks[k].from \in Nat /\ toks[k].to \in Nat /\ toks[k].from <= toks[k].to
        /\ k # 1 => toks[k].from = toks[k - 1].to + 1
  BY <1>2 DEF LexInv, TokenSound
<1> DEFINE T == {k \in 1..Len(toks) : x < k => toks[x].to < toks[k].from}
<1>4. ASSUME NEW k \in 1..Len(toks), \A j \in 1..(k - 1) : j \in T
      PROVE  k \in T
  <2> SUFFICES ASSUME x < k
               PROVE  toks[x].to < toks[k].from
    OBVIOUS
  <2>1. k - 1 \in 1..Len(toks) /\ k - 1 \in 1..(k - 1) /\ k # 1 /\ x <= k - 1
    BY <1>1
  <2>2. toks[k].from = toks[k - 1].to + 1 /\ toks[k - 1].to \in Nat
    BY <1>3, <2>1
  <2>3. CASE x = k - 1
    BY <2>2, <2>3
  <2>4. CASE x < k - 1
    <3>1. toks[x].to < toks[k - 1].from
      BY <1>4, <2>1, <2>4
    <3>2. /\ toks[x].to \in Nat /\ toks[k - 1].from \in Nat
          /\ toks[k - 1].from <= toks[k - 1].to
      BY <1>3, <2>1
    <3> QED BY <2>2, <3>1, <3>2
  <2> QED BY <2>1, <2>3, <2>4
<1>5. \A k \in 1..Len(toks) : k \in T
  <2>1. \A k \in 1..Len(toks) : (\A j \in 1..(k - 1) : j \in T) => k \in T
    BY <1>4
  <2>2. 1 \in Int /\ Len(toks) \in Int
    BY <1>1
  <2> HIDE DEF T
  <2> QED BY <2>1, <2>2, Upward
<1> QED BY <1>3, <1>5

semicolon(x) == isOp(toks[x], <<Semicolon>>)

\* The tokens from lo to hi, of the first b, none of them a semicolon, are s.
Stretch(s, lo, hi, b) ==
  /\ lo \in 1..b /\ hi \in lo..b
  /\ s # <<>> /\ s[1] = toks[lo] /\ s[Len(s)] = toks[hi]
  /\ \A x \in lo..hi : ~semicolon(x)

\* Statements made of the first b tokens: each a stretch of them, a semicolon
\* between any two, and nothing significant left out.
Whole(st, b) ==
  /\ \A m \in 1..Len(st) : \E lo \in 1..b, hi \in 1..b : Stretch(st[m], lo, hi, b)
  /\ \A m \in 1..(Len(st) - 1) : \E x \in 1..b :
       /\ semicolon(x)
       /\ st[m][Len(st[m])].to <= toks[x].from /\ toks[x].from <= st[m + 1][1].from
  /\ \A x \in 1..b : significant(toks[x]) /\ ~semicolon(x) =>
       \E m \in 1..Len(st) :
         st[m][1].from <= toks[x].from /\ toks[x].from <= st[m][Len(st[m])].to

\* What the loop keeps after k tokens: the statement begun at the a-th.
Pending(acc, a, k) ==
  /\ a \in 1..(k + 1) /\ acc.cur = SubSeq(toks, a, k)
  /\ \A x \in a..k : ~semicolon(x)
  /\ a > 1 => semicolon(a - 1)
  /\ acc.stmts \in Seq(Seq(Token)) /\ Whole(acc.stmts, a - 1)

LEMMA StretchOf ==
  ASSUME LexInv, NEW a \in 1..Len(toks), NEW k \in a..Len(toks)
  PROVE  LET s == SubSeq(toks, a, k)
         IN  /\ s \in Seq(Token) /\ s # <<>> /\ s[1] = toks[a] /\ s[Len(s)] = toks[k]
             /\ Len(s) = k - a + 1 /\ \A j \in 1..Len(s) : s[j] = toks[a + j - 1]
<1>1. toks \in Seq(Token) /\ Len(toks) \in Nat
  BY DEF LexInv, LexShape
<1> DEFINE s == SubSeq(toks, a, k)
<1>2. /\ s \in Seq(Token) /\ Len(s) = k - a + 1
      /\ \A j \in 1..Len(s) : s[j] = toks[a + j - 1]
  BY <1>1
<1>3. Len(s) \in 1..Len(s) /\ 1 \in 1..Len(s) /\ a + Len(s) - 1 = k /\ a + 1 - 1 = a
  BY <1>1, <1>2
<1> HIDE DEF s
<1>4. s # <<>>
  BY <1>2, <1>3
<1>5. s[1] = toks[a] /\ s[Len(s)] = toks[k]
  BY <1>2, <1>3
<1> QED BY <1>2, <1>4, <1>5 DEF s

\* flush makes a statement of what was begun, or drops it when nothing in it is
\* significant.
LEMMA FlushWhole ==
  ASSUME LexInv, NEW k \in 0..Len(toks), NEW acc, NEW a, Pending(acc, a, k)
  PROVE  flush(acc).stmts \in Seq(Seq(Token)) /\ Whole(flush(acc).stmts, k)
<1> DEFINE s == acc.cur
           st == acc.stmts
<1>1. toks \in Seq(Token) /\ Len(toks) \in Nat
  BY DEF LexInv, LexShape
<1>2. /\ a \in 1..(k + 1) /\ s = SubSeq(toks, a, k)
      /\ \A x \in a..k : ~semicolon(x)
      /\ a > 1 => semicolon(a - 1)
      /\ st \in Seq(Seq(Token)) /\ Whole(st, a - 1)
  BY DEF Pending
<1>3. \A m \in 1..Len(st) : \A lo, hi :
        Stretch(st[m], lo, hi, a - 1) => Stretch(st[m], lo, hi, k)
  BY <1>1, <1>2 DEF Stretch
<1>4. 1..(a - 1) \subseteq 1..k
  BY <1>1, <1>2
<1>5. CASE ~\E j \in 1..Len(s) : significant(s[j])
  <2>1. flush(acc).stmts = st
    BY <1>5 DEF flush
  <2>2. ASSUME NEW x \in a..k
        PROVE  ~significant(toks[x])
    <3>1. a \in 1..Len(toks) /\ k \in a..Len(toks)
      BY <1>1, <1>2
    <3>2. Len(s) = k - a + 1 /\ \A j \in 1..Len(s) : s[j] = toks[a + j - 1]
      <4> DEFINE u == SubSeq(toks, a, k)
      <4>1. Len(u) = k - a + 1 /\ \A j \in 1..Len(u) : u[j] = toks[a + j - 1]
        BY <3>1, StretchOf
      <4>2. s = u
        BY <1>2
      <4> HIDE DEF s, u
      <4> QED BY <4>1, <4>2
    <3>3. x - a + 1 \in 1..Len(s) /\ a + (x - a + 1) - 1 = x
      BY <1>1, <1>2, <3>2
    <3>4. s[x - a + 1] = toks[x]
      BY <3>2, <3>3
    <3> QED BY <1>5, <3>3, <3>4
  <2>3. \A x \in 1..k : x \in 1..(a - 1) \/ x \in a..k
    BY <1>1, <1>2
  <2> HIDE DEF s, st
  <2>4. Whole(st, k)
    BY <1>2, <1>3, <1>4, <2>2, <2>3 DEF Whole
  <2> QED BY <1>2, <2>1, <2>4
<1>6. CASE \E j \in 1..Len(s) : significant(s[j])
  <2> DEFINE new == Append(st, s)
  <2>1. flush(acc).stmts = new
    BY <1>6 DEF flush
  <2>2. a \in 1..Len(toks) /\ k \in a..Len(toks) /\ k \in 1..k /\ a \in 1..k
    <3>1. a # k + 1
      <4> SUFFICES ASSUME a = k + 1 PROVE FALSE
        OBVIOUS
      <4>1. Len(SubSeq(toks, a, k)) = 0
        BY <1>1, <1>2
      <4> QED BY <1>2, <1>6, <4>1
    <3> QED BY <1>1, <1>2, <3>1
  <2>3. s \in Seq(Token) /\ s # <<>> /\ s[1] = toks[a] /\ s[Len(s)] = toks[k]
    <3> DEFINE u == SubSeq(toks, a, k)
    <3>1. u \in Seq(Token) /\ u # <<>> /\ u[1] = toks[a] /\ u[Len(u)] = toks[k]
      BY <2>2, StretchOf
    <3>2. s = u
      BY <1>2
    <3> HIDE DEF s, u
    <3> QED BY <3>1, <3>2
  <2> HIDE DEF s, st
  <2>4. /\ new \in Seq(Seq(Token)) /\ Len(new) = Len(st) + 1 /\ new[Len(st) + 1] = s
        /\ Len(st) \in Nat /\ \A m \in 1..Len(st) : new[m] = st[m]
    <3>1. st \in Seq(Seq(Token)) /\ s \in Seq(Token)
      BY <1>2, <2>3
    <3>2. Len(st) \in Nat
      BY <3>1
    <3> DEFINE T == Seq(Token)
    <3>3. st \in Seq(T) /\ s \in T
      BY <3>1
    <3> HIDE DEF T
    <3>4. /\ new \in Seq(T) /\ Len(new) = Len(st) + 1 /\ new[Len(st) + 1] = s
          /\ \A m \in 1..Len(st) : new[m] = st[m]
      BY <3>3, AppendProperties
    <3> QED BY <3>2, <3>4 DEF T
  <2> HIDE DEF new
  <2>5. Stretch(s, a, k, k)
    <3>1. k \in a..k
      BY <1>1, <1>2, <2>2
    <3> QED BY <1>2, <2>2, <2>3, <3>1 DEF Stretch
  <2>6. ASSUME NEW m \in 1..Len(new)
        PROVE  \E lo \in 1..k, hi \in 1..k : Stretch(new[m], lo, hi, k)
    <3>1. CASE m = Len(st) + 1
      BY <2>2, <2>4, <2>5, <3>1
    <3>2. CASE m # Len(st) + 1
      <4>1. m \in 1..Len(st) /\ new[m] = st[m]
        BY <2>4, <3>2
      <4>2. PICK lo \in 1..(a - 1), hi \in 1..(a - 1) : Stretch(st[m], lo, hi, a - 1)
        BY <1>2, <4>1 DEF Whole
      <4> QED BY <1>3, <1>4, <4>1, <4>2
    <3> QED BY <3>1, <3>2
  <2>7. ASSUME NEW m \in 1..(Len(new) - 1)
        PROVE  \E x \in 1..k :
                 /\ semicolon(x)
                 /\ new[m][Len(new[m])].to <= toks[x].from
                 /\ toks[x].from <= new[m + 1][1].from
    <3>1. m \in 1..Len(st) /\ new[m] = st[m]
      BY <2>4
    <3>2. CASE m = Len(st)
      <4>1. PICK lo \in 1..(a - 1), hi \in 1..(a - 1) : Stretch(st[m], lo, hi, a - 1)
        BY <1>2, <3>1 DEF Whole
      <4>2. /\ hi \in lo..(a - 1) /\ st[m][Len(st[m])] = toks[hi]
            /\ \A x \in lo..hi : ~semicolon(x)
        BY <4>1 DEF Stretch
      <4>3. a > 1 /\ a - 1 \in 1..k /\ a - 1 \in 1..Len(toks) /\ hi \in 1..Len(toks)
            /\ hi \in lo..hi
        <5>1. /\ a \in Int /\ k \in Int /\ lo \in Int /\ hi \in Int
              /\ 1 <= lo /\ lo <= hi /\ hi <= a - 1 /\ a - 1 <= k /\ k <= Len(toks)
          BY <1>1, <1>2, <4>1, <4>2
        <5> QED BY <1>1, <5>1
      <4>4. hi < a - 1
        <5>1. hi # a - 1
          BY <1>2, <4>2, <4>3
        <5> QED BY <1>1, <1>2, <4>2, <4>3, <5>1
      <4>5. /\ toks[hi].to < toks[a - 1].from /\ toks[hi].to \in Nat
            /\ toks[a - 1].from \in Nat /\ toks[a - 1].to \in Nat
            /\ toks[a - 1].from <= toks[a - 1].to
        BY <4>3, <4>4, Ordered
      <4>6. toks[a - 1].to < toks[a].from /\ toks[a].from \in Nat
        <5>1. a - 1 < a
          BY <1>2
        <5> QED BY <2>2, <4>3, <5>1, Ordered
      <4>7. new[m + 1] = s
        BY <2>4, <3>2
      <4>8. /\ new[m][Len(new[m])].to <= toks[a - 1].from
            /\ toks[a - 1].from <= new[m + 1][1].from
        <5>1. new[m][Len(new[m])] = toks[hi] /\ new[m + 1][1] = toks[a]
          <6>1. new[m][Len(new[m])] = toks[hi]
            BY <3>1, <4>2
          <6>2. new[m + 1][1] = toks[a]
            BY <2>3, <4>7
          <6> QED BY <6>1, <6>2
        <5>2. /\ toks[hi].to <= toks[a - 1].from
              /\ toks[a - 1].from <= toks[a].from
          <6>1. toks[hi].to <= toks[a - 1].from
            BY <4>5
          <6>2. toks[a - 1].from <= toks[a].from
            <7> DEFINE x == toks[a - 1].from  y == toks[a - 1].to  z == toks[a].from
            <7>1. x \in Nat /\ y \in Nat /\ z \in Nat /\ x <= y /\ y < z
              BY <4>5, <4>6
            <7> HIDE DEF x, y, z
            <7>2. x <= z
              BY <7>1
            <7> QED BY <7>2 DEF x, z
          <6> QED BY <6>1, <6>2
        <5> QED BY <5>1, <5>2
      <4> QED BY <1>2, <4>3, <4>8
    <3>3. CASE m # Len(st)
      <4>1. m \in 1..(Len(st) - 1) /\ new[m + 1] = st[m + 1]
        BY <2>4, <3>1, <3>3
      <4> QED BY <1>2, <1>4, <3>1, <4>1 DEF Whole
    <3> QED BY <3>2, <3>3
  <2>8. ASSUME NEW x \in 1..k, significant(toks[x]), ~semicolon(x)
        PROVE  \E m \in 1..Len(new) :
                 /\ new[m][1].from <= toks[x].from
                 /\ toks[x].from <= new[m][Len(new[m])].to
    <3>1. CASE x \in 1..(a - 1)
      <4>1. PICK m \in 1..Len(st) :
              st[m][1].from <= toks[x].from /\ toks[x].from <= st[m][Len(st[m])].to
        BY <1>2, <2>8, <3>1 DEF Whole
      <4>2. m \in 1..Len(new) /\ new[m] = st[m]
        BY <2>4
      <4> QED BY <4>1, <4>2
    <3>2. CASE x \notin 1..(a - 1)
      <4>1. x \in 1..Len(toks) /\ x \in a..k
        BY <1>1, <1>2, <2>2, <3>2
      <4>2. toks[a].from <= toks[x].from
        <5>1. CASE x = a
          <6>1. toks[x].from \in Nat
            BY <4>1, Ordered
          <6> QED BY <5>1, <6>1
        <5>2. CASE x # a
          <6>1. a < x
            BY <1>2, <4>1, <5>2
          <6>2. /\ toks[a].from <= toks[a].to /\ toks[a].to < toks[x].from
                /\ toks[a].from \in Nat /\ toks[a].to \in Nat /\ toks[x].from \in Nat
            BY <2>2, <4>1, <6>1, Ordered
          <6> QED BY <6>2
        <5> QED BY <5>1, <5>2
      <4>3. toks[x].from <= toks[k].to
        <5>1. k \in 1..Len(toks)
          BY <1>1, <2>2
        <5>2. CASE x = k
          BY <4>1, <5>2, Ordered
        <5>3. CASE x # k
          <6>1. x < k
            BY <1>1, <4>1, <5>3
          <6>2. /\ toks[x].from <= toks[x].to /\ toks[x].to < toks[k].from
                /\ toks[k].from <= toks[k].to /\ toks[k].to \in Nat
                /\ toks[x].from \in Nat /\ toks[x].to \in Nat /\ toks[k].from \in Nat
            BY <4>1, <5>1, <6>1, Ordered
          <6> QED BY <6>2
        <5> QED BY <5>2, <5>3
      <4>4. Len(st) + 1 \in 1..Len(new)
        BY <2>4
      <4> QED BY <2>3, <2>4, <4>2, <4>3, <4>4
    <3> QED BY <3>1, <3>2
  <2>9. Whole(new, k)
    BY <2>6, <2>7, <2>8 DEF Whole
  <2> QED BY <2>1, <2>4, <2>9
<1> QED BY <1>5, <1>6

LEMMA LoopPending ==
  ASSUME LexInv
  PROVE  \E a : Pending(loop(toks), a, Len(toks))
<1>1. toks \in Seq(Token) /\ Len(toks) \in Nat
  BY DEF LexInv, LexShape
<1>2. PICK f : LoopValues(f, Token, toks)
  BY <1>1, LoopDefined
<1>3. /\ loop(toks) = f[Len(toks)]
      /\ f[0] = [stmts |-> <<>>, cur |-> <<>>]
      /\ \A k \in 1..Len(toks) :
           f[k] = IF isOp(toks[k], <<Semicolon>>) THEN flush(f[k - 1])
                  ELSE [stmts |-> f[k - 1].stmts, cur |-> Append(f[k - 1].cur, toks[k])]
  BY <1>2 DEF LoopValues
<1> DEFINE T == {k \in 0..Len(toks) : \E a : Pending(f[k], a, k)}
<1>4. ASSUME NEW k \in 0..Len(toks), \A j \in 0..(k - 1) : j \in T
      PROVE  \E a : Pending(f[k], a, k)
  <2>1. CASE k = 0
    <3>1. f[k].stmts = <<>> /\ f[k].cur = <<>>
      BY <1>3, <2>1
    <3>2. SubSeq(toks, 1, 0) = <<>>
      BY <1>1
    <3>3. Whole(<<>>, 0)
      BY DEF Whole
    <3>4. <<>> \in Seq(Seq(Token))
      OBVIOUS
    <3>5. Pending(f[k], 1, 0)
      BY <3>1, <3>2, <3>3, <3>4 DEF Pending
    <3> QED BY <2>1, <3>5
  <2>2. CASE k # 0
    <3>1. k \in 1..Len(toks) /\ k - 1 \in 0..(k - 1) /\ k - 1 \in 0..Len(toks) /\ k \in Nat
      BY <1>1, <2>2
    <3>2. PICK a : Pending(f[k - 1], a, k - 1)
      BY <1>4, <3>1
    <3>3. /\ a \in 1..k /\ f[k - 1].cur = SubSeq(toks, a, k - 1)
          /\ \A x \in a..(k - 1) : ~semicolon(x)
          /\ a > 1 => semicolon(a - 1)
          /\ f[k - 1].stmts \in Seq(Seq(Token)) /\ Whole(f[k - 1].stmts, a - 1)
      BY <3>1, <3>2 DEF Pending
    <3>4. CASE semicolon(k)
      <4> DEFINE st == f[k].stmts
      <4>1. f[k] = flush(f[k - 1])
        BY <1>3, <3>1, <3>4 DEF semicolon
      <4>2. st \in Seq(Seq(Token)) /\ Whole(st, k - 1)
        BY <3>1, <3>2, <4>1, FlushWhole
      <4>3. f[k].cur = <<>>
        BY <4>1 DEF flush
      <4>4. SubSeq(toks, k + 1, k) = <<>>
        BY <1>1, <3>1
      <4>5. Whole(st, k + 1 - 1)
        <5>1. k + 1 - 1 = k /\ 1..(k - 1) \subseteq 1..k
          BY <3>1
        <5>2. \A s, lo, hi : Stretch(s, lo, hi, k - 1) => Stretch(s, lo, hi, k)
          BY <3>1 DEF Stretch
        <5>3. \A x \in 1..k : ~semicolon(x) => x \in 1..(k - 1)
          BY <3>1, <3>4
        <5> HIDE DEF st
        <5>4. Whole(st, k)
          BY <4>2, <5>1, <5>2, <5>3 DEF Whole
        <5> QED BY <5>1, <5>4
      <4>6. /\ k + 1 \in 1..(k + 1) /\ \A x \in (k + 1)..k : ~semicolon(x)
            /\ semicolon(k + 1 - 1)
        <5>1. k + 1 - 1 = k
          BY <3>1
        <5> QED BY <3>1, <3>4, <5>1
      <4>7. Pending(f[k], k + 1, k)
        BY <4>2, <4>3, <4>4, <4>5, <4>6 DEF Pending
      <4> QED BY <4>7
    <3>5. CASE ~semicolon(k)
      <4>1. f[k] = [stmts |-> f[k - 1].stmts, cur |-> Append(f[k - 1].cur, toks[k])]
        BY <1>3, <3>1, <3>5 DEF semicolon
      <4>2. f[k].stmts = f[k - 1].stmts /\ f[k].cur = Append(f[k - 1].cur, toks[k])
        BY <4>1
      <4>3. SubSeq(toks, a, k) = Append(SubSeq(toks, a, k - 1), toks[k])
        BY <1>1, <3>1, <3>3, SubSeqRecursiveSecond
      <4>4. a \in 1..(k + 1) /\ \A x \in a..k : ~semicolon(x)
        BY <3>1, <3>3, <3>5
      <4>5. Pending(f[k], a, k)
        BY <3>3, <4>2, <4>3, <4>4 DEF Pending
      <4> QED BY <4>5
    <3> QED BY <3>4, <3>5
  <2> QED BY <2>1, <2>2
<1>5. \A k \in 0..Len(toks) : k \in T
  <2>1. \A k \in 0..Len(toks) : (\A j \in 0..(k - 1) : j \in T) => k \in T
    BY <1>4
  <2>2. 0 \in Int /\ Len(toks) \in Int
    BY <1>1
  <2> HIDE DEF T
  <2> QED BY <2>1, <2>2, Upward
<1>6. Len(toks) \in 0..Len(toks)
  BY <1>1
<1> QED BY <1>3, <1>5, <1>6

\* The statements of the history are PostgreSQL's, in their order: nothing
\* significant is lost, none runs over a semicolon that is one, and one that is
\* stands between any two of them.
THEOREM StatementsWholeTheorem == LexSpec => []StatementsWhole
<1>1. ASSUME LexInv, split
      PROVE  StatementsWhole
  <2> DEFINE n == Len(toks)
             ends == {toks[k].from : k \in {j \in 1..n : isOp(toks[j], <<Semicolon>>)}}
             starts == {toks[k].from : k \in {j \in 1..n : significant(toks[j])}}
             lo(m) == stmts[m][1].from
             hi(m) == stmts[m][Len(stmts[m])].to
  <2>1. n \in Nat /\ n \in 0..n
    <3>1. toks \in Seq(Token)
      BY <1>1 DEF LexInv, LexShape
    <3> QED BY <3>1
  <2>2. Whole(stmts, n)
    <3>1. PICK a : Pending(loop(toks), a, Len(toks))
      BY <1>1, LoopPending
    <3>2. Whole(flush(loop(toks)).stmts, Len(toks))
      BY <1>1, <2>1, <3>1, FlushWhole
    <3>3. stmts = flush(loop(toks)).stmts
      BY <1>1 DEF LexInv, LexShape, splitStatements
    <3> QED BY <3>2, <3>3
  <2>3. ASSUME NEW p \in starts \ ends
        PROVE  \E m \in 1..Len(stmts) : lo(m) <= p /\ p <= hi(m)
    <3>1. PICK x \in 1..n : significant(toks[x]) /\ p = toks[x].from
      BY <2>3
    <3>2. ~semicolon(x)
      BY <2>3, <3>1 DEF semicolon
    <3> QED BY <2>2, <3>1, <3>2 DEF Whole
  <2>4. ASSUME NEW m \in 1..Len(stmts), NEW p \in ends, p \in lo(m)..hi(m)
        PROVE  FALSE
    <3>1. PICK x \in 1..n : semicolon(x) /\ p = toks[x].from
      BY DEF semicolon
    <3>2. PICK l \in 1..n, h \in 1..n : Stretch(stmts[m], l, h, n)
      BY <2>2 DEF Whole
    <3>3. /\ stmts[m][1] = toks[l] /\ stmts[m][Len(stmts[m])] = toks[h]
          /\ \A y \in l..h : ~semicolon(y)
      BY <3>2 DEF Stretch
    <3>4. toks[l].from <= toks[x].from /\ toks[x].from <= toks[h].to
      BY <2>4, <3>1, <3>3
    <3>5. ~(x < l)
      <4> SUFFICES ASSUME x < l PROVE FALSE
        OBVIOUS
      <4>1. /\ toks[x].to < toks[l].from /\ toks[x].from <= toks[x].to
            /\ toks[x].from \in Nat /\ toks[x].to \in Nat /\ toks[l].from \in Nat
        BY <1>1, Ordered
      <4> QED BY <3>4, <4>1
    <3>6. ~(h < x)
      <4> SUFFICES ASSUME h < x PROVE FALSE
        OBVIOUS
      <4>1. toks[h].to < toks[x].from /\ toks[x].from \in Nat /\ toks[h].to \in Nat
        BY <1>1, Ordered
      <4> QED BY <3>4, <4>1
    <3>7. x \in l..h
      BY <2>1, <3>5, <3>6
    <3> QED BY <3>1, <3>3, <3>7
  <2>5. ASSUME NEW m \in 1..(Len(stmts) - 1)
        PROVE  ends \cap (hi(m)..lo(m + 1)) # {}
    <3>1. PICK x \in 1..n : /\ semicolon(x)
                            /\ hi(m) <= toks[x].from /\ toks[x].from <= lo(m + 1)
      BY <2>2 DEF Whole
    <3>2. toks[x].from \in ends
      BY <3>1 DEF semicolon
    <3>3. toks[x].from \in hi(m)..lo(m + 1)
      <4>1. toks[x].from \in Nat
        BY <1>1, Ordered
      <4> QED BY <3>1, <4>1
    <3> HIDE DEF ends, lo, hi
    <3> QED BY <3>2, <3>3
  <2> HIDE DEF ends, starts, lo, hi
  <2>6. /\ \A p \in starts \ ends : \E m \in 1..Len(stmts) : lo(m) <= p /\ p <= hi(m)
        /\ \A m \in 1..Len(stmts) : ends \cap (lo(m)..hi(m)) = {}
        /\ \A m \in 1..(Len(stmts) - 1) : ends \cap (hi(m)..lo(m + 1)) # {}
    BY <2>3, <2>4, <2>5
  <2> QED BY <2>6 DEF StatementsWhole, ends, starts, lo, hi
<1>2. LexInv => StatementsWhole
  BY <1>1 DEF StatementsWhole
<1> QED BY <1>2, LexInvariant, PTL

=============================================================================
