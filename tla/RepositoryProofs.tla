------------------------- MODULE RepositoryProofs -------------------------
(* Theorems about what is read from a repository and written to it: the chunks of *)
(* its files, and the patches of the agentic loop.                                *)
EXTENDS AgentLoop, RepositoryChunks, FiniteSetTheorems, SequenceTheorems, WellFoundedInduction, TLAPS

------------------------------------------------------------------------------
(* Least and greatest numbers.                                               *)

(* A set of numbers has a least one; one that is bounded has a greatest.          *)
LEMMA LeastNat ==
    ASSUME NEW T, T \subseteq Nat, T # {}
    PROVE  \E n \in T : \A m \in T : n <= m
<1>1. PICK R : R = OpToRel(<, Nat)
  OBVIOUS
<1>2. IsWellFoundedOn(R, Nat)
  BY <1>1, NatLessThanWellFounded
<1>3. PICK n \in T : \A m \in T : ~(<<m, n>> \in R)
  BY <1>2, WFMin
<1>4. \A m, k \in Nat : m < k => <<m, k>> \in R
  BY <1>1 DEF OpToRel
<1>5. n \in Nat /\ \A m \in T : ~(m < n)
  BY <1>3, <1>4
<1>6. \A m \in T : m \in Nat /\ n <= m
  <2> SUFFICES ASSUME NEW m \in T PROVE m \in Nat /\ n <= m
    OBVIOUS
  <2>1. m \in Nat /\ ~(m < n)
    BY <1>5
  <2> QED BY <1>5, <2>1
<1> QED BY <1>3, <1>6

LEMMA GreatestNat ==
    ASSUME NEW bound \in Nat, NEW T, T \subseteq 0..bound, T # {}
    PROVE  \E n \in T : \A m \in T : m <= n
<1>1. PICK S : S = {bound - n : n \in T}
  OBVIOUS
<1>2. S \subseteq Nat /\ S # {}
  <2>1. \A n \in T : n \in Nat /\ n <= bound /\ bound - n \in Nat
    <3> SUFFICES ASSUME NEW n \in T PROVE n \in Nat /\ n <= bound /\ bound - n \in Nat
      OBVIOUS
    <3>1. n \in 0..bound
      OBVIOUS
    <3> QED BY <3>1
  <2> QED BY <1>1, <2>1
<1>3. PICK s \in S : \A r \in S : s <= r
  BY <1>2, LeastNat
<1>4. PICK n \in T : s = bound - n
  BY <1>1, <1>3
<1>5. ASSUME NEW m \in T PROVE m <= n
  <2>1. s <= bound - m
    BY <1>1, <1>3
  <2>2. m \in 0..bound /\ n \in 0..bound
    OBVIOUS
  <2> QED BY <1>4, <2>1, <2>2
<1> QED BY <1>5

------------------------------------------------------------------------------
(* The chunks of a file.                                                     *)

(* Lines of a text: they grow, strictly behind an end of line, and from one place  *)
(* to a later one by the ends of line between them.                                *)
LEMMA LinesGrow ==
    ASSUME NEW S, S \subseteq Nat, IsFiniteSet(S), NEW i \in Int, NEW j \in Int, i <= j
    PROVE  /\ LineOf(i, S) \in Nat /\ LineOf(j, S) \in Nat /\ LineOf(i, S) <= LineOf(j, S)
           /\ (i < j /\ i \in S => LineOf(i, S) < LineOf(j, S))
<1>1. PICK A, B : A = {k \in S : k < i} /\ B = {k \in S : k < j}
  OBVIOUS
<1>2. A \in SUBSET B /\ B \in SUBSET S
  <2>1. \A k \in S : k \in Int
    OBVIOUS
  <2>2. \A k \in S : k < i => k < j
    BY <2>1
  <2> QED BY <1>1, <2>2
<1>3. IsFiniteSet(B)
  BY <1>2, FS_Subset
<1>4. IsFiniteSet(A) /\ Cardinality(A) <= Cardinality(B)
  BY <1>2, <1>3, FS_Subset
<1>5. Cardinality(A) \in Nat /\ Cardinality(B) \in Nat
  BY <1>3, <1>4, FS_CardinalityType
<1>6. LineOf(i, S) = 1 + Cardinality(A) /\ LineOf(j, S) = 1 + Cardinality(B)
  BY <1>1 DEF LineOf
<1>7. ASSUME i < j, i \in S PROVE Cardinality(A) < Cardinality(B)
  <2>1. A \union {i} \in SUBSET B /\ i \notin A
    <3>1. i \in B /\ i \notin A
      BY <1>1, <1>7
    <3> QED BY <1>2, <3>1
  <2>2. Cardinality(A \union {i}) = Cardinality(A) + 1
    BY <1>4, <2>1, FS_AddElement
  <2>3. Cardinality(A \union {i}) <= Cardinality(B)
    BY <1>3, <2>1, FS_Subset
  <2> QED BY <1>5, <2>2, <2>3
<1> QED BY <1>4, <1>5, <1>6, <1>7

LEMMA LinesApart ==
    ASSUME NEW S, S \subseteq Nat, IsFiniteSet(S), NEW p \in Nat, NEW a \in Nat, NEW b \in Nat, a <= b,
           NEW Z, Z = {i \in a + 1..b : p + i \in S}
    PROVE  Cardinality(Z) \in Nat /\ LineOf(p + b + 1, S) = LineOf(p + a + 1, S) + Cardinality(Z)
<1>1. PICK X, Y, W : /\ X = {k \in S : k < p + a + 1} /\ Y = {k \in S : k \in p + a + 1..p + b}
                     /\ W = {k \in S : k < p + b + 1}
  OBVIOUS
<1>2. W = X \union Y /\ X \cap Y = {} /\ X \in SUBSET S /\ Y \in SUBSET S
  <2>1. \A k \in S : k \in Int
    OBVIOUS
  <2>2. \A k \in Int : /\ k < p + b + 1 <=> (k < p + a + 1 \/ k \in p + a + 1..p + b)
                       /\ ~(k < p + a + 1 /\ k \in p + a + 1..p + b)
    OBVIOUS
  <2>3. \A k \in S : (k \in W <=> k \in X \/ k \in Y) /\ ~(k \in X /\ k \in Y)
    BY <1>1, <2>1, <2>2
  <2>4. W \subseteq S /\ X \subseteq S /\ Y \subseteq S
    BY <1>1
  <2> QED BY <2>3, <2>4
<1>3. IsFiniteSet(X) /\ IsFiniteSet(Y)
  BY <1>2, FS_Subset
<1>4. Cardinality({}) = 0
  BY FS_EmptySet
<1>5. Cardinality(W) = Cardinality(X) + Cardinality(Y) - Cardinality({})
  BY <1>2, <1>3, FS_Union
<1>6. IsFiniteSet(Z) /\ Cardinality(Z) = Cardinality(Y)
  <2>1. PICK f : f = [k \in Y |-> k - p]
    OBVIOUS
  <2>2. \A k \in Y : k - p \in Z
    BY <1>1
  <2>3. f \in [Y -> Z]
    BY <2>1, <2>2
  <2>4. \A j, k \in Y : f[j] = f[k] => j = k
    BY <1>1, <2>1
  <2>5. \A i \in Z : p + i \in Y /\ f[p + i] = i
    <3>1. \A i \in Z : p + i \in Y /\ (p + i) - p = i
      BY <1>1
    <3> QED BY <2>1, <3>1
  <2>6. f \in Injection(Y, Z)
    BY <2>3, <2>4 DEF Injection, IsInjective
  <2>7. f \in Surjection(Y, Z)
    BY <2>3, <2>5 DEF Surjection
  <2>8. ExistsBijection(Y, Z)
    BY <2>6, <2>7 DEF ExistsBijection, Bijection
  <2> QED BY <1>3, <2>8, FS_Bijection
<1>7. Cardinality(X) \in Nat /\ Cardinality(Y) \in Nat
  BY <1>3, FS_CardinalityType
<1>8. LineOf(p + b + 1, S) = 1 + Cardinality(W) /\ LineOf(p + a + 1, S) = 1 + Cardinality(X)
  BY <1>1 DEF LineOf
<1> QED BY <1>1, <1>4, <1>5, <1>6, <1>7, <1>8

(* Numbers without a gap between them, from the first one.                         *)
LEMMA WithoutGap ==
    ASSUME NEW n \in Nat, NEW S, S \subseteq 1..n, S # {},
           \A i, j \in S : \A k \in 1..n : i < k /\ k < j => k \in S
    PROVE  /\ FirstOffset(S) \in S /\ FirstOffset(S) \in 1..n
           /\ \A i \in S : FirstOffset(S) <= i
           /\ Cardinality(S) \in Nat
           /\ S = (FirstOffset(S) - 1) + 1..(FirstOffset(S) - 1) + Cardinality(S)
<1>1. S \subseteq Nat
  OBVIOUS
<1>2. \E m \in S : \A i \in S : m <= i
  BY <1>1, LeastNat
<1>3. PICK m : m = FirstOffset(S)
  OBVIOUS
<1>4. m \in S /\ \A i \in S : m <= i
  BY <1>2, <1>3 DEF FirstOffset
<1>5. PICK g \in S : \A i \in S : i <= g
  <2>1. S \subseteq 0..n
    OBVIOUS
  <2> QED BY <2>1, GreatestNat
<1>6. S = m..g
  <2>1. \A k \in S : k \in m..g
    BY <1>1, <1>4, <1>5
  <2>2. m \in 1..n /\ g \in 1..n
    BY <1>4, <1>5
  <2>3. ASSUME NEW k \in m..g PROVE k \in S
    <3>1. k \in 1..n /\ (k = m \/ k = g \/ (m < k /\ k < g))
      BY <2>2, <2>3
    <3> QED BY <1>4, <1>5, <3>1
  <2> QED BY <2>1, <2>3
<1>7. Cardinality(S) = g - m + 1
  <2>1. m \in Int /\ g \in Int /\ ~(m > g)
    BY <1>4, <1>5
  <2> QED BY <1>6, <2>1, FS_Interval
<1>8. m - 1 + 1 = m /\ (m - 1) + (g - m + 1) = g /\ g - m + 1 \in Nat /\ m \in 1..n
  BY <1>4, <1>5
<1>9. S = (m - 1) + 1..(m - 1) + Cardinality(S)
  BY <1>6, <1>7, <1>8
<1> QED BY <1>3, <1>4, <1>7, <1>8, <1>9

(* A text without form feeds: its lines are those of the parser.                   *)
Texts == {t \in Seq(Characters) : \A i \in DOMAIN t : t[i] # "f"}
EndsIn(t) == {i \in DOMAIN t : t[i] = "n"}
LineIn(i, t) == LineOf(i, EndsIn(t))
LEMMA TextIs ==
    ASSUME NEW t \in Texts
    PROVE  /\ Len(t) \in Nat /\ DOMAIN t = 1..Len(t)
           /\ EndsIn(t) \subseteq 1..Len(t) /\ EndsIn(t) \subseteq Nat /\ IsFiniteSet(EndsIn(t))
           /\ (indexing.text = t => EndsOfLine = EndsIn(t) /\ Separators = EndsIn(t))
<1>1. Len(t) \in Nat /\ DOMAIN t = 1..Len(t)
  BY DEF Texts
<1>2. EndsIn(t) \subseteq 1..Len(t)
  BY <1>1 DEF EndsIn
<1>3. IsFiniteSet(1..Len(t))
  BY <1>1, FS_Interval
<1>4. IsFiniteSet(EndsIn(t))
  BY <1>2, <1>3, FS_Subset
<1>5. EndsIn(t) \subseteq Nat
  BY <1>2
<1>6. indexing.text = t => EndsOfLine = EndsIn(t) /\ Separators = EndsIn(t)
  BY DEF EndsOfLine, Separators, EndsIn, SourceText, Texts
<1> QED BY <1>1, <1>2, <1>4, <1>5, <1>6
LEMMA LinesIn ==
    ASSUME NEW t \in Texts, NEW i \in Int, NEW j \in Int
    PROVE  /\ LineIn(i, t) \in Nat /\ LineIn(j, t) \in Nat
           /\ i <= j => LineIn(i, t) <= LineIn(j, t)
           /\ i < j /\ i \in EndsIn(t) => LineIn(i, t) < LineIn(j, t)
<1>1. EndsIn(t) \subseteq Nat /\ IsFiniteSet(EndsIn(t))
  BY TextIs
<1>2. LineIn(i, t) \in Nat /\ LineIn(j, t) \in Nat
  BY <1>1, LinesGrow DEF LineIn
<1>3. i <= j => LineIn(i, t) <= LineIn(j, t)
  BY <1>1, LinesGrow DEF LineIn
<1>4. i < j /\ i \in EndsIn(t) => LineIn(i, t) < LineIn(j, t)
  BY <1>1, LinesGrow DEF LineIn
<1> QED BY <1>2, <1>3, <1>4

(* The offsets of lines that follow one another follow one another.                *)
BeginsAt(offsets) == IF offsets = {} THEN 0 ELSE FirstOffset(offsets) - 1
StaysWithin(t, a, b, from, to) ==
    /\ from \in Nat /\ to \in Nat /\ from <= to /\ to <= Len(t)
    /\ \A i \in from + 1..to : LineIn(i, t) <= b
    /\ (from < to /\ a <= b /\ (\E i \in DOMAIN t : LineIn(i, t) = a)) => LineIn(from + 1, t) = a
LEMMA OffsetsAre ==
    ASSUME NEW t \in Texts, indexing.text = t, NEW a \in Int, NEW b \in Int,
           NEW from, from = BeginsAt(OffsetsOf(a, b)), NEW to, to = from + Cardinality(OffsetsOf(a, b))
    PROVE  StaysWithin(t, a, b, from, to)
<1> SUFFICES /\ from \in Nat /\ to \in Nat /\ from <= to /\ to <= Len(t)
             /\ \A i \in from + 1..to : LineIn(i, t) <= b
             /\ (from < to /\ a <= b /\ (\E i \in DOMAIN t : LineIn(i, t) = a)) => LineIn(from + 1, t) = a
  BY DEF StaysWithin
<1>1. PICK S : S = OffsetsOf(a, b)
  OBVIOUS
<1>2. PICK n \in Nat : n = Len(t)
  BY TextIs
<1>3. DOMAIN t = 1..n /\ EndsIn(t) \subseteq 1..n
  BY <1>2, TextIs
<1>0. PICK L : L = [i \in 1..n |-> LineIn(i, t)]
  OBVIOUS
<1>l. L \in [1..n -> Nat] /\ \A i \in 1..n : LineIn(i, t) = L[i]
  <2>1. \A i \in 1..n : i \in Int
    OBVIOUS
  <2>2. \A i \in 1..n : LineIn(i, t) \in Nat
    BY <2>1, LinesIn
  <2> QED BY <1>0, <2>2
<1>4. \A i, j \in 1..n : /\ i <= j => L[i] <= L[j]
                         /\ i < j /\ i \in EndsIn(t) => L[i] < L[j]
  <2>1. \A i \in 1..n : i \in Int
    OBVIOUS
  <2>2. \A i, j \in 1..n : /\ i <= j => LineIn(i, t) <= LineIn(j, t)
                           /\ i < j /\ i \in EndsIn(t) => LineIn(i, t) < LineIn(j, t)
    BY <2>1, LinesIn
  <2> QED BY <1>l, <2>2
<1>5. S = {i \in 1..n : L[i] \in a..b /\ ~(i \in EndsIn(t) /\ L[i] = b)}
  <2>1. EndsIn(t) = Separators /\ SourceText = t
    BY TextIs DEF SourceText
  <2>2. S = {i \in 1..n : LineIn(i, t) \in a..b /\ ~(i \in EndsIn(t) /\ LineIn(i, t) = b)}
    BY <1>1, <1>3, <2>1 DEF OffsetsOf, LineIn
  <2> QED BY <1>l, <2>2
<1>6. CASE S = {}
  <2>1. Cardinality(S) = 0
    BY <1>6, FS_EmptySet
  <2>2. from = 0 /\ to = 0
    BY <1>1, <1>6, <2>1 DEF BeginsAt
  <2> QED BY <1>2, <2>2
<1>7. CASE S # {}
  <2>1. ASSUME NEW i \in S, NEW j \in S, NEW k \in 1..n, i < k, k < j PROVE k \in S
    <3>1. i \in 1..n /\ j \in 1..n /\ L[i] \in a..b /\ L[j] \in a..b
      BY <1>5
    <3>2. i <= k /\ k <= j
      BY <2>1, <3>1
    <3>3. L[i] <= L[k] /\ L[k] <= L[j] /\ L[k] \in Nat
      <4>1. i <= k => L[i] <= L[k]
        BY <1>4, <3>1
      <4>2. k <= j => L[k] <= L[j]
        BY <1>4, <3>1
      <4> QED BY <1>l, <3>2, <4>1, <4>2
    <3>4. k \in EndsIn(t) => L[k] < L[j]
      <4>1. k < j /\ k \in EndsIn(t) => L[k] < L[j]
        BY <1>4, <3>1
      <4> QED BY <2>1, <4>1
    <3>5. L[k] \in a..b /\ ~(k \in EndsIn(t) /\ L[k] = b)
      BY <3>1, <3>3, <3>4
    <3> QED BY <1>5, <3>5
  <2>2. S \subseteq 1..n
    BY <1>5
  <2>3. PICK m : m = FirstOffset(S)
    OBVIOUS
  <2>4. /\ m \in S /\ m \in 1..n /\ (\A i \in S : m <= i) /\ Cardinality(S) \in Nat
        /\ S = (m - 1) + 1..(m - 1) + Cardinality(S)
    BY <1>7, <2>1, <2>2, <2>3, WithoutGap
  <2>5. from = m - 1 /\ to = (m - 1) + Cardinality(S)
    BY <1>1, <1>7, <2>3 DEF BeginsAt
  <2>6. from \in Nat /\ to \in Nat /\ from <= to /\ from + 1 = m /\ S = from + 1..to
    BY <2>4, <2>5
  <2>7. to <= Len(t)
    <3>1. from + 1 \in S /\ from + 1 <= to
      BY <2>4, <2>6
    <3>2. to \in S
      BY <2>6, <3>1
    <3> QED BY <1>2, <2>2, <3>2
  <2>8. \A i \in from + 1..to : LineIn(i, t) <= b
    <3>1. \A i \in S : i \in 1..n /\ L[i] <= b
      BY <1>l, <1>5
    <3> QED BY <1>l, <2>6, <3>1
  <2>9. ASSUME a <= b, NEW i \in DOMAIN t, L[i] = a PROVE L[m] = a
    <3>1. i \in 1..n /\ L[m] \in Nat /\ L[m] \in a..b
      BY <1>l, <1>3, <1>5, <2>4
    <3>2. CASE m <= i
      <4>1. L[m] <= a
        <5>1. m <= i => L[m] <= L[i]
          BY <1>4, <2>4, <3>1
        <5> QED BY <2>9, <3>2, <5>1
      <4> QED BY <3>1, <4>1
    <3>3. CASE ~(m <= i)
      <4>1. i \notin S
        BY <2>4, <3>3
      <4>2. L[i] = b
        BY <1>5, <2>9, <3>1, <4>1
      <4> QED BY <2>9, <3>1, <4>2
    <3> QED BY <3>2, <3>3
  <2>10. (\E i \in DOMAIN t : LineIn(i, t) = a) => \E i \in DOMAIN t : L[i] = a
    BY <1>3, <1>l
  <2>11. LineIn(m, t) = L[m]
    BY <1>l, <2>4
  <2> QED BY <2>6, <2>7, <2>8, <2>9, <2>10, <2>11
<1> QED BY <1>6, <1>7

(* A chunk is of the text, and of the lines that it says.                          *)
ChunkFields == {"first", "last", "symbol", "from", "to", "joined", "calls", "parent", "part"}
LinesTrue(c, t) ==
    c.from < c.to => /\ c.first = LineIn(c.from + 1, t)
                     /\ \A i \in c.from + 1..c.to : LineIn(i, t) <= c.last
ChunkIs(c, t) ==
    /\ DOMAIN c = ChunkFields
    /\ c.from \in Nat /\ c.to \in Nat /\ c.from <= c.to /\ c.to <= Len(t)
    /\ c.first \in Int /\ c.last \in Int
    /\ LinesTrue(c, t)
LEMMA PythonIs ==
    ASSUME NEW t \in Texts, indexing.text = t, NEW c \in PythonSymbols, c.first <= c.last, c.from < c.to
    PROVE  ChunkIs(c, t)
<1>1. PICK i \in DOMAIN t, j \in DOMAIN t, name \in SymbolNames, called \in SUBSET SymbolNames :
         c = PythonChunk(LineIn(i, t), LineIn(j, t), name, called)
  BY TextIs DEF PythonSymbols, SourceText, LineIn
<1>2. PICK a, b : a = LineIn(i, t) /\ b = LineIn(j, t)
  OBVIOUS
<1>3. a \in Int /\ b \in Int
  <2>1. i \in Int /\ j \in Int
    BY TextIs
  <2> QED BY <1>2, <2>1, LinesIn
<1>4. PICK from, to : from = BeginsAt(OffsetsOf(a, b)) /\ to = from + Cardinality(OffsetsOf(a, b))
  OBVIOUS
<1>5. c = WholeChunk(a, b, name, from, to, TRUE, called, NoSymbol)
  BY <1>1, <1>2, <1>4 DEF PythonChunk, BeginsAt
<1>6. DOMAIN c = ChunkFields /\ c.first = a /\ c.last = b /\ c.from = from /\ c.to = to
  BY <1>5 DEF WholeChunk, ChunkFields
<1>7. /\ from \in Nat /\ to \in Nat /\ from <= to /\ to <= Len(t)
      /\ \A k \in from + 1..to : LineIn(k, t) <= b
      /\ (from < to /\ a <= b /\ (\E k \in DOMAIN t : LineIn(k, t) = a)) => LineIn(from + 1, t) = a
  <2>1. StaysWithin(t, a, b, from, to)
    BY <1>3, <1>4, OffsetsAre
  <2> QED BY <2>1 DEF StaysWithin
<1>8. LineIn(from + 1, t) = a
  BY <1>2, <1>6, <1>7
<1> QED BY <1>3, <1>6, <1>7, <1>8 DEF ChunkIs, LinesTrue

LEMMA TreeIs ==
    ASSUME NEW t \in Texts, indexing.text = t, NEW c \in TreeSymbols, c.from < c.to
    PROVE  ChunkIs(c, t)
<1>1. PICK from \in 0..Len(t), to \in 1..Len(t), name \in SymbolNames, called \in SUBSET SymbolNames :
         c = WholeChunk(LineIn(from + 1, t), LineIn(to, t), name, from, to, FALSE, called, NoSymbol)
  <2>1. EndsOfLine = EndsIn(t) /\ SourceText = t
    BY TextIs DEF SourceText
  <2>2. PICK from \in 0..Len(SourceText), to \in 1..Len(SourceText), name \in SymbolNames, called \in SUBSET SymbolNames :
           c = TreeChunk(from, to, name, called)
    BY DEF TreeSymbols
  <2> QED BY <2>1, <2>2 DEF TreeChunk, LineIn
<1>2. DOMAIN c = ChunkFields /\ c.first = LineIn(from + 1, t) /\ c.last = LineIn(to, t) /\ c.from = from /\ c.to = to
  BY <1>1 DEF WholeChunk, ChunkFields
<1>3. from \in Nat /\ to \in Nat /\ from <= to /\ to <= Len(t)
  <2>1. PICK n \in Nat : n = Len(t)
    BY TextIs
  <2>2. from \in 0..n /\ to \in 1..n /\ from < to
    BY <1>2, <2>1
  <2> QED BY <2>1, <2>2
<1>4. LineIn(from + 1, t) \in Int /\ LineIn(to, t) \in Int
  BY <1>3, LinesIn
<1>5. ASSUME NEW i \in from + 1..to PROVE LineIn(i, t) <= LineIn(to, t)
  <2>1. i \in Int /\ i <= to
    BY <1>3, <1>5
  <2> QED BY <1>3, <2>1, LinesIn
<1> QED BY <1>2, <1>3, <1>4, <1>5 DEF ChunkIs, LinesTrue

LEMMA LineChunkIs ==
    ASSUME NEW t \in Texts, indexing.text = t, NEW name, NEW c \in LineChunks(name)
    PROVE  ChunkIs(c, t)
<1>1. PICK n : n = Cardinality(Splitlines)
  OBVIOUS
<1>2. n \in Nat
  <2>1. PICK D, T, f : D = DOMAIN t /\ T = Splitlines /\ f = [i \in D |-> LineOf(i, Separators)]
    OBVIOUS
  <2>2. T = {LineOf(i, Separators) : i \in D}
    BY <2>1 DEF Splitlines, SourceText
  <2>3. f \in Surjection(D, T)
    BY <2>1, <2>2 DEF Surjection
  <2>4. IsFiniteSet(D)
    BY <2>1, TextIs, FS_Interval
  <2>5. IsFiniteSet(T)
    BY <2>3, <2>4, FS_Surjection
  <2> QED BY <1>1, <2>1, <2>5, FS_CardinalityType
<1>3. PICK a \in Splitlines :
         c = LET last == SmallerOf(a + ChunkLines - 1, n)
                 offsets == OffsetsOf(a, last)
                 from == IF offsets = {} THEN 0 ELSE FirstOffset(offsets) - 1
             IN  WholeChunk(a, last, name, from, from + Cardinality(offsets), TRUE, {}, NoSymbol)
  BY <1>1 DEF LineChunks
<1>4. PICK i \in DOMAIN t : a = LineIn(i, t)
  BY TextIs DEF Splitlines, SourceText, LineIn
<1>5. a \in Int
  <2>1. i \in Int
    BY TextIs
  <2> QED BY <1>4, <2>1, LinesIn
<1>6. PICK b : b = SmallerOf(a + ChunkLines - 1, n)
  OBVIOUS
<1>7. b \in Int
  BY <1>2, <1>5, <1>6, ChunksAssumption DEF SmallerOf
<1>8. PICK from, to : from = BeginsAt(OffsetsOf(a, b)) /\ to = from + Cardinality(OffsetsOf(a, b))
  OBVIOUS
<1>9. c = WholeChunk(a, b, name, from, to, TRUE, {}, NoSymbol)
  BY <1>3, <1>6, <1>8 DEF BeginsAt
<1>10. DOMAIN c = ChunkFields /\ c.first = a /\ c.last = b /\ c.from = from /\ c.to = to
  BY <1>9 DEF WholeChunk, ChunkFields
<1>11. /\ from \in Nat /\ to \in Nat /\ from <= to /\ to <= Len(t)
       /\ \A k \in from + 1..to : LineIn(k, t) <= b
       /\ (from < to /\ a <= b /\ (\E k \in DOMAIN t : LineIn(k, t) = a)) => LineIn(from + 1, t) = a
  <2>1. StaysWithin(t, a, b, from, to)
    BY <1>5, <1>7, <1>8, OffsetsAre
  <2> QED BY <2>1 DEF StaysWithin
<1>12. from < to => a <= b
  <2>1. ASSUME from < to PROVE a <= b
    <3>1. OffsetsOf(a, b) # {}
      <4>1. ASSUME OffsetsOf(a, b) = {} PROVE FALSE
        <5>1. from = 0 /\ to = from + 0
          BY <1>8, <4>1, FS_EmptySet DEF BeginsAt
        <5> QED BY <2>1, <5>1
      <4> QED BY <4>1
    <3>2. PICK k \in DOMAIN t : LineOf(k, Separators) \in a..b
      BY <3>1 DEF OffsetsOf, SourceText
    <3> QED BY <1>5, <1>7, <3>2
  <2> QED BY <2>1
<1> QED BY <1>4, <1>5, <1>7, <1>10, <1>11, <1>12 DEF ChunkIs, LinesTrue

LEMMA ParsedAre ==
    ASSUME NEW t \in Texts, indexing.text = t,
           NEW found \in Parsed \union {LineChunks(name) : name \in SymbolNames \union {NoSymbol}}
    PROVE  \A c \in WithParents(found) : ChunkIs(c, t)
<1>1. ASSUME NEW c \in found PROVE ChunkIs(c, t)
  <2>1. CASE found \in Parsed
    <3>1. PICK S : S = IF indexing.language = "python" THEN {d \in PythonSymbols : d.first <= d.last /\ d.from < d.to}
                       ELSE IF indexing.language = "tree" THEN {d \in TreeSymbols : d.from < d.to} ELSE {}
      OBVIOUS
    <3>2. PICK symbols \in [1..MaxSymbols -> S] : found = Range(symbols)
      BY <2>1, <3>1 DEF Parsed
    <3>3. c \in S
      BY <1>1, <3>2 DEF Range
    <3>4. (c \in PythonSymbols /\ c.first <= c.last /\ c.from < c.to) \/ (c \in TreeSymbols /\ c.from < c.to)
      BY <3>1, <3>3
    <3> QED BY <3>4, PythonIs, TreeIs
  <2>2. CASE found \in {LineChunks(name) : name \in SymbolNames \union {NoSymbol}}
    <3>1. PICK name : found = LineChunks(name)
      BY <2>2
    <3> QED BY <1>1, <3>1, LineChunkIs
  <2> QED BY <2>1, <2>2
<1>2. ASSUME NEW c \in found, NEW p, NEW d, d = [c EXCEPT !.parent = p] PROVE ChunkIs(d, t)
  <2>1. DOMAIN d = ChunkFields /\ d.from = c.from /\ d.to = c.to /\ d.first = c.first /\ d.last = c.last
    BY <1>1, <1>2 DEF ChunkIs, ChunkFields
  <2>2. ChunkIs(c, t)
    BY <1>1
  <2> QED BY <2>1, <2>2 DEF ChunkIs, LinesTrue
<1>3. \A d \in WithParents(found) : \E c \in found : \E p : d = [c EXCEPT !.parent = p]
  BY DEF WithParents
<1> QED BY <1>2, <1>3

(* A part of a chunk: it is of the text as the whole is, within the limit, and the *)
(* next one begins in it or where it ends.                                         *)
LEMMA NewlinesAre ==
    ASSUME NEW t \in Texts, indexing.text = t, NEW c, ChunkIs(c, t), NEW a \in Nat, NEW b \in Nat, a <= b, b <= c.to - c.from
    PROVE  /\ Newlines(c, a, b) \in Nat
           /\ LineIn(c.from + b + 1, t) = LineIn(c.from + a + 1, t) + Newlines(c, a, b)
<1>1. PICK p \in Nat, m \in Nat, n \in Nat : p = c.from /\ m = c.to - c.from /\ n = Len(t) /\ p + m <= n
  <2>1. PICK n \in Nat : n = Len(t)
    BY TextIs
  <2>2. c.from \in Nat /\ c.to \in Nat /\ c.from <= c.to /\ c.to <= n
    BY <2>1 DEF ChunkIs
  <2>3. c.to - c.from \in Nat /\ c.from + (c.to - c.from) <= n
    BY <2>2
  <2> QED BY <2>1, <2>2, <2>3
<1>2. DOMAIN t = 1..n
  BY <1>1, TextIs
<1>3. ASSUME NEW i \in a + 1..b PROVE ContentOf(c)[i] = "n" <=> p + i \in EndsIn(t)
  <2>1. i \in 1..m /\ p + i \in 1..n
    BY <1>1
  <2>2. t[p + i] # "f"
    BY <1>2, <2>1 DEF Texts
  <2>3. PICK f : f = ContentOf(c)
    OBVIOUS
  <2>4. f = [k \in 1..m |-> IF t[p + k] = "f" /\ c.joined THEN "n" ELSE t[p + k]]
    BY <1>1, <2>3 DEF ContentOf, SourceText
  <2>5. f[i] = t[p + i]
    BY <2>1, <2>2, <2>4
  <2> QED BY <1>2, <2>1, <2>3, <2>5 DEF EndsIn
<1>4. PICK Z : Z = {i \in a + 1..b : p + i \in EndsIn(t)}
  OBVIOUS
<1>5. Newlines(c, a, b) = Cardinality(Z)
  <2>1. Z = {i \in a + 1..b : ContentOf(c)[i] = "n"}
    BY <1>3, <1>4
  <2> QED BY <2>1 DEF Newlines
<1>6. EndsIn(t) \subseteq Nat /\ IsFiniteSet(EndsIn(t))
  BY TextIs
<1>7. Cardinality(Z) \in Nat /\ LineOf(p + b + 1, EndsIn(t)) = LineOf(p + a + 1, EndsIn(t)) + Cardinality(Z)
  BY <1>4, <1>6, LinesApart
<1> QED BY <1>1, <1>5, <1>7 DEF LineIn

LEMMA SegmentEnds ==
    ASSUME NEW c, NEW m \in Nat, m = c.to - c.from, NEW start \in Nat, start < m, NEW end, end = SegmentEnd(c, start)
    PROVE  end \in Nat /\ start < end /\ end <= m /\ end - start <= MaxChars
<1>1. PICK w \in Nat \ {0} : w = MaxChars
  <2>1. ChunkTokens \in Nat \ {0} /\ TokenChars \in Nat \ {0}
    BY ChunksAssumption
  <2>2. \A x, y \in Nat \ {0} : x * y \in Nat \ {0}
    OBVIOUS
  <2> QED BY <2>1, <2>2 DEF MaxChars
<1>2. PICK limit : limit = SmallerOf(m, start + w)
  OBVIOUS
<1>3. limit \in Nat /\ start < limit /\ limit <= m /\ limit <= start + w
  BY <1>1, <1>2 DEF SmallerOf
<1>4. PICK S : S = EndsBefore(c, start, limit)
  OBVIOUS
<1>5. end = IF limit < m /\ S # {} THEN CHOOSE i \in S : \A j \in S : j <= i ELSE limit
  BY <1>1, <1>2, <1>4 DEF SegmentEnd
<1>6. CASE ~(limit < m /\ S # {})
  <2>1. end = limit
    BY <1>5, <1>6
  <2> QED BY <1>1, <1>3, <2>1
<1>7. CASE limit < m /\ S # {}
  <2>1. S \subseteq start + 1..limit - 1
    BY <1>4 DEF EndsBefore
  <2>2. S \subseteq 0..limit
    BY <1>3, <2>1
  <2>3. \E i \in S : \A j \in S : j <= i
    BY <1>3, <1>7, <2>2, GreatestNat
  <2>4. end \in S
    BY <1>5, <1>7, <2>3
  <2>5. end \in start + 1..limit - 1
    BY <2>1, <2>4
  <2> QED BY <1>1, <1>3, <2>5
<1> QED BY <1>6, <1>7

LEMMA NextIs ==
    ASSUME NEW start \in Nat, NEW end \in Nat, start < end
    PROVE  NextStart(start, end) \in Nat /\ NextStart(start, end) <= end
<1>1. PICK v \in Nat : v = OverlapChars
  <2>1. OverlapTokens \in Nat /\ TokenChars \in Nat
    BY ChunksAssumption
  <2>2. \A x, y \in Nat : x * y \in Nat
    OBVIOUS
  <2> QED BY <2>1, <2>2 DEF OverlapChars
<1>2. NextStart(start, end) = LargerOf(start + 1, end - v)
  BY <1>1 DEF NextStart
<1> QED BY <1>1, <1>2 DEF LargerOf

PartIn(p, q, n, start, end) ==
    /\ \A i \in p + start + 1..p + end : i \in Int /\ i \in p + 1..q /\ i <= p + end + 1
    /\ p + end + 1 \in Int
    /\ p + start \in Nat /\ p + end \in Nat /\ p + start <= p + end /\ p + end <= n
LEMMA PartLies ==
    ASSUME NEW p \in Nat, NEW q \in Nat, NEW n \in Nat, NEW start \in Nat, NEW end \in Nat, start < end, p + end <= q, q <= n
    PROVE  PartIn(p, q, n, start, end)
BY DEF PartIn

LEMMA SegmentIs ==
    ASSUME NEW t \in Texts, indexing.text = t, NEW c, ChunkIs(c, t), NEW start \in Nat, NEW end \in Nat, start < end,
           end <= c.to - c.from, NEW part, NEW d, d = SegmentOf(c, start, end, part)
    PROVE  ChunkIs(d, t) /\ d.from = c.from + start /\ d.to = c.from + end /\ d.symbol = c.symbol
<1>1. PICK p \in Nat, q \in Nat, n \in Nat :
         p = c.from /\ q = c.to /\ n = Len(t) /\ q <= n /\ p + end <= q
  <2>1. PICK n \in Nat : n = Len(t)
    BY TextIs
  <2>2. c.from \in Nat /\ c.to \in Nat /\ c.from <= c.to /\ c.to <= n
    BY <2>1 DEF ChunkIs
  <2>3. c.from + end <= c.to
    BY <2>2
  <2> QED BY <2>1, <2>2, <2>3
<1>2. c.first = LineIn(p + 1, t) /\ \A i \in p + 1..q : LineIn(i, t) <= c.last
  <2>1. p < q
    BY <1>1
  <2> QED BY <1>1, <2>1 DEF ChunkIs, LinesTrue
<1>3. PICK first, more : first = c.first + Newlines(c, 0, start) /\ more = Newlines(c, start, end)
  OBVIOUS
<1>4. PICK last : last = SmallerOf(c.last, first + more)
  OBVIOUS
<1>5. d = [c EXCEPT !.first = first, !.last = last, !.from = p + start, !.to = p + end, !.part = part]
  BY <1>1, <1>3, <1>4 DEF SegmentOf
<1>6. DOMAIN d = ChunkFields /\ d.first = first /\ d.last = last /\ d.from = p + start /\ d.to = p + end /\ d.symbol = c.symbol
  BY <1>5 DEF ChunkIs, ChunkFields
<1>7. first = LineIn(p + start + 1, t)
  <2>1. 0 <= start /\ start <= c.to - c.from
    BY <1>1
  <2>2. LineIn(c.from + start + 1, t) = LineIn(c.from + 0 + 1, t) + Newlines(c, 0, start)
    BY <2>1, NewlinesAre
  <2>3. p + 0 + 1 = p + 1
    OBVIOUS
  <2> QED BY <1>1, <1>2, <1>3, <2>2, <2>3
<1>8. first + more = LineIn(p + end + 1, t) /\ more \in Nat
  <2>1. start <= end
    OBVIOUS
  <2>2. LineIn(c.from + end + 1, t) = LineIn(c.from + start + 1, t) + Newlines(c, start, end) /\ Newlines(c, start, end) \in Nat
    BY <2>1, NewlinesAre
  <2> QED BY <1>1, <1>3, <1>7, <2>2
<1>9. first \in Int /\ first + more \in Int /\ c.last \in Int
  <2>1. p + start + 1 \in Int /\ p + end + 1 \in Int
    OBVIOUS
  <2> QED BY <1>7, <1>8, <2>1, LinesIn DEF ChunkIs
<1>10. last \in Int
  BY <1>4, <1>9 DEF SmallerOf
<1>11. ASSUME NEW i \in p + start + 1..p + end PROVE LineIn(i, t) <= last
  <2>1. i \in Int /\ i \in p + 1..q /\ i <= p + end + 1 /\ p + end + 1 \in Int
    <3>1. PartIn(p, q, n, start, end)
      BY <1>1, PartLies
    <3> QED BY <3>1, Zenon DEF PartIn
  <2>2. LineIn(i, t) <= c.last
    BY <1>2, <2>1
  <2>3. LineIn(i, t) <= LineIn(p + end + 1, t)
    BY <2>1, LinesIn
  <2>4. last = c.last \/ last = first + more
    BY <1>4 DEF SmallerOf
  <2> QED BY <1>8, <2>2, <2>3, <2>4
<1>12. LinesTrue(d, t)
  <2>1. p + start + 1 = d.from + 1
    BY <1>6
  <2> QED BY <1>6, <1>7, <1>11, <2>1 DEF LinesTrue
<1>13. d.from \in Nat /\ d.to \in Nat /\ d.from <= d.to /\ d.to <= Len(t)
  <2>1. p + start \in Nat /\ p + end \in Nat /\ p + start <= p + end /\ p + end <= n
    <3>1. PartIn(p, q, n, start, end)
      BY <1>1, PartLies
    <3> QED BY <3>1, Zenon DEF PartIn
  <2> QED BY <1>1, <1>6, <2>1
<1> QED BY <1>1, <1>6, <1>9, <1>10, <1>12, <1>13 DEF ChunkIs

LEMMA Quotients ==
    ASSUME NEW m \in Nat, NEW w \in Nat \ {0}, NEW k \in Nat, m \div w <= k
    PROVE  m < k * w + w
<1>1. PICK q \in Nat, r \in Nat : q = m \div w /\ r = m % w
  BY SMTT(30)
<1>2. m = q * w + r /\ r < w
  BY <1>1, SMTT(30)
<1>3. PICK d \in Nat : k = q + d
  BY <1>1
<1>4. k * w = q * w + d * w
  BY <1>3, SMTT(30)
<1>5. q * w \in Nat /\ d * w \in Nat
  BY SMTT(30)
<1>6. PICK x \in Nat, y \in Nat : x = q * w /\ y = d * w
  BY <1>5
<1> QED BY <1>2, <1>4, <1>6
LEMMA TokensBound ==
    ASSUME NEW c, c.to - c.from \in Nat
    PROVE  /\ WithinTokens(c) => c.to - c.from < MaxChars + TokenChars
           /\ ~WithinTokens(c) => 0 < c.to - c.from
<1>1. PICK m \in Nat : m = c.to - c.from
  OBVIOUS
<1>2. TokenChars \in Nat \ {0} /\ ChunkTokens \in Nat \ {0}
  BY ChunksAssumption
<1>3. PICK q : q = m \div TokenChars
  OBVIOUS
<1>4. q \in Nat /\ (m = 0 => q = 0)
  BY <1>2, <1>3, SMTT(30)
<1>5. WithinTokens(c) <=> LargerOf(1, q) <= ChunkTokens
  BY <1>1, <1>3 DEF WithinTokens
<1>6. WithinTokens(c) => q <= ChunkTokens
  BY <1>2, <1>4, <1>5 DEF LargerOf
<1>7. q <= ChunkTokens => m < ChunkTokens * TokenChars + TokenChars
  BY <1>2, <1>3, Quotients
<1>8. ~WithinTokens(c) => m # 0
  BY <1>2, <1>4, <1>5 DEF LargerOf
<1> QED BY <1>1, <1>6, <1>7, <1>8 DEF MaxChars

(* Places of a run, and what is true at each.                                      *)
RunFields == {"pc", "text", "language", "version", "revision", "cancelled", "symbols"}
RunPlaces == {"idle", "snapshot", "parse", "bound", "graph", "ready", "failed"}
Unparsed == {"idle", "snapshot", "parse"}
IdentityIn(c, t) ==
    <<c.symbol, c.first, c.last,
      [i \in 1..c.to - c.from |-> IF t[c.from + i] = "f" /\ c.joined THEN "n" ELSE t[c.from + i]]>>
CoveredTo(s, m, S) ==
    \A i \in s.from + 1..m : \E d \in S : d.symbol = s.symbol /\ s.from <= d.from /\ d.to <= s.to /\ d.from < i /\ i <= d.to
SymbolKept(s, q, k, S) ==
    \/ s \in q
    \/ CoveredTo(s, s.to, S)
    \/ k.whole = {s} /\ CoveredTo(s, s.from + k.start, S)
CutIs(k, t) ==
    \E c : /\ DOMAIN k = {"whole", "start", "part"} /\ k.whole = {c}
           /\ ChunkIs(c, t) /\ k.start \in Nat /\ k.start < c.to - c.from
ChunksAre(S, t) == \A c \in S : ChunkIs(c, t) /\ c.to - c.from < MaxChars + TokenChars
LeadToChunks(E, S, t) == \A e \in E : \E d \in S : e[2] = IdentityIn(d, t)
OneForEach(S, t) == \A c, d \in S : IdentityIn(c, t) = IdentityIn(d, t) => c = d
RunIs(run, q, k, S, E) ==
    /\ DOMAIN run = RunFields /\ run.text \in Texts /\ run.pc \in RunPlaces
    /\ run.pc \in Unparsed => q = {} /\ k = NoCut /\ S = {} /\ run.symbols = {}
    /\ run.pc \in {"graph", "ready"} => q = {} /\ k = NoCut /\ LeadToChunks(E, S, run.text)
    /\ run.pc = "ready" => OneForEach(S, run.text)
ChunksInv ==
    /\ RunIs(indexing, queue, cut, chunks, calls)
    /\ \A c \in queue : ChunkIs(c, indexing.text)
    /\ ChunksAre(chunks, indexing.text)
    /\ cut = NoCut \/ CutIs(cut, indexing.text)
    /\ \A s \in indexing.symbols : SymbolKept(s, queue, cut, chunks)

(* What it gives.                                                                  *)
LEMMA ChunksGiveCover == ASSUME ChunksInv PROVE ChunksCover
<1>1. PICK t \in Texts : t = indexing.text
  BY DEF ChunksInv, RunIs
<1>2. CoversSymbols
  <2>1. ASSUME indexing.pc \in {"graph", "ready"}, NEW s \in indexing.symbols, NEW i \in s.from + 1..s.to
        PROVE  \E c \in PartsOf(s) : c.from < i /\ i <= c.to
    <3>1. queue = {} /\ cut = NoCut
      BY <2>1 DEF ChunksInv, RunIs
    <3>2. SymbolKept(s, queue, cut, chunks)
      BY <2>1 DEF ChunksInv
    <3>3. CoveredTo(s, s.to, chunks)
      BY <3>1, <3>2 DEF SymbolKept, NoCut
    <3>4. PICK d \in chunks : d.symbol = s.symbol /\ s.from <= d.from /\ d.to <= s.to /\ d.from < i /\ i <= d.to
      BY <2>1, <3>3 DEF CoveredTo
    <3>5. d \in PartsOf(s)
      BY <3>4 DEF PartsOf
    <3> QED BY <3>4, <3>5
  <2> QED BY <2>1 DEF CoversSymbols
<1>3. LinesAreTrue
  <2>1. EndsOfLine = EndsIn(t)
    BY <1>1, TextIs
  <2>2. \A c \in chunks : LinesTrue(c, t)
    BY <1>1 DEF ChunksInv, ChunksAre, ChunkIs
  <2> QED BY <2>1, <2>2 DEF LinesAreTrue, LinesTrue, LineIn
<1>4. WithinLimit
  BY DEF ChunksInv, ChunksAre, WithinLimit
<1>5. CallsLeadSomewhere
  <2>1. ASSUME indexing.pc = "ready", NEW e \in calls PROVE Cardinality({c \in chunks : ChunkIdentity(c) = e[2]}) = 1
    <3>1. \A c : ChunkIdentity(c) = IdentityIn(c, t)
      BY <1>1 DEF ChunkIdentity, ContentOf, SourceText, IdentityIn
    <3>2. PICK d \in chunks : e[2] = IdentityIn(d, t)
      BY <1>1, <2>1 DEF ChunksInv, RunIs, LeadToChunks
    <3>3. \A c \in chunks : IdentityIn(c, t) = IdentityIn(d, t) => c = d
      BY <1>1, <2>1 DEF ChunksInv, RunIs, OneForEach
    <3>4. {c \in chunks : ChunkIdentity(c) = e[2]} = {d}
      BY <3>1, <3>2, <3>3
    <3> QED BY <3>4, FS_Singleton
  <2> QED BY <2>1 DEF CallsLeadSomewhere, IndexingAt
<1> QED BY <1>2, <1>3, <1>4, <1>5 DEF ChunksCover

(* A form feed ends a line for the code that numbers lines, and none for Python's   *)
(* own parser: the theorem is about texts without one.                             *)
NoFormFeeds == "f" \notin Characters

(* At first, and at each step.                                                     *)
LEMMA ChunksBegin == ASSUME ChunksInit PROVE ChunksInv
<1>1. PICK run : run = [pc |-> "idle", text |-> NoText, language |-> "text", version |-> 0, revision |-> 0,
                        cancelled |-> FALSE, symbols |-> {}]
  OBVIOUS
<1>2. DOMAIN run = RunFields /\ run.text = <<>> /\ run.pc = "idle" /\ run.symbols = {}
  BY <1>1 DEF RunFields, NoText
<1>3. <<>> \in Texts
  BY DEF Texts
<1>4. indexing = run /\ queue = {} /\ cut = NoCut /\ chunks = {} /\ calls = {}
  BY <1>1 DEF ChunksInit
<1> QED BY <1>2, <1>3, <1>4 DEF ChunksInv, RunIs, RunPlaces, ChunksAre

\* Only the place of the run changes, or what does not matter here.
GoesOn(run, new, S) ==
    /\ DOMAIN new = RunFields /\ new.text = run.text /\ new.symbols = run.symbols /\ new.pc \in RunPlaces
    /\ new.pc \in Unparsed => run.pc \in Unparsed
    /\ new.pc \in {"graph", "ready"} => run.pc \in {"graph", "ready"}
    /\ new.pc = "ready" => run.pc = "ready" \/ OneForEach(S, run.text)
LEMMA RunGoesOn ==
    ASSUME ChunksInv, GoesOn(indexing, indexing', chunks), queue' = queue, cut' = cut, chunks' = chunks, calls' = calls
    PROVE  ChunksInv'
<1>1. indexing'.text = indexing.text /\ indexing'.symbols = indexing.symbols
  BY DEF GoesOn
<1>2. RunIs(indexing, queue, cut, chunks, calls)'
  BY <1>1 DEF ChunksInv, RunIs, GoesOn
<1> QED BY <1>1, <1>2 DEF ChunksInv

LEMMA RunPlaced ==
    ASSUME ChunksInv, NEW pc, indexing' = [indexing EXCEPT !.pc = pc]
    PROVE  /\ DOMAIN indexing' = RunFields /\ indexing'.text = indexing.text /\ indexing'.symbols = indexing.symbols
           /\ indexing'.pc = pc
BY DEF ChunksInv, RunIs, RunFields

LEMMA ReadKeeps == ASSUME NoFormFeeds, ChunksInv, ReadSource PROVE ChunksInv'
<1>1. PICK text \in SourceTexts, language \in Languages :
         indexing' = [indexing EXCEPT !.pc = "snapshot", !.text = text, !.language = language, !.version = checkout]
  BY DEF ReadSource
<1>2. /\ DOMAIN indexing' = RunFields /\ indexing'.text = text /\ indexing'.pc = "snapshot"
      /\ indexing'.symbols = indexing.symbols
  BY <1>1 DEF ChunksInv, RunIs, RunFields
<1>3. text \in Texts
  <2>1. PICK n \in 0..MaxText : text \in [1..n -> Characters]
    BY DEF SourceTexts
  <2>2. n \in Nat
    BY ChunksAssumption
  <2>3. text \in Seq(Characters)
    BY <2>1, <2>2
  <2>4. \A i \in DOMAIN text : text[i] # "f"
    BY <2>1 DEF NoFormFeeds
  <2> QED BY <2>3, <2>4 DEF Texts
<1>4. queue = {} /\ cut = NoCut /\ chunks = {} /\ indexing.symbols = {}
  BY DEF ReadSource, IndexingAt, ChunksInv, RunIs, Unparsed
<1>5. queue' = {} /\ cut' = NoCut /\ chunks' = {} /\ indexing'.symbols = {}
  BY <1>2, <1>4 DEF ReadSource
<1> QED BY <1>2, <1>3, <1>5 DEF ChunksInv, RunIs, RunPlaces, ChunksAre

LEMMA SnapshotKeeps == ASSUME ChunksInv, SnapshotSource PROVE ChunksInv'
<1>1. indexing.pc = "snapshot" /\ UNCHANGED <<queue, cut, chunks, calls>>
  BY DEF SnapshotSource, IndexingAt
<1>2. /\ DOMAIN indexing' = RunFields /\ indexing'.text = indexing.text /\ indexing'.symbols = indexing.symbols
      /\ indexing'.pc \in {"parse", "failed"}
  <2>1. indexing' = [indexing EXCEPT !.pc = "parse", !.revision = checkout] \/ indexing' = [indexing EXCEPT !.pc = "failed"]
    BY DEF SnapshotSource
  <2> QED BY <2>1 DEF ChunksInv, RunIs, RunFields
<1>3. GoesOn(indexing, indexing', chunks)
  BY <1>1, <1>2 DEF GoesOn, RunPlaces, Unparsed
<1> QED BY <1>1, <1>3, RunGoesOn

LEMMA CancelKeeps == ASSUME ChunksInv, CancelIndexing PROVE ChunksInv'
<1>1. indexing' = [indexing EXCEPT !.cancelled = TRUE] /\ UNCHANGED <<queue, cut, chunks, calls>>
  BY DEF CancelIndexing
<1>2. /\ DOMAIN indexing' = RunFields /\ indexing'.text = indexing.text /\ indexing'.symbols = indexing.symbols
      /\ indexing'.pc = indexing.pc
  BY <1>1 DEF ChunksInv, RunIs, RunFields
<1>3. GoesOn(indexing, indexing', chunks)
  BY <1>2 DEF GoesOn, ChunksInv, RunIs
<1> QED BY <1>1, <1>3, RunGoesOn

LEMMA ParseKeeps == ASSUME ChunksInv, ParseFile PROVE ChunksInv'
<1>1. indexing.pc = "parse" /\ UNCHANGED <<cut, chunks, calls>>
  BY DEF ParseFile, IndexingAt
<1>2. CASE IndexingGoes("failed") /\ UNCHANGED queue
  <2>1. DOMAIN indexing' = RunFields /\ indexing'.text = indexing.text /\ indexing'.symbols = indexing.symbols /\ indexing'.pc = "failed"
    BY <1>2, RunPlaced DEF IndexingGoes
  <2>2. GoesOn(indexing, indexing', chunks)
    BY <2>1 DEF GoesOn, RunPlaces, Unparsed
  <2> QED BY <1>1, <1>2, <2>2, RunGoesOn
<1>3. CASE \E found \in Parsed \union {LineChunks(name) : name \in SymbolNames \union {NoSymbol}} :
             /\ queue' = WithParents(found)
             /\ indexing' = [indexing EXCEPT !.pc = "bound", !.symbols = WithParents(found)]
  <2>1. PICK found \in Parsed \union {LineChunks(name) : name \in SymbolNames \union {NoSymbol}} :
             /\ queue' = WithParents(found)
             /\ indexing' = [indexing EXCEPT !.pc = "bound", !.symbols = WithParents(found)]
    BY <1>3
  <2>2. PICK t \in Texts : t = indexing.text
    BY DEF ChunksInv, RunIs
  <2>3. PICK S : S = WithParents(found)
    OBVIOUS
  <2>4. \A c \in S : ChunkIs(c, t)
    BY <2>2, <2>3, ParsedAre
  <2>5. DOMAIN indexing' = RunFields /\ indexing'.text = t /\ indexing'.pc = "bound" /\ indexing'.symbols = S
    BY <2>1, <2>2, <2>3 DEF ChunksInv, RunIs, RunFields
  <2>6. queue' = S /\ cut' = NoCut /\ chunks' = {}
    BY <1>1, <2>1, <2>3 DEF ChunksInv, RunIs, Unparsed
  <2> QED BY <2>4, <2>5, <2>6 DEF ChunksInv, RunIs, RunPlaces, Unparsed, ChunksAre, SymbolKept
<1> QED BY <1>2, <1>3 DEF ParseFile

(* What is kept of a symbol stays when chunks are added.                           *)
LEMMA StaysCovered ==
    ASSUME NEW s, NEW m, NEW S, NEW T, S \subseteq T, CoveredTo(s, m, S)
    PROVE  CoveredTo(s, m, T)
BY DEF CoveredTo

LEMMA TakeKeeps == ASSUME ChunksInv, TakeChunk PROVE ChunksInv'
<1>1. PICK t \in Texts : t = indexing.text
  BY DEF ChunksInv, RunIs
<1>2. PICK c : c = CHOOSE d \in queue : TRUE
  OBVIOUS
<1>3. /\ indexing.pc = "bound" /\ cut = NoCut /\ queue # {} /\ queue' = queue \ {c}
      /\ IF WithinTokens(c) THEN chunks' = chunks \union {c} /\ cut' = cut
         ELSE cut' = [NoCut EXCEPT !.whole = {c}] /\ chunks' = chunks
      /\ indexing' = indexing /\ calls' = calls
  BY <1>2 DEF TakeChunk, IndexingAt
<1>4. c \in queue
  BY <1>2, <1>3
<1>5. ChunkIs(c, t)
  BY <1>1, <1>4 DEF ChunksInv
<1>6. c.to - c.from \in Nat
  BY <1>5 DEF ChunkIs
<1>7. RunIs(indexing, queue, cut, chunks, calls)'
  BY <1>3 DEF ChunksInv, RunIs, Unparsed
<1>8. \A d \in queue' : ChunkIs(d, t)
  BY <1>1, <1>3 DEF ChunksInv
<1>9. chunks \subseteq chunks'
  BY <1>3
<1>10. CASE WithinTokens(c)
  <2>1. chunks' = chunks \union {c} /\ cut' = NoCut
    BY <1>3, <1>10
  <2>2. ChunksAre(chunks', t)
    BY <1>1, <1>5, <1>6, <1>10, <2>1, TokensBound DEF ChunksInv, ChunksAre
  <2>3. CoveredTo(c, c.to, chunks')
    <3>1. c.from \in Nat /\ c.to \in Nat
      BY <1>5 DEF ChunkIs
    <3>2. \A i \in c.from + 1..c.to : c.from < i /\ i <= c.to
      BY <3>1
    <3> QED BY <2>1, <3>1, <3>2 DEF CoveredTo
  <2>4. ASSUME NEW s \in indexing.symbols PROVE SymbolKept(s, queue', cut', chunks')
    <3>1. SymbolKept(s, queue, cut, chunks)
      BY DEF ChunksInv
    <3>2. CASE s = c
      BY <2>3, <3>2 DEF SymbolKept
    <3>3. CASE s # c /\ s \in queue
      BY <1>3, <3>3 DEF SymbolKept
    <3>4. CASE CoveredTo(s, s.to, chunks)
      BY <1>9, <3>4, StaysCovered DEF SymbolKept
    <3> QED BY <1>3, <3>1, <3>2, <3>3, <3>4 DEF SymbolKept, NoCut
  <2> QED BY <1>1, <1>3, <1>7, <1>8, <2>1, <2>2, <2>4 DEF ChunksInv
<1>11. CASE ~WithinTokens(c)
  <2>1. PICK k : k = [NoCut EXCEPT !.whole = {c}]
    OBVIOUS
  <2>2. DOMAIN k = {"whole", "start", "part"} /\ k.whole = {c} /\ k.start = 0
    BY <2>1 DEF NoCut
  <2>3. cut' = k /\ chunks' = chunks
    BY <1>3, <1>11, <2>1
  <2>4. CutIs(k, t)
    <3>1. 0 < c.to - c.from
      BY <1>6, <1>11, TokensBound
    <3> QED BY <1>5, <2>2, <3>1 DEF CutIs
  <2>5. CoveredTo(c, c.from + k.start, chunks)
    <3>1. c.from \in Nat /\ c.from + k.start = c.from
      BY <1>5, <2>2 DEF ChunkIs
    <3>2. c.from + 1..c.from = {}
      BY <3>1
    <3> QED BY <3>1, <3>2 DEF CoveredTo
  <2>6. ASSUME NEW s \in indexing.symbols PROVE SymbolKept(s, queue', k, chunks)
    <3>1. SymbolKept(s, queue, cut, chunks)
      BY DEF ChunksInv
    <3>2. CASE s = c
      BY <2>2, <2>5, <3>2 DEF SymbolKept
    <3>3. CASE s # c /\ s \in queue
      BY <1>3, <3>3 DEF SymbolKept
    <3>4. CASE CoveredTo(s, s.to, chunks)
      BY <3>4 DEF SymbolKept
    <3> QED BY <1>3, <3>1, <3>2, <3>3, <3>4 DEF SymbolKept, NoCut
  <2> QED BY <1>1, <1>3, <1>7, <1>8, <2>3, <2>4, <2>6 DEF ChunksInv
<1> QED BY <1>10, <1>11

(* What a cut of the symbol's chunk leaves to be cut.                             *)
CutAfter(c) ==
    cut' = IF SegmentEnd(c, cut.start) >= c.to - c.from THEN NoCut
           ELSE [cut EXCEPT !.start = NextStart(cut.start, SegmentEnd(c, cut.start)), !.part = @ + 1]
LEMMA CutKeeps == ASSUME ChunksInv, CutPart PROVE ChunksInv'
<1>1. PICK t \in Texts : t = indexing.text
  BY DEF ChunksInv, RunIs
<1>2. PICK c : /\ DOMAIN cut = {"whole", "start", "part"} /\ cut.whole = {c}
               /\ ChunkIs(c, t) /\ cut.start \in Nat /\ cut.start < c.to - c.from
  BY <1>1 DEF ChunksInv, CutPart, CutIs
<1>3. (CHOOSE d \in cut.whole : TRUE) = c
  BY <1>2
<1>4. PICK start, end, d : start = cut.start /\ end = SegmentEnd(c, start) /\ d = SegmentOf(c, start, end, cut.part)
  OBVIOUS
<1>5. /\ indexing.pc = "bound" /\ chunks' = chunks \union {d}
      /\ cut' = IF end >= c.to - c.from THEN NoCut ELSE [cut EXCEPT !.start = NextStart(start, end), !.part = @ + 1]
      /\ indexing' = indexing /\ queue' = queue /\ calls' = calls
  <2>1. /\ indexing.pc = "bound" /\ indexing' = indexing /\ queue' = queue /\ calls' = calls
    BY DEF CutPart, IndexingAt
  <2>2. chunks' = chunks \union {SegmentOf(c, cut.start, SegmentEnd(c, cut.start), cut.part)}
    BY <1>3 DEF CutPart
  <2>3. cut' = IF SegmentEnd(c, cut.start) >= c.to - c.from THEN NoCut
               ELSE [cut EXCEPT !.start = NextStart(cut.start, SegmentEnd(c, cut.start)), !.part = @ + 1]
    <3>1. CutAfter(CHOOSE e \in cut.whole : TRUE)
      BY DEF CutPart, CutAfter
    <3>2. (CHOOSE e \in cut.whole : TRUE) = c
      BY <1>3
    <3>3. CutAfter(c)
      BY <3>1, <3>2
    <3> QED BY <3>3 DEF CutAfter
  <2>4. start = cut.start /\ end = SegmentEnd(c, cut.start) /\ d = SegmentOf(c, cut.start, end, cut.part)
    BY <1>4
  <2>5. chunks' = chunks \union {d}
    BY <2>2, <2>4
  <2>6. cut' = IF end >= c.to - c.from THEN NoCut
               ELSE [cut EXCEPT !.start = NextStart(start, end), !.part = @ + 1]
    <3>1. SegmentEnd(c, cut.start) = end /\ cut.start = start
      BY <2>4
    <3> QED BY <2>3, <3>1
  <2> QED BY <2>1, <2>5, <2>6
<1>6. PICK p \in Nat, q \in Nat, m \in Nat : p = c.from /\ q = c.to /\ m = q - p /\ m = c.to - c.from
  <2>1. c.from \in Nat /\ c.to \in Nat /\ c.from <= c.to
    BY <1>2 DEF ChunkIs
  <2> QED BY <2>1
<1>7. start \in Nat /\ start < m
  BY <1>2, <1>4, <1>6
<1>8. end \in Nat /\ start < end /\ end <= m /\ end - start <= MaxChars
  BY <1>4, <1>6, <1>7, SegmentEnds
<1>9. ChunkIs(d, t) /\ d.from = p + start /\ d.to = p + end /\ d.symbol = c.symbol
  BY <1>1, <1>2, <1>4, <1>6, <1>7, <1>8, SegmentIs
<1>10. NextStart(start, end) \in Nat /\ NextStart(start, end) <= end
  BY <1>7, <1>8, NextIs
<1>11. RunIs(indexing, queue, cut, chunks, calls)'
  BY <1>5 DEF ChunksInv, RunIs, Unparsed
<1>12. ChunksAre(chunks', t)
  <2>1. MaxChars \in Nat /\ TokenChars \in Nat \ {0}
    <3>1. ChunkTokens \in Nat /\ TokenChars \in Nat \ {0}
      BY ChunksAssumption
    <3>2. \A x, y \in Nat : x * y \in Nat
      OBVIOUS
    <3> QED BY <3>1, <3>2 DEF MaxChars
  <2>2. d.to - d.from = end - start
    BY <1>7, <1>8, <1>9
  <2>3. d.to - d.from < MaxChars + TokenChars
    BY <1>7, <1>8, <2>1, <2>2
  <2> QED BY <1>1, <1>5, <1>9, <2>3 DEF ChunksInv, ChunksAre
<1>13. ASSUME NEW s, CoveredTo(s, s.to, chunks) PROVE CoveredTo(s, s.to, chunks')
  BY <1>5, <1>13, StaysCovered
<1>14. ASSUME CoveredTo(c, c.from + start, chunks) PROVE CoveredTo(c, p + end, chunks')
  <2>1. ASSUME NEW i \in p + 1..p + end
        PROVE  \E e \in chunks' : e.symbol = c.symbol /\ c.from <= e.from /\ e.to <= c.to /\ e.from < i /\ i <= e.to
    <3>1. CASE i <= p + start
      <4>1. i \in c.from + 1..c.from + start
        BY <1>6, <1>7, <1>8, <3>1
      <4> QED BY <1>5, <1>14, <4>1 DEF CoveredTo
    <3>2. CASE ~(i <= p + start)
      <4>1. d.symbol = c.symbol /\ c.from <= d.from /\ d.to <= c.to /\ d.from < i /\ i <= d.to
        BY <1>6, <1>7, <1>8, <1>9, <3>2
      <4> QED BY <1>5, <4>1
    <3> QED BY <3>1, <3>2
  <2> QED BY <1>6, <2>1 DEF CoveredTo
<1>15. CASE end >= m
  <2>1. cut' = NoCut /\ p + end = c.to
    BY <1>5, <1>6, <1>8, <1>15
  <2>2. ASSUME NEW s \in indexing.symbols PROVE SymbolKept(s, queue', cut', chunks')
    <3>1. SymbolKept(s, queue, cut, chunks)
      BY DEF ChunksInv
    <3>2. CASE cut.whole = {s} /\ CoveredTo(s, s.from + cut.start, chunks)
      <4>1. s = c
        BY <1>2, <3>2
      <4> QED BY <1>4, <1>14, <2>1, <3>2, <4>1 DEF SymbolKept
    <3> QED BY <1>5, <1>13, <3>1, <3>2 DEF SymbolKept
  <2> QED BY <1>1, <1>5, <1>11, <1>12, <2>1, <2>2 DEF ChunksInv
<1>16. CASE ~(end >= m)
  <2>1. PICK k : k = [cut EXCEPT !.start = NextStart(start, end), !.part = @ + 1]
    OBVIOUS
  <2>2. DOMAIN k = {"whole", "start", "part"} /\ k.whole = {c} /\ k.start = NextStart(start, end)
    BY <1>2, <2>1
  <2>3. cut' = k
    BY <1>5, <1>6, <1>16, <2>1
  <2>4. CutIs(k, t)
    <3>1. k.start \in Nat /\ k.start < c.to - c.from
      BY <1>6, <1>8, <1>10, <1>16, <2>2
    <3> QED BY <1>2, <2>2, <3>1 DEF CutIs
  <2>5. ASSUME NEW s \in indexing.symbols PROVE SymbolKept(s, queue', k, chunks')
    <3>1. SymbolKept(s, queue, cut, chunks)
      BY DEF ChunksInv
    <3>2. CASE cut.whole = {s} /\ CoveredTo(s, s.from + cut.start, chunks)
      <4>1. s = c
        BY <1>2, <3>2
      <4>2. CoveredTo(c, p + end, chunks')
        BY <1>4, <1>14, <3>2, <4>1
      <4>3. \A i \in c.from + 1..c.from + k.start : i \in c.from + 1..p + end
        BY <1>6, <1>8, <1>10, <2>2
      <4>4. CoveredTo(c, c.from + k.start, chunks')
        BY <4>2, <4>3 DEF CoveredTo
      <4> QED BY <2>2, <4>1, <4>4 DEF SymbolKept
    <3> QED BY <1>5, <1>13, <3>1, <3>2 DEF SymbolKept
  <2> QED BY <1>1, <1>5, <1>11, <1>12, <2>3, <2>4, <2>5 DEF ChunksInv
<1> QED BY <1>15, <1>16

LEMMA GraphKeeps == ASSUME ChunksInv, ResolveGraph PROVE ChunksInv'
<1>1. PICK t \in Texts : t = indexing.text
  BY DEF ChunksInv, RunIs
<1>2. /\ queue = {} /\ cut = NoCut /\ queue' = queue /\ cut' = cut /\ chunks' = chunks
      /\ indexing' = [indexing EXCEPT !.pc = "graph"]
  BY DEF ResolveGraph, IndexingGoes
<1>3. DOMAIN indexing' = RunFields /\ indexing'.text = t /\ indexing'.symbols = indexing.symbols /\ indexing'.pc = "graph"
  BY <1>1, <1>2, RunPlaced
<1>4. ASSUME NEW e \in calls' PROVE \E d \in chunks : e[2] = IdentityIn(d, t)
  <2>0. PICK c \in chunks :
           e \in {<<ChunkIdentity(c), ChunkIdentity(CHOOSE d \in CandidatesFor(name) : TRUE)>> :
                      name \in ResolvedCalls(c)}
    BY <1>4 DEF ResolveGraph
  <2>1. PICK name \in ResolvedCalls(c) :
           e = <<ChunkIdentity(c), ChunkIdentity(CHOOSE d \in CandidatesFor(name) : TRUE)>>
    BY <2>0
  <2>2. CandidatesFor(name) # {}
    <3>1. Cardinality(CandidatesFor(name)) = 1
      BY <2>1 DEF ResolvedCalls
    <3> QED BY <3>1, FS_EmptySet
  <2>3. PICK d : d = CHOOSE f \in CandidatesFor(name) : TRUE
    OBVIOUS
  <2>4. d \in CandidatesFor(name)
    BY <2>2, <2>3
  <2>5. d \in chunks
    BY <2>4 DEF CandidatesFor
  <2>6. ChunkIdentity(d) = IdentityIn(d, t)
    BY <1>1 DEF ChunkIdentity, ContentOf, SourceText, IdentityIn
  <2>7. e[2] = ChunkIdentity(d)
    BY <2>1, <2>3
  <2> QED BY <2>5, <2>6, <2>7
<1>5. RunIs(indexing, queue, cut, chunks, calls)'
  BY <1>2, <1>3, <1>4 DEF RunIs, RunPlaces, Unparsed, LeadToChunks
<1> QED BY <1>1, <1>2, <1>3, <1>5 DEF ChunksInv

LEMMA CommitKeeps == ASSUME ChunksInv, CommitChunks PROVE ChunksInv'
<1>1. PICK t \in Texts : t = indexing.text
  BY DEF ChunksInv, RunIs
<1>2. PICK pc : pc = IF indexing.cancelled \/ ~AllDistinct THEN "failed" ELSE "ready"
  OBVIOUS
<1>3. indexing.pc = "graph" /\ indexing' = [indexing EXCEPT !.pc = pc] /\ UNCHANGED <<queue, cut, chunks, calls>>
  BY <1>2 DEF CommitChunks, IndexingAt, IndexingGoes
<1>4. DOMAIN indexing' = RunFields /\ indexing'.text = t /\ indexing'.symbols = indexing.symbols /\ indexing'.pc = pc
  BY <1>1, <1>3, RunPlaced
<1>5. pc = "ready" => OneForEach(chunks, t)
  <2>1. \A c : ChunkIdentity(c) = IdentityIn(c, t)
    BY <1>1 DEF ChunkIdentity, ContentOf, SourceText, IdentityIn
  <2>2. pc = "ready" => AllDistinct
    BY <1>2
  <2> QED BY <2>1, <2>2 DEF AllDistinct, OneForEach
<1>6. pc \in {"failed", "ready"}
  BY <1>2
<1>7. GoesOn(indexing, indexing', chunks)
  BY <1>1, <1>3, <1>4, <1>5, <1>6 DEF GoesOn, RunPlaces, Unparsed
<1> QED BY <1>3, <1>7, RunGoesOn

(* For any text without form feeds, whatever a parser finds in it, whoever cancels *)
(* the run and whatever is checked out meanwhile: every character of a symbol is in *)
(* a chunk of it, a chunk is within the limit and of the lines that it says, and a  *)
(* call of a revision that is ready leads to one chunk.                             *)
THEOREM ChunksDoCover == NoFormFeeds => (ChunksSpec => []ChunksCover)
<1> SUFFICES ASSUME NoFormFeeds PROVE ChunksSpec => []ChunksCover
  OBVIOUS
<1>1. ChunksInit => ChunksInv
  BY ChunksBegin
<1>2. ChunksInv /\ [ChunksNext]_chunkVars => ChunksInv'
  <2> SUFFICES ASSUME ChunksInv, [ChunksNext]_chunkVars PROVE ChunksInv'
    OBVIOUS
  <2>1. CASE CheckOut
    BY <2>1 DEF CheckOut, ChunksInv
  <2>2. CASE ReadSource
    BY <2>2, ReadKeeps
  <2>3. CASE SnapshotSource
    BY <2>3, SnapshotKeeps
  <2>4. CASE CancelIndexing
    BY <2>4, CancelKeeps
  <2>5. CASE ParseFile
    BY <2>5, ParseKeeps
  <2>6. CASE TakeChunk
    BY <2>6, TakeKeeps
  <2>7. CASE CutPart
    BY <2>7, CutKeeps
  <2>8. CASE ResolveGraph
    BY <2>8, GraphKeeps
  <2>9. CASE CommitChunks
    BY <2>9, CommitKeeps
  <2>10. CASE UNCHANGED chunkVars
    BY <2>10 DEF chunkVars, ChunksInv
  <2> QED BY <2>1, <2>2, <2>3, <2>4, <2>5, <2>6, <2>7, <2>8, <2>9, <2>10 DEF ChunksNext
<1>3. ChunksInv => ChunksCover
  BY ChunksGiveCover
<1> QED BY <1>1, <1>2, <1>3, PTL DEF ChunksSpec

------------------------------------------------------------------------------
(* The agentic loop: where the hunks of a diff land.                         *)

(* Parts of a text that is cut off, and of one with another behind it.             *)
LEMMA PartOfPrefix ==
    ASSUME NEW S, NEW s \in Seq(S), NEW b \in 0..Len(s), NEW m \in 1..b + 1, NEW n \in 0..b
    PROVE  SubSeq(SubSeq(s, 1, b), m, n) = SubSeq(s, m, n)
<1>1. Len(s) \in Nat
  BY LenProperties
<1>2. CASE n < m
  BY <1>1, <1>2, SubSeqEmpty
<1>3. CASE m <= n
  <2>1. /\ 1 \in 1..Len(s) /\ b \in 1..Len(s) /\ m \in 1..b - 1 + 1 /\ n \in 1..b - 1 + 1
        /\ 1 + m - 1 = m /\ 1 + n - 1 = n
    BY <1>1, <1>3
  <2> QED BY <2>1, SubSeqOfSubSeq
<1> QED BY <1>1, <1>2, <1>3

LEMMA PartOfFirst ==
    ASSUME NEW S, NEW s \in Seq(S), NEW t \in Seq(S), NEW m \in 1..Len(s) + 1, NEW n \in 0..Len(s)
    PROVE  SubSeq(s \o t, m, n) = SubSeq(s, m, n)
<1>1. Len(s) \in Nat
  BY LenProperties
<1>2. CASE n < m
  BY <1>1, <1>2, SubSeqEmpty
<1>3. CASE m <= n
  <2>1. m \in 1..Len(s) /\ n \in 1..Len(s)
    BY <1>1, <1>3
  <2> QED BY <2>1, SubSeqOfConcat1
<1> QED BY <1>1, <1>2, <1>3

LEMMA PartAndRest ==
    ASSUME NEW S, NEW s \in Seq(S), NEW t \in Seq(S), NEW m \in 1..Len(s) + 1
    PROVE  SubSeq(s \o t, m, Len(s \o t)) = SubSeq(s, m, Len(s)) \o t
<1>1. PICK a \in Nat, b \in Nat : a = Len(s) /\ b = Len(t)
  BY LenProperties
<1>2. PICK u \in Seq(S) : u = s \o t /\ Len(u) = a + b
  BY <1>1, ConcatProperties
<1>3. SubSeq(u, m, a) \o SubSeq(u, a + 1, a + b) = SubSeq(u, m, a + b)
  <2>1. m \in 1..Len(u) + 1 /\ a \in m - 1..Len(u) /\ a + b \in a..Len(u)
    BY <1>1, <1>2
  <2> QED BY <2>1, ConcatAdjacentSubSeq
<1>4. SubSeq(u, m, a) = SubSeq(s, m, a)
  <2>1. a \in 0..Len(s)
    BY <1>1
  <2> QED BY <1>2, <2>1, PartOfFirst
<1>5. SubSeq(u, a + 1, a + b) = t
  <2>1. CASE b = 0
    <3>1. t = <<>>
      BY <1>1, <2>1, EmptySeq
    <3>2. SubSeq(u, a + 1, a + b) = <<>>
      BY <2>1, SubSeqEmpty
    <3> QED BY <3>1, <3>2
  <2>2. CASE b > 0
    <3>1. /\ a + 1 \in Len(s) + 1..Len(s) + Len(t) /\ a + b \in Len(s) + 1..Len(s) + Len(t)
          /\ a + 1 - Len(s) = 1 /\ a + b - Len(s) = Len(t)
      BY <1>1, <2>2
    <3>2. SubSeq(s \o t, a + 1, a + b) = SubSeq(t, 1, Len(t))
      BY <3>1, SubSeqOfConcat2
    <3> QED BY <1>2, <3>2, SubSeqFull
  <2> QED BY <2>1, <2>2
<1> QED BY <1>1, <1>2, <1>3, <1>4, <1>5

--------------------------------------------------------------------------------
(* A hunk of a text: its old lines are there, and where it says.                   *)
HunkIs(h, text) ==
    /\ h.at \in 1..Len(text) /\ h.old \in Seq(LineValues) /\ h.new \in Seq(LineValues)
    /\ Len(h.old) \in Nat \ {0} /\ h.at + Len(h.old) - 1 <= Len(text)
    /\ SubSeq(text, h.at, h.at + Len(h.old) - 1) = h.old

LEMMA LinesAre ==
    ASSUME NEW n \in Nat, NEW lines \in SomeLines(n) PROVE lines \in Seq(LineValues)
<1>1. PICK m \in 0..n : lines \in [1..m -> LineValues]
  BY DEF SomeLines, SeqOf
<1> QED BY <1>1

LEMMA HunksAre ==
    ASSUME NEW text \in Seq(LineValues), NEW h \in HunksOf(text) PROVE HunkIs(h, text)
<1>1. PICK i \in 1..Len(text) : h \in HunksAt(text, i)
  BY DEF HunksOf
<1>2. PICK j \in i..Len(text), new \in SomeLines(MaxNewLines) : h = [at |-> i, old |-> SubSeq(text, i, j), new |-> new]
  BY <1>1 DEF HunksAt
<1>3. h.at = i /\ h.old = SubSeq(text, i, j) /\ h.new = new
  BY <1>2
<1>4. Len(text) \in Nat /\ i \in Int /\ j \in Int /\ i <= j /\ j <= Len(text)
  BY LenProperties
<1>5. h.old \in Seq(LineValues) /\ Len(h.old) = j - i + 1
  <2>1. \A k \in i..j : text[k] \in LineValues
    BY <1>4, ElementOfSeq
  <2> QED BY <1>3, <1>4, <2>1, SubSeqProperties
<1>6. h.new \in Seq(LineValues)
  BY <1>3, LinesAre, LoopAssumption DEF LoopAssumption
<1>7. i + Len(h.old) - 1 = j
  BY <1>4, <1>5
<1> QED BY <1>3, <1>4, <1>5, <1>6, <1>7 DEF HunkIs

(* The place nearest to where the old lines should be is where they should be, when *)
(* they are there.                                                                  *)
LEMMA FoundInPlace ==
    ASSUME NEW text \in Seq(LineValues), NEW h, HunkIs(h, text)
    PROVE  PlaceOf(text, h) = h.at - 1
<1>1. PICK a \in Nat, n \in Nat, k \in Nat : a = h.at - 1 /\ n = Len(text) /\ k = Len(h.old)
  BY LenProperties DEF HunkIs
<1>2. a \in Places(text, h.old)
  <2>0. h.at \in 1..n /\ k >= 1 /\ h.at + k - 1 <= n
    BY <1>1 DEF HunkIs
  <2>1. a \in 0..n - k
    BY <1>1, <2>0
  <2>2. a + 1 = h.at /\ a + k = h.at + k - 1
    BY <1>1, <2>0, SMTT(30)
  <2> QED BY <1>1, <2>1, <2>2 DEF HunkIs, Places
<1>3. \A c \in Places(text, h.old) : c \in Int
  BY <1>1 DEF Places
<1>4. \A c \in Int : Away(c, a) \in Int /\ 0 <= Away(c, a) /\ (Away(c, a) <= 0 => c = a)
  BY DEF Away
<1>5. Away(a, a) = 0
  BY DEF Away
<1>6. \A c \in Places(text, h.old) : Away(a, a) <= Away(c, a)
  BY <1>3, <1>4, <1>5
<1>7. PICK c : c = CHOOSE d \in Places(text, h.old) : \A e \in Places(text, h.old) : Away(d, a) <= Away(e, a)
  OBVIOUS
<1>8. c \in Places(text, h.old) /\ Away(c, a) <= Away(a, a)
  BY <1>2, <1>6, <1>7
<1>9. c = a
  BY <1>3, <1>4, <1>5, <1>8
<1>10. PlaceOf(text, h) = c
  BY <1>1, <1>2, <1>7 DEF PlaceOf
<1> QED BY <1>1, <1>9, <1>10

LEMMA AppliedInPlace ==
    ASSUME NEW text \in Seq(LineValues), NEW h, HunkIs(h, text)
    PROVE  ApplyHunk(text, h) = LinesBefore(text, h) \o h.new \o LinesAfter(text, h)
<1>1. PlaceOf(text, h) = h.at - 1
  BY FoundInPlace
<1>2. h.at \in Nat /\ Len(h.old) \in Nat /\ h.at >= 1
  BY LenProperties DEF HunkIs
<1>3. h.at - 1 # Nowhere /\ h.at - 1 + Len(h.old) + 1 = h.at + Len(h.old)
  BY <1>2 DEF Nowhere
<1> QED BY <1>1, <1>3 DEF ApplyHunk, LinesBefore, LinesAfter

Regroups(s, t, u) == (s \o t) \o u = s \o (t \o u)
LEMMA Regroup == ASSUME NEW S, NEW s \in Seq(S), NEW t \in Seq(S), NEW u \in Seq(S) PROVE Regroups(s, t, u)
BY ConcatAssociative DEF Regroups
LEMMA Joined == ASSUME NEW S, NEW s \in Seq(S), NEW t \in Seq(S) PROVE s \o t \in Seq(S)
BY ConcatProperties
AllRegroup(s, t, u, v, w) == s \o t \o (u \o (v \o w)) = s \o t \o u \o v \o w
LEMMA Regrouped ==
    ASSUME NEW S, NEW s \in Seq(S), NEW t \in Seq(S), NEW u \in Seq(S), NEW v \in Seq(S), NEW w \in Seq(S)
    PROVE  AllRegroup(s, t, u, v, w)
<1>1. PICK a : a = s \o t
  OBVIOUS
<1>2. PICK b : b = v \o w
  OBVIOUS
<1>3. PICK c : c = a \o u
  OBVIOUS
<1>4. a \in Seq(S) /\ b \in Seq(S)
  BY <1>1, <1>2, Joined
<1>5. c \in Seq(S)
  BY <1>3, <1>4, Joined
<1>6. Regroups(a, u, b) /\ Regroups(c, v, w)
  BY <1>4, <1>5, Regroup
<1>7. c \o b = a \o (u \o b) /\ c \o v \o w = c \o b
  BY <1>2, <1>3, <1>6 DEF Regroups
<1> QED BY <1>1, <1>2, <1>3, <1>7 DEF AllRegroup

(* A text and two hunks of it, the second behind the first.                        *)
LEMMA AppliedTwice ==
    ASSUME NEW text \in Seq(LineValues), NEW g, NEW h, HunkIs(g, text), HunkIs(h, text), g.at + Len(g.old) <= h.at
    PROVE  ApplyHunk(ApplyHunk(text, h), g) = LinesBefore(text, g) \o g.new \o LinesBetween(text, g, h) \o h.new \o LinesAfter(text, h)
<1>1. PICK n \in Nat, p \in Nat, q \in Nat, k \in Nat, m \in Nat :
         n = Len(text) /\ p = g.at /\ q = h.at /\ k = Len(g.old) /\ m = Len(h.old)
  <2>1. Len(text) \in Nat
    BY LenProperties
  <2>2. g.at \in 1..Len(text) /\ Len(g.old) \in Nat \ {0}
    BY DEF HunkIs
  <2>3. h.at \in 1..Len(text) /\ Len(h.old) \in Nat \ {0}
    BY DEF HunkIs
  <2>4. \A i \in 1..Len(text) : i \in Nat
    BY <2>1
  <2> QED BY <2>1, <2>2, <2>3, <2>4
<1>2. p >= 1 /\ k >= 1 /\ m >= 1 /\ p + k <= q /\ q + m - 1 <= n /\ q <= n
  <2>1. g.at \in 1..Len(text) /\ Len(g.old) \in Nat \ {0}
    BY DEF HunkIs
  <2>2. h.at \in 1..Len(text) /\ Len(h.old) \in Nat \ {0} /\ h.at + Len(h.old) - 1 <= Len(text)
    BY DEF HunkIs
  <2> QED BY <1>1, <2>1, <2>2
<1>3. \A i \in 1..n : text[i] \in LineValues
  BY <1>1, ElementOfSeq
<1>4. PICK A \in Seq(LineValues) : A = LinesBefore(text, h) /\ Len(A) = q - 1
  <2>1. \A i \in 1..q - 1 : text[i] \in LineValues
    BY <1>2, <1>3
  <2>2. SubSeq(text, 1, q - 1) \in Seq(LineValues) /\ Len(SubSeq(text, 1, q - 1)) = IF 1 <= q - 1 THEN q - 1 - 1 + 1 ELSE 0
    <3>1. 1 \in Int /\ q - 1 \in Int
      OBVIOUS
    <3> QED BY <2>1, <3>1, SubSeqProperties
  <2>3. Len(SubSeq(text, 1, q - 1)) = q - 1
    BY <1>2, <2>2
  <2> QED BY <1>1, <2>2, <2>3 DEF LinesBefore
<1>5. PICK C \in Seq(LineValues) : C = LinesAfter(text, h)
  <2>1. \A i \in q + m..n : text[i] \in LineValues
    BY <1>2, <1>3
  <2>2. SubSeq(text, q + m, n) \in Seq(LineValues)
    BY <2>1, SubSeqProperties
  <2> QED BY <1>1, <2>2 DEF LinesAfter
<1>6. PICK R \in Seq(LineValues) : R = h.new \o C
  BY ConcatProperties DEF HunkIs
<1>7. PICK u \in Seq(LineValues) : u = A \o R /\ Len(u) = Len(A) + Len(R)
  BY ConcatProperties
<1>8. ApplyHunk(text, h) = u
  <2>1. ApplyHunk(text, h) = A \o h.new \o C
    BY <1>4, <1>5, AppliedInPlace
  <2>2. PICK N \in Seq(LineValues) : N = h.new
    BY DEF HunkIs
  <2>3. (A \o N) \o C = A \o (N \o C)
    <3>1. Regroups(A, N, C)
      BY Regroup
    <3> QED BY <3>1, Zenon DEF Regroups
  <2> QED BY <1>6, <1>7, <2>1, <2>2, <2>3
<1>9. ASSUME NEW i \in 1..q, NEW j \in 0..q - 1
      PROVE  SubSeq(u, i, j) = SubSeq(text, i, j)
  <2>1. i \in 1..Len(A) + 1 /\ j \in 0..Len(A) /\ q - 1 \in 0..Len(text) /\ i \in 1..q - 1 + 1
    <3>1. Len(A) = q - 1 /\ Len(text) = n
      BY <1>1, <1>4
    <3>2. i \in 1..q - 1 + 1 /\ q - 1 \in 0..n
      BY <1>2
    <3> QED BY <3>1, <3>2
  <2>2. SubSeq(u, i, j) = SubSeq(A, i, j)
    BY <1>7, <2>1, PartOfFirst
  <2>3. A = SubSeq(text, 1, q - 1)
    BY <1>1, <1>4 DEF LinesBefore
  <2> QED BY <2>1, <2>2, <2>3, PartOfPrefix
<1>10. HunkIs(g, u)
  <2>1. Len(u) \in Nat /\ Len(R) \in Nat /\ Len(u) = q - 1 + Len(R)
    BY <1>4, <1>7, LenProperties
  <2>2. g.at \in 1..Len(u) /\ g.at + Len(g.old) - 1 <= Len(u)
    <3>1. p \in 1..Len(u) /\ p + k - 1 <= Len(u)
      BY <1>2, <2>1
    <3> QED BY <1>1, <3>1
  <2>3. p \in 1..q /\ p + k - 1 \in 0..q - 1
    BY <1>2
  <2>4. SubSeq(u, g.at, g.at + Len(g.old) - 1) = SubSeq(text, g.at, g.at + Len(g.old) - 1)
    BY <1>1, <1>9, <2>3
  <2> QED BY <2>2, <2>4 DEF HunkIs
<1>11. LinesBefore(u, g) = LinesBefore(text, g)
  <2>1. 1 \in 1..q /\ p - 1 \in 0..q - 1
    BY <1>2
  <2> QED BY <1>1, <1>9, <2>1 DEF LinesBefore
<1>12. LinesAfter(u, g) = LinesBetween(text, g, h) \o R
  <2>1. p + k \in 1..q /\ q - 1 \in 0..q - 1 /\ p + k \in 1..Len(A) + 1
    BY <1>2, <1>4
  <2>2. SubSeq(u, p + k, Len(u)) = SubSeq(A, p + k, Len(A)) \o R
    BY <1>7, <2>1, PartAndRest
  <2>3. SubSeq(u, p + k, q - 1) = SubSeq(text, p + k, q - 1)
    BY <1>9, <2>1
  <2>4. SubSeq(u, p + k, q - 1) = SubSeq(A, p + k, q - 1)
    <3>1. q - 1 \in 0..Len(A)
      BY <1>2, <1>4
    <3> QED BY <1>7, <2>1, <3>1, PartOfFirst
  <2> QED BY <1>1, <1>4, <2>2, <2>3, <2>4 DEF LinesAfter, LinesBetween
<1>13. ApplyHunk(u, g) = LinesBefore(text, g) \o g.new \o (LinesBetween(text, g, h) \o R)
  BY <1>10, <1>11, <1>12, AppliedInPlace
<1>14. PICK B \in Seq(LineValues) : B = LinesBefore(text, g)
  <2>1. \A i \in 1..p - 1 : text[i] \in LineValues
    BY <1>2, <1>3
  <2>2. SubSeq(text, 1, p - 1) \in Seq(LineValues)
    <3>1. 1 \in Int /\ p - 1 \in Int
      OBVIOUS
    <3> QED BY <2>1, <3>1, SubSeqProperties
  <2> QED BY <1>1, <2>2 DEF LinesBefore
<1>15. PICK M \in Seq(LineValues) : M = LinesBetween(text, g, h)
  <2>1. \A i \in p + k..q - 1 : text[i] \in LineValues
    BY <1>2, <1>3
  <2>2. SubSeq(text, p + k, q - 1) \in Seq(LineValues)
    <3>1. p + k \in Int /\ q - 1 \in Int
      OBVIOUS
    <3> QED BY <2>1, <3>1, SubSeqProperties
  <2> QED BY <1>1, <2>2 DEF LinesBetween
<1>16. PICK N \in Seq(LineValues), X \in Seq(LineValues) : N = h.new /\ X = g.new
  BY DEF HunkIs
<1>17. ApplyHunk(u, g) = B \o X \o (M \o (N \o C))
  BY <1>6, <1>13, <1>14, <1>15, <1>16
<1>18. ApplyHunk(u, g) = B \o X \o M \o N \o C
  <2>1. AllRegroup(B, X, M, N, C)
    BY Regrouped
  <2> QED BY <1>17, <2>1 DEF AllRegroup
<1> QED BY <1>5, <1>8, <1>14, <1>15, <1>16, <1>18

(* What a diff does to the text it was made of.                                    *)
LEMMA DiffLands ==
    ASSUME NEW text \in Seq(LineValues), NEW hunks \in DiffsOf(text)
    PROVE  ApplyHunks(text, hunks) = Meant(text, hunks)
<1>1. PICK g \in HunksOf(text), h \in HunksOf(text) : hunks = {g, h} /\ (g = h \/ Apart(g, h))
  BY DEF DiffsOf
<1>2. HunkIs(g, text) /\ HunkIs(h, text)
  BY <1>1, HunksAre
<1>3. CASE g = h
  <2>1. hunks = {g}
    BY <1>1, <1>3
  <2>2. g.at \in Int
    BY <1>2, LenProperties DEF HunkIs
  <2>3. FromTheEnd(hunks) = g /\ Topmost(hunks) = g
    BY <2>1, <2>2 DEF FromTheEnd, Topmost
  <2>4. hunks \ {g} = {}
    BY <2>1
  <2>5. ApplyHunks(text, hunks) = ApplyHunk(text, g)
    BY <2>3, <2>4 DEF ApplyHunks
  <2>6. Meant(text, hunks) = LinesBefore(text, g) \o g.new \o LinesAfter(text, g)
    BY <2>3, <2>4 DEF Meant
  <2> QED BY <1>2, <2>5, <2>6, AppliedInPlace
<1>4. ASSUME NEW a, NEW b, hunks = {a, b}, HunkIs(a, text), HunkIs(b, text), a.at + Len(a.old) <= b.at
      PROVE  ApplyHunks(text, hunks) = Meant(text, hunks)
  <2>1. a.at \in Int /\ b.at \in Int /\ a.at < b.at
    <3>1. a.at \in 1..Len(text) /\ b.at \in 1..Len(text) /\ Len(text) \in Nat /\ Len(a.old) \in Nat \ {0}
      BY <1>4, LenProperties DEF HunkIs
    <3> QED BY <1>4, <3>1
  <2>2. FromTheEnd(hunks) = b /\ Topmost(hunks) = a
    BY <1>4, <2>1 DEF FromTheEnd, Topmost
  <2>3. hunks \ {b} = {a} /\ hunks \ {a} = {b} /\ {a} # {} /\ {b} # {}
    BY <1>4, <2>1
  <2>4. FromTheEnd({a}) = a /\ Topmost({b}) = b
    BY <2>1 DEF FromTheEnd, Topmost
  <2>5. ApplyHunks(text, hunks) = ApplyHunk(ApplyHunk(text, b), a)
    BY <2>2, <2>3, <2>4 DEF ApplyHunks
  <2>6. Meant(text, hunks) = LinesBefore(text, a) \o a.new \o LinesBetween(text, a, b) \o b.new \o LinesAfter(text, b)
    BY <2>2, <2>3, <2>4 DEF Meant
  <2> QED BY <1>4, <2>5, <2>6, AppliedTwice
<1>5. CASE Apart(g, h)
  <2>1. hunks = {h, g}
    BY <1>1
  <2> QED BY <1>1, <1>2, <1>4, <1>5, <2>1 DEF Apart
<1> QED BY <1>1, <1>3, <1>5

(* A diff, of the text or of another, leaves a text.                               *)
LEMMA HunkLeavesText ==
    ASSUME NEW text \in Seq(LineValues), NEW h, h.new \in Seq(LineValues), h.old \in Seq(LineValues), h.at \in Nat
    PROVE  ApplyHunk(text, h) \in Seq(LineValues)
<1>1. PICK n \in Nat, k \in Nat : n = Len(text) /\ k = Len(h.old)
  BY LenProperties
<1>2. PICK places : places = Places(text, h.old)
  OBVIOUS
<1>3. \A c \in places : c \in 0..n - k
  BY <1>1, <1>2 DEF Places
<1>4. CASE PlaceOf(text, h) = Nowhere
  BY <1>4 DEF ApplyHunk
<1>5. CASE PlaceOf(text, h) # Nowhere
  <2>0. PICK a : a = h.at - 1
    OBVIOUS
  <2>1. places # {} /\ PlaceOf(text, h) = CHOOSE c \in places : \A d \in places : Away(c, a) <= Away(d, a)
    BY <1>2, <1>5, <2>0 DEF PlaceOf
  <2>2. \A c \in places : Away(c, a) \in Nat
    <3>1. \A c \in places : c \in Int
      BY <1>3
    <3>2. a \in Int
      BY <2>0
    <3>3. \A c \in Int : Away(c, a) \in Nat
      BY <3>2 DEF Away
    <3> QED BY <3>1, <3>3
  <2>3. PICK T : T = {Away(c, a) : c \in places}
    OBVIOUS
  <2>4. PICK m \in T : \A x \in T : m <= x
    <3>1. T \subseteq Nat /\ T # {}
      BY <2>1, <2>2, <2>3
    <3> QED BY <3>1, LeastNat
  <2>5. PICK e \in places : m = Away(e, a)
    BY <2>3
  <2>6. \A d \in places : Away(e, a) <= Away(d, a)
    BY <2>3, <2>4, <2>5
  <2>7. PICK c : c = PlaceOf(text, h)
    OBVIOUS
  <2>8. c \in 0..n - k
    BY <1>3, <2>1, <2>5, <2>6, <2>7
  <2>9. \A i \in 1..n : text[i] \in LineValues
    BY <1>1, ElementOfSeq
  <2>10. SubSeq(text, 1, c) \in Seq(LineValues)
    <3>1. \A i \in 1..c : text[i] \in LineValues
      BY <2>8, <2>9
    <3>2. 1 \in Int /\ c \in Int
      BY <2>8
    <3> QED BY <3>1, <3>2, SubSeqProperties
  <2>11. SubSeq(text, c + k + 1, n) \in Seq(LineValues)
    <3>1. \A i \in c + k + 1..n : text[i] \in LineValues
      BY <2>8, <2>9
    <3>2. c + k + 1 \in Int /\ n \in Int
      BY <2>8
    <3> QED BY <3>1, <3>2, SubSeqProperties
  <2>12. PICK x \in Seq(LineValues) : x = SubSeq(text, 1, c) \o h.new
    BY <2>10, ConcatProperties
  <2>13. x \o SubSeq(text, c + k + 1, n) \in Seq(LineValues)
    BY <2>11, ConcatProperties
  <2>14. ApplyHunk(text, h) = x \o SubSeq(text, c + k + 1, n)
    BY <1>1, <1>5, <2>7, <2>12 DEF ApplyHunk
  <2> QED BY <2>13, <2>14
<1> QED BY <1>4, <1>5

LEMMA DiffLeavesText ==
    ASSUME NEW text \in Seq(LineValues), NEW of \in Seq(LineValues), NEW hunks \in DiffsOf(of)
    PROVE  ApplyHunks(text, hunks) \in Seq(LineValues)
<1>1. PICK g \in HunksOf(of), h \in HunksOf(of) : hunks = {g, h}
  BY DEF DiffsOf
<1>2. ASSUME NEW x \in hunks PROVE x.at \in Nat /\ x.new \in Seq(LineValues) /\ x.old \in Seq(LineValues)
  <2>1. HunkIs(x, of)
    BY <1>1, <1>2, HunksAre
  <2> QED BY <2>1, LenProperties DEF HunkIs
<1>3. FromTheEnd(hunks) \in hunks
  <2>1. \E x \in hunks : \A y \in hunks : y.at <= x.at
    <3>1. g.at \in Nat /\ h.at \in Nat
      BY <1>1, <1>2
    <3>2. CASE g.at <= h.at
      BY <1>1, <3>1, <3>2
    <3>3. CASE h.at <= g.at
      BY <1>1, <3>1, <3>3
    <3> QED BY <3>1, <3>2, <3>3
  <2> QED BY <2>1 DEF FromTheEnd
<1>4. PICK first \in hunks : first = FromTheEnd(hunks)
  BY <1>3
<1>5. PICK once \in Seq(LineValues) : once = ApplyHunk(text, first)
  BY <1>2, HunkLeavesText
<1>6. ASSUME hunks \ {first} # {} PROVE ApplyHunk(once, FromTheEnd(hunks \ {first})) \in Seq(LineValues)
  <2>1. PICK x \in hunks : hunks \ {first} = {x}
    BY <1>1, <1>4, <1>6
  <2>2. FromTheEnd({x}) = x
    BY <1>2, <2>1 DEF FromTheEnd
  <2> QED BY <1>2, <2>1, <2>2, HunkLeavesText
<1> QED BY <1>4, <1>5, <1>6 DEF ApplyHunks

--------------------------------------------------------------------------------
(* Where a run is: what a diff meant is what the copy holds until it is verified,  *)
(* and only a run that reports has passed, on the copy as it is.                   *)
CopyIs(copy) == DOMAIN copy = {"file", "tests"} /\ copy.file \in Seq(LineValues)
TrialFields == {"pc", "turn", "status", "exit", "patched", "ranOn", "meant", "alone"}
TrialIs(t, copy) ==
    /\ DOMAIN t = TrialFields
    /\ t.pc = "verify" => \A text \in t.meant : copy.file = text
    /\ t.status = "verified_pass" => t.pc = "report" /\ t.exit = 0 /\ t.ranOn = copy
LoopInv == CopyIs(workspace) /\ CopyIs(sandbox) /\ TrialIs(trial, sandbox)

LEMMA TurnEnds ==
    ASSUME NEW t, NEW copy, DOMAIN t = TrialFields, t.status # "verified_pass"
    PROVE  TrialIs(NextTurn(t), copy)
<1>1. PICK n : n = NextTurn(t)
  OBVIOUS
<1>2. DOMAIN n = TrialFields /\ n.pc \in {"report", "ask"} /\ n.status = t.status
  BY <1>1 DEF NextTurn, TrialFields
<1> QED BY <1>1, <1>2 DEF TrialIs

LEMMA LoopBegins == LoopInit => LoopInv
<1> SUFFICES ASSUME LoopInit PROVE LoopInv
  OBVIOUS
<1>1. workspace \in [file : SomeLines(MaxLines), tests : {TRUE}] /\ sandbox = workspace
  BY DEF LoopInit
<1>2. CopyIs(workspace)
  BY <1>1, LinesAre, LoopAssumption DEF CopyIs, LoopAssumption
<1>3. DOMAIN trial = TrialFields /\ trial.pc = "ask" /\ trial.status = "max_turns_exceeded"
  BY DEF LoopInit, TrialFields
<1> QED BY <1>1, <1>2, <1>3 DEF LoopInv, TrialIs

LEMMA ToolKeeps == ASSUME LoopInv, ToolTurn PROVE LoopInv'
<1>1. DOMAIN trial = TrialFields /\ trial.status # "verified_pass"
  BY DEF LoopInv, TrialIs, ToolTurn, LoopAt
<1>2. TrialIs(trial', sandbox')
  BY <1>1, TurnEnds DEF ToolTurn
<1>3. CopyIs(sandbox')
  BY DEF LoopInv, CopyIs, ToolTurn
<1> QED BY <1>2, <1>3 DEF LoopInv, ToolTurn

LEMMA PatchKeeps ==
    ASSUME LoopInv, LoopAt("ask"), NEW file \in Seq(LineValues), NEW meant, NEW alone, \A text \in meant : file = text,
           Patched(file, meant, alone)
    PROVE  LoopInv'
<1>1. DOMAIN trial = TrialFields /\ trial.status # "verified_pass"
  BY DEF LoopInv, TrialIs, LoopAt
<1>2. PICK t : t = [trial EXCEPT !.pc = "verify", !.patched = TRUE, !.meant = meant, !.alone = {alone}]
  OBVIOUS
<1>3. DOMAIN t = TrialFields /\ t.pc = "verify" /\ t.meant = meant /\ t.status = trial.status
  BY <1>1, <1>2 DEF TrialFields
<1>4. PICK copy : copy = [sandbox EXCEPT !.file = file]
  OBVIOUS
<1>5. CopyIs(copy) /\ copy.file = file
  BY <1>4 DEF LoopInv, CopyIs
<1>6. TrialIs(t, copy)
  BY <1>1, <1>3, <1>5 DEF TrialIs
<1>7. trial' = t /\ sandbox' = copy /\ workspace' = workspace
  BY <1>2, <1>4 DEF Patched
<1> QED BY <1>5, <1>6, <1>7 DEF LoopInv

LEMMA DiffKeeps == ASSUME LoopInv, DiffTurn PROVE LoopInv'
<1>1. LoopAt("ask")
  BY DEF DiffTurn
<1>2. PICK of \in {sandbox.file, workspace.file} : \E hunks \in DiffsOf(of) :
         Patched(ApplyHunks(sandbox.file, hunks), IF of = sandbox.file THEN {Meant(of, hunks)} ELSE {},
                 ApplyHunks(workspace.file, hunks))
  BY DEF DiffTurn
<1>3. PICK hunks \in DiffsOf(of) :
         Patched(ApplyHunks(sandbox.file, hunks), IF of = sandbox.file THEN {Meant(of, hunks)} ELSE {},
                 ApplyHunks(workspace.file, hunks))
  BY <1>2
<1>4. sandbox.file \in Seq(LineValues) /\ of \in Seq(LineValues)
  BY DEF LoopInv, CopyIs
<1>5. PICK file \in Seq(LineValues) : file = ApplyHunks(sandbox.file, hunks)
  BY <1>4, DiffLeavesText
<1>6. PICK meant : meant = IF of = sandbox.file THEN {Meant(of, hunks)} ELSE {}
  OBVIOUS
<1>7. \A text \in meant : file = text
  <2>1. CASE of = sandbox.file
    <3>1. ApplyHunks(of, hunks) = Meant(of, hunks)
      BY <1>4, DiffLands
    <3> QED BY <1>5, <1>6, <2>1, <3>1
  <2>2. CASE of # sandbox.file
    BY <1>6, <2>2
  <2> QED BY <2>1, <2>2
<1>8. Patched(file, meant, ApplyHunks(workspace.file, hunks))
  BY <1>3, <1>5, <1>6
<1> QED BY <1>1, <1>7, <1>8, PatchKeeps

LEMMA VerifyKeeps == ASSUME LoopInv, VerifyTurn PROVE LoopInv'
<1>1. DOMAIN trial = TrialFields /\ trial.status # "verified_pass"
  BY DEF LoopInv, TrialIs, VerifyTurn, LoopAt
<1>2. PICK exit \in {0, 1, 124} :
         trial' = IF exit = 0 THEN [[trial EXCEPT !.exit = exit, !.ranOn = sandbox] EXCEPT !.pc = "report", !.status = "verified_pass"]
                  ELSE NextTurn([trial EXCEPT !.exit = exit, !.ranOn = sandbox])
  BY DEF VerifyTurn
<1>3. PICK run : run = [trial EXCEPT !.exit = exit, !.ranOn = sandbox]
  OBVIOUS
<1>4. DOMAIN run = TrialFields /\ run.status = trial.status /\ run.exit = exit /\ run.ranOn = sandbox
  BY <1>1, <1>3 DEF TrialFields
<1>5. PICK passed : passed = [run EXCEPT !.pc = "report", !.status = "verified_pass"]
  OBVIOUS
<1>6. DOMAIN passed = TrialFields /\ passed.pc = "report" /\ passed.exit = exit /\ passed.ranOn = sandbox
  BY <1>4, <1>5 DEF TrialFields
<1>7. exit = 0 => TrialIs(passed, sandbox)
  BY <1>6 DEF TrialIs
<1>8. TrialIs(NextTurn(run), sandbox)
  BY <1>1, <1>4, TurnEnds
<1>9. trial' = IF exit = 0 THEN passed ELSE NextTurn(run)
  BY <1>2, <1>3, <1>5
<1>10. TrialIs(trial', sandbox)
  BY <1>7, <1>8, <1>9
<1> QED BY <1>10 DEF LoopInv, VerifyTurn

(* Diffs land, and what passed is what was run (PatchesLand), in every run of the   *)
(* loop: whatever lines there are and however long the file, for diffs of one hunk  *)
(* or two.                                                                          *)
THEOREM PatchesDoLand == LoopSpec => []PatchesLand
<1>1. LoopInv /\ [LoopNext]_loopVars => LoopInv'
  <2> SUFFICES ASSUME LoopInv, [LoopNext]_loopVars PROVE LoopInv'
    OBVIOUS
  <2>1. CASE ToolTurn
    BY <2>1, ToolKeeps
  <2>2. CASE DiffTurn
    BY <2>2, DiffKeeps
  <2>3. CASE CodeTurn
    <3>1. PICK file \in SomeLines(MaxLines) : Patched(file, {}, file)
      BY <2>3 DEF CodeTurn
    <3>2. file \in Seq(LineValues)
      BY LinesAre, LoopAssumption DEF LoopAssumption
    <3>3. LoopAt("ask") /\ \A text \in {} : file = text
      BY <2>3 DEF CodeTurn
    <3> QED BY <3>1, <3>2, <3>3, PatchKeeps
  <2>4. CASE NotApplied
    <3>1. DOMAIN trial = TrialFields /\ trial.status # "verified_pass"
      BY <2>4 DEF LoopInv, TrialIs, NotApplied, LoopAt
    <3>2. PICK t : t = [trial EXCEPT !.patched = TRUE, !.alone = {}, !.meant = {}]
      OBVIOUS
    <3>3. DOMAIN t = TrialFields /\ t.status # "verified_pass"
      BY <3>1, <3>2 DEF TrialFields
    <3>4. trial' = NextTurn(t) /\ workspace' = workspace /\ sandbox' = sandbox
      BY <2>4, <3>2 DEF NotApplied
    <3> QED BY <3>3, <3>4, TurnEnds DEF LoopInv
  <2>5. CASE ExplainTurn
    <3>1. DOMAIN trial = TrialFields /\ trial.status # "verified_pass"
      BY <2>5 DEF LoopInv, TrialIs, ExplainTurn, LoopAt
    <3>2. PICK t : t = [trial EXCEPT !.pc = "verify", !.meant = {}]
      OBVIOUS
    <3>3. DOMAIN t = TrialFields /\ t.status # "verified_pass" /\ t.meant = {}
      BY <3>1, <3>2 DEF TrialFields
    <3>4. trial' = t /\ workspace' = workspace /\ sandbox' = sandbox
      BY <2>5, <3>2 DEF ExplainTurn
    <3> QED BY <3>3, <3>4 DEF LoopInv, TrialIs
  <2>6. CASE VerifyTurn
    BY <2>6, VerifyKeeps
  <2>7. CASE AskRaises
    <3>1. DOMAIN trial = TrialFields /\ trial.status # "verified_pass"
      BY <2>7 DEF LoopInv, TrialIs, AskRaises, LoopAt
    <3>2. PICK t : t = [trial EXCEPT !.pc = "raised"]
      OBVIOUS
    <3>3. DOMAIN t = TrialFields /\ t.status # "verified_pass" /\ t.pc = "raised"
      BY <3>1, <3>2 DEF TrialFields
    <3>4. trial' = t /\ workspace' = workspace /\ sandbox' = sandbox
      BY <2>7, <3>2 DEF AskRaises
    <3> QED BY <3>3, <3>4 DEF LoopInv, TrialIs
  <2>8. CASE UNCHANGED loopVars
    BY <2>8 DEF loopVars, LoopInv
  <2> QED BY <2>1, <2>2, <2>3, <2>4, <2>5, <2>6, <2>7, <2>8 DEF LoopNext
<1>2. LoopInv => PatchesLand
  BY DEF LoopInv, TrialIs, PatchesLand, DiffsLand, PassedIsRun, LoopAt
<1> QED BY <1>1, <1>2, LoopBegins, PTL DEF LoopSpec
==============================================================================
