------------------------- MODULE TrainingEventsProofs -------------------------
(* Theorems about the training events: every event is delivered to the stream,    *)
(* and to the readers that follow it, exactly once and in order.                  *)
EXTENDS TrainingEvents, FiniteSetTheorems, WellFoundedInduction, TLAPS

------------------------------------------------------------------------------
(* Least and greatest numbers.                                               *)

(* A set of numbers has a least one; one that is bounded has a greatest.          *)
LEMMA LeastNat ==
    ASSUME NEW T, T \subseteq Nat, T # {}
    PROVE  \E n \in T : \A m \in T : n <= m
<1>1. PICK R : R = OpToRel(<, Nat)
  OBVIOUS
<1>2. IsWellFoundedOn(R, Nat)
  BY <1>1, NatLessThanWellFounded
<1>3. PICK n \in T : \A m \in T : ~(<<m, n>> \in R)
  BY <1>2, WFMin
<1>4. \A m, k \in Nat : m < k => <<m, k>> \in R
  BY <1>1 DEF OpToRel
<1>5. n \in Nat /\ \A m \in T : ~(m < n)
  BY <1>3, <1>4
<1>6. \A m \in T : m \in Nat /\ n <= m
  <2> SUFFICES ASSUME NEW m \in T PROVE m \in Nat /\ n <= m
    OBVIOUS
  <2>1. m \in Nat /\ ~(m < n)
    BY <1>5
  <2> QED BY <1>5, <2>1
<1> QED BY <1>3, <1>6

LEMMA GreatestNat ==
    ASSUME NEW bound \in Nat, NEW T, T \subseteq 0..bound, T # {}
    PROVE  \E n \in T : \A m \in T : m <= n
<1>1. PICK S : S = {bound - n : n \in T}
  OBVIOUS
<1>2. S \subseteq Nat /\ S # {}
  <2>1. \A n \in T : n \in Nat /\ n <= bound /\ bound - n \in Nat
    <3> SUFFICES ASSUME NEW n \in T PROVE n \in Nat /\ n <= bound /\ bound - n \in Nat
      OBVIOUS
    <3>1. n \in 0..bound
      OBVIOUS
    <3> QED BY <3>1
  <2> QED BY <1>1, <2>1
<1>3. PICK s \in S : \A r \in S : s <= r
  BY <1>2, LeastNat
<1>4. PICK n \in T : s = bound - n
  BY <1>1, <1>3
<1>5. ASSUME NEW m \in T PROVE m <= n
  <2>1. s <= bound - m
    BY <1>1, <1>3
  <2>2. m \in 0..bound /\ n \in 0..bound
    OBVIOUS
  <2> QED BY <1>4, <2>1, <2>2
<1> QED BY <1>5

------------------------------------------------------------------------------
(* Sequences, the stream, the calls, the archive and the client.             *)

(* Sequences: their members, those without repetition, those that rise.            *)
Unrepeated(s) == \A i, j \in 1..Len(s) : s[i] = s[j] => i = j
Rising(s) == \A i, j \in 1..Len(s) : i < j => s[i] < s[j]

LEMMA MembersOf ==
    ASSUME NEW T, NEW s \in Seq(T)
    PROVE  /\ ToSet(s) = {s[i] : i \in 1..Len(s)} /\ ToSet(s) \subseteq T /\ Len(s) \in Nat
           /\ s # <<>> => 1 \in 1..Len(s) /\ Len(s) \in 1..Len(s)
           /\ s = <<>> => ToSet(s) = {}
BY DEF ToSet
LEMMA AppendedSet ==
    ASSUME NEW T, NEW s \in Seq(T), NEW e \in T
    PROVE  Append(s, e) \in Seq(T) /\ ToSet(Append(s, e)) = ToSet(s) \union {e}
<1>1. PICK x : x = Append(s, e)
  OBVIOUS
<1>2. x \in Seq(T) /\ Len(x) = Len(s) + 1 /\ x[Len(s) + 1] = e /\ (\A i \in 1..Len(s) : x[i] = s[i]) /\ Len(s) \in Nat
  BY <1>1
<1>3. ToSet(x) = {x[i] : i \in 1..Len(x)}
  <2>1. DOMAIN x = 1..Len(x)
    BY <1>2
  <2> QED BY <2>1 DEF ToSet
<1>4. ToSet(s) = {s[i] : i \in 1..Len(s)}
  <2>1. DOMAIN s = 1..Len(s)
    OBVIOUS
  <2> QED BY <2>1 DEF ToSet
<1>5. 1..Len(x) = 1..Len(s) \union {Len(s) + 1}
  BY <1>2
<1>6. ToSet(x) = ToSet(s) \union {e}
  BY <1>2, <1>3, <1>4, <1>5
<1> QED BY <1>1, <1>2, <1>6
LEMMA JoinedIs ==
    ASSUME NEW T, NEW s \in Seq(T), NEW t \in Seq(T), NEW x, x = s \o t
    PROVE  \A i \in 1..Len(x) : \/ i \in 1..Len(s) /\ x[i] = s[i]
                                \/ i - Len(s) \in 1..Len(t) /\ x[i] = t[i - Len(s)]
<1>1. Len(x) = Len(s) + Len(t) /\ Len(s) \in Nat /\ Len(t) \in Nat
  OBVIOUS
<1>2. \A i \in 1..Len(x) : x[i] = IF i <= Len(s) THEN s[i] ELSE t[i - Len(s)]
  OBVIOUS
<1> QED BY <1>1, <1>2
LEMMA EmptyIsNone ==
    ASSUME NEW T, NEW s \in Seq(T), Len(s) = 0
    PROVE  s = <<>>
OBVIOUS
LEMMA JoinedSet ==
    ASSUME NEW T, NEW s \in Seq(T), NEW t \in Seq(T)
    PROVE  s \o t \in Seq(T) /\ ToSet(s \o t) = ToSet(s) \union ToSet(t)
<1>x. PICK x : x = s \o t
  OBVIOUS
<1>1. x \in Seq(T) /\ Len(x) = Len(s) + Len(t) /\ Len(s) \in Nat /\ Len(t) \in Nat
  BY <1>x
<1>2. \A i \in 1..Len(x) : x[i] = IF i <= Len(s) THEN s[i] ELSE t[i - Len(s)]
  BY <1>x
<1>3. \A i \in 1..Len(x) : \/ i \in 1..Len(s) /\ x[i] = s[i]
                           \/ i - Len(s) \in 1..Len(t) /\ x[i] = t[i - Len(s)]
  BY <1>1, <1>2
<1>4. ToSet(x) = {x[i] : i \in 1..Len(x)} /\ ToSet(s) = {s[i] : i \in 1..Len(s)} /\ ToSet(t) = {t[i] : i \in 1..Len(t)}
  <2>1. ToSet(x) = {x[i] : i \in 1..Len(x)}
    <3>1. DOMAIN x = 1..Len(x)
      BY <1>1
    <3> QED BY <3>1 DEF ToSet
  <2>2. ToSet(s) = {s[i] : i \in 1..Len(s)}
    <3>1. DOMAIN s = 1..Len(s)
      OBVIOUS
    <3> QED BY <3>1 DEF ToSet
  <2>3. ToSet(t) = {t[i] : i \in 1..Len(t)}
    <3>1. DOMAIN t = 1..Len(t)
      OBVIOUS
    <3> QED BY <3>1 DEF ToSet
  <2> QED BY <2>1, <2>2, <2>3
<1>5. ToSet(x) \subseteq ToSet(s) \union ToSet(t)
  BY <1>3, <1>4
<1>6. ASSUME NEW i \in 1..Len(s) PROVE s[i] \in ToSet(x)
  <2>1. i \in 1..Len(x) /\ x[i] = s[i]
    BY <1>1, <1>2
  <2> QED BY <1>4, <2>1
<1>7. ASSUME NEW i \in 1..Len(t) PROVE t[i] \in ToSet(x)
  <2>1. i + Len(s) \in 1..Len(x) /\ ~(i + Len(s) <= Len(s)) /\ (i + Len(s)) - Len(s) = i
    BY <1>1
  <2>2. x[i + Len(s)] = t[i]
    BY <1>2, <2>1
  <2> QED BY <1>4, <2>1, <2>2
<1>8. ToSet(x) = ToSet(s) \union ToSet(t)
  <2>1. ToSet(s) \subseteq ToSet(x)
    BY <1>4, <1>6
  <2>2. ToSet(t) \subseteq ToSet(x)
    BY <1>4, <1>7
  <2> QED BY <1>5, <2>1, <2>2
<1> QED BY <1>x, <1>1, <1>8
LEMMA UnrepeatedJoined ==
    ASSUME NEW T, NEW s \in Seq(T), NEW t \in Seq(T), Unrepeated(s), Unrepeated(t), ToSet(s) \cap ToSet(t) = {}
    PROVE  Unrepeated(s \o t)
<1>1. PICK x : x = s \o t
  OBVIOUS
<1>2. Len(x) = Len(s) + Len(t) /\ Len(s) \in Nat /\ Len(t) \in Nat
  BY <1>1
<1>3. \A i \in 1..Len(x) : \/ i \in 1..Len(s) /\ x[i] = s[i]
                           \/ i - Len(s) \in 1..Len(t) /\ x[i] = t[i - Len(s)]
  BY <1>1, JoinedIs
<1>4. ToSet(s) = {s[i] : i \in 1..Len(s)} /\ ToSet(t) = {t[i] : i \in 1..Len(t)}
  BY MembersOf
<1>5. ASSUME NEW i \in 1..Len(x), NEW j \in 1..Len(x), x[i] = x[j] PROVE i = j
  <2>1. CASE i \in 1..Len(s) /\ x[i] = s[i]
    <3>1. CASE j \in 1..Len(s) /\ x[j] = s[j]
      BY <1>5, <2>1, <3>1 DEF Unrepeated
    <3>2. CASE j - Len(s) \in 1..Len(t) /\ x[j] = t[j - Len(s)]
      BY <1>4, <1>5, <2>1, <3>2
    <3> QED BY <1>3, <3>1, <3>2
  <2>2. CASE i - Len(s) \in 1..Len(t) /\ x[i] = t[i - Len(s)]
    <3>1. CASE j \in 1..Len(s) /\ x[j] = s[j]
      BY <1>4, <1>5, <2>2, <3>1
    <3>2. CASE j - Len(s) \in 1..Len(t) /\ x[j] = t[j - Len(s)]
      <4>1. i - Len(s) = j - Len(s)
        BY <1>5, <2>2, <3>2 DEF Unrepeated
      <4> QED BY <1>2, <4>1
    <3> QED BY <1>3, <3>1, <3>2
  <2> QED BY <1>3, <2>1, <2>2
<1> QED BY <1>1, <1>5 DEF Unrepeated
LEMMA RisingJoined ==
    ASSUME NEW s \in Seq(Nat), NEW t \in Seq(Nat), Rising(s), Rising(t), \A m \in ToSet(s), n \in ToSet(t) : m < n
    PROVE  Rising(s \o t)
<1>1. PICK x : x = s \o t
  OBVIOUS
<1>2. Len(x) = Len(s) + Len(t) /\ Len(s) \in Nat /\ Len(t) \in Nat
  BY <1>1
<1>3. \A i \in 1..Len(x) : \/ i \in 1..Len(s) /\ x[i] = s[i]
                           \/ i - Len(s) \in 1..Len(t) /\ x[i] = t[i - Len(s)]
  BY <1>1, JoinedIs
<1>4. ToSet(s) = {s[i] : i \in 1..Len(s)} /\ ToSet(t) = {t[i] : i \in 1..Len(t)}
  BY MembersOf
<1>5. ASSUME NEW i \in 1..Len(x), NEW j \in 1..Len(x), i < j PROVE x[i] < x[j]
  <2>1. CASE i \in 1..Len(s) /\ x[i] = s[i]
    <3>1. CASE j \in 1..Len(s) /\ x[j] = s[j]
      BY <1>5, <2>1, <3>1 DEF Rising
    <3>2. CASE j - Len(s) \in 1..Len(t) /\ x[j] = t[j - Len(s)]
      BY <1>4, <2>1, <3>2
    <3> QED BY <1>3, <3>1, <3>2
  <2>2. CASE i - Len(s) \in 1..Len(t) /\ x[i] = t[i - Len(s)]
    <3>1. CASE j \in 1..Len(s) /\ x[j] = s[j]
      BY <1>2, <1>5, <2>2, <3>1
    <3>2. CASE j - Len(s) \in 1..Len(t) /\ x[j] = t[j - Len(s)]
      <4>1. i - Len(s) < j - Len(s)
        BY <1>2, <1>5
      <4> QED BY <2>2, <3>2, <4>1 DEF Rising
    <3> QED BY <1>3, <3>1, <3>2
  <2> QED BY <1>3, <2>1, <2>2
<1> QED BY <1>1, <1>5 DEF Rising
LEMMA OneIsAll ==
    ASSUME NEW T, NEW e \in T, NEW x, x = <<e>>
    PROVE  x \in Seq(T) /\ x # <<>> /\ ToSet(x) = {e} /\ Unrepeated(x) /\ Rising(x)
<1>1. x \in Seq(T) /\ Len(x) = 1 /\ x[1] = e
  OBVIOUS
<1>2. ToSet(x) = {x[i] : i \in 1..Len(x)}
  BY <1>1 DEF ToSet
<1>3. \A i \in 1..Len(x) : i = 1
  BY <1>1
<1> QED BY <1>1, <1>2, <1>3 DEF Unrepeated, Rising
LEMMA AppendedRises ==
    ASSUME NEW s \in Seq(Nat), Rising(s), NEW e \in Nat, \A m \in ToSet(s) : m < e
    PROVE  Rising(Append(s, e))
<1>1. PICK x : x = <<e>>
  OBVIOUS
<1>2. x \in Seq(Nat) /\ ToSet(x) = {e} /\ Rising(x)
  BY <1>1, OneIsAll
<1>3. Rising(s \o x)
  BY <1>2, RisingJoined
<1>4. Append(s, e) = s \o x
  BY <1>1
<1> QED BY <1>3, <1>4
LEMMA AppendedUnrepeated ==
    ASSUME NEW T, NEW s \in Seq(T), Unrepeated(s), NEW e \in T, e \notin ToSet(s)
    PROVE  Unrepeated(Append(s, e))
<1>1. PICK x : x = <<e>>
  OBVIOUS
<1>2. x \in Seq(T) /\ ToSet(x) = {e} /\ Unrepeated(x)
  BY <1>1, OneIsAll
<1>3. Unrepeated(s \o x)
  BY <1>2, UnrepeatedJoined
<1>4. Append(s, e) = s \o x
  BY <1>1
<1> QED BY <1>3, <1>4
(* What is kept of a sequence: the function that Those is defined by, on the first n. *)
Keeps(n, f, s, S) == f = [i \in 0..n |-> IF i = 0 THEN <<>>
                                         ELSE IF s[i] \in S THEN Append(f[i - 1], s[i]) ELSE f[i - 1]]
LEMMA KeepsExists ==
    ASSUME NEW n \in Nat, NEW s, NEW S
    PROVE  \E f : Keeps(n, f, s, S)
<1>1. PICK T : T = {k \in Nat : ~ \E f : Keeps(k, f, s, S)}
  OBVIOUS
<1>2. T = {}
  <2> SUFFICES ASSUME T # {} PROVE FALSE
    OBVIOUS
  <2>1. PICK k \in T : \A m \in T : k <= m
    BY <1>1, LeastNat
  <2>2. k \in Nat /\ ~ \E f : Keeps(k, f, s, S)
    BY <1>1
  <2>3. CASE k = 0
    <3>1. PICK f : f = [j \in 0..0 |-> <<>>]
      OBVIOUS
    <3>2. f = [j \in 0..0 |-> IF j = 0 THEN <<>> ELSE IF s[j] \in S THEN Append(f[j - 1], s[j]) ELSE f[j - 1]]
      BY <3>1
    <3> QED BY <2>2, <2>3, <3>2 DEF Keeps
  <2>4. CASE k # 0
    <3>1. k - 1 \in Nat /\ k - 1 \notin T
      BY <2>1, <2>2, <2>4
    <3>2. PICK f : Keeps(k - 1, f, s, S)
      BY <1>1, <3>1
    <3>3. f = [j \in 0..(k - 1) |-> IF j = 0 THEN <<>> ELSE IF s[j] \in S THEN Append(f[j - 1], s[j]) ELSE f[j - 1]]
      BY <3>2 DEF Keeps
    <3>4. PICK last : last = IF s[k] \in S THEN Append(f[k - 1], s[k]) ELSE f[k - 1]
      OBVIOUS
    <3>5. PICK g : g = [j \in 0..k |-> IF j = k THEN last ELSE f[j]]
      OBVIOUS
    <3>6. \A j \in 0..k : j # 0 => j - 1 \in 0..k /\ j - 1 # k /\ g[j - 1] = f[j - 1]
      BY <2>2, <3>5
    <3>7. \A j \in 0..k : g[j] = IF j = 0 THEN <<>> ELSE IF s[j] \in S THEN Append(g[j - 1], s[j]) ELSE g[j - 1]
      <4> SUFFICES ASSUME NEW j \in 0..k
                   PROVE g[j] = IF j = 0 THEN <<>> ELSE IF s[j] \in S THEN Append(g[j - 1], s[j]) ELSE g[j - 1]
        OBVIOUS
      <4>1. CASE j = k
        <5>1. g[j] = last /\ g[j - 1] = f[k - 1] /\ j # 0
          BY <2>4, <3>5, <3>6, <4>1
        <5> QED BY <3>4, <4>1, <5>1
      <4>2. CASE j # k
        <5>1. j \in 0..(k - 1) /\ g[j] = f[j]
          BY <2>2, <3>5, <4>2
        <5>2. f[j] = IF j = 0 THEN <<>> ELSE IF s[j] \in S THEN Append(f[j - 1], s[j]) ELSE f[j - 1]
          BY <3>3, <5>1
        <5>3. j # 0 => g[j - 1] = f[j - 1]
          BY <3>6
        <5> QED BY <5>1, <5>2, <5>3
      <4> QED BY <4>1, <4>2
    <3>8. g = [j \in 0..k |-> IF j = 0 THEN <<>> ELSE IF s[j] \in S THEN Append(g[j - 1], s[j]) ELSE g[j - 1]]
      <4>1. g = [j \in 0..k |-> g[j]]
        BY <3>5
      <4> QED BY <3>7, <4>1
    <3> QED BY <2>2, <3>8 DEF Keeps
  <2> QED BY <2>3, <2>4
<1> QED BY <1>1, <1>2
LEMMA ThoseIsKept ==
    ASSUME NEW T, NEW s \in Seq(T), NEW S
    PROVE  \E f : Keeps(Len(s), f, s, S) /\ Those(s, S) = f[Len(s)]
<1>1. Len(s) \in Nat
  OBVIOUS
<1>2. PICK n \in Nat : n = Len(s)
  BY <1>1
<1>3. PICK f : f = CHOOSE g : g = [i \in 0..n |-> IF i = 0 THEN <<>>
                                                 ELSE IF s[i] \in S THEN Append(g[i - 1], s[i]) ELSE g[i - 1]]
  OBVIOUS
<1>4. Those(s, S) = f[n]
  BY <1>2, <1>3, Zenon DEF Those
<1>5. Keeps(n, f, s, S)
  <2>1. PICK h : Keeps(n, h, s, S)
    BY KeepsExists
  <2>2. h = [i \in 0..n |-> IF i = 0 THEN <<>> ELSE IF s[i] \in S THEN Append(h[i - 1], s[i]) ELSE h[i - 1]]
    BY <2>1 DEF Keeps
  <2> QED BY <1>3, <2>2, Zenon DEF Keeps
<1> QED BY <1>2, <1>4, <1>5
(* Its members, in the order they had.                                             *)
SoFar(x, T, s, S, i) ==
    /\ x \in Seq(T) /\ ToSet(x) = {s[j] : j \in 1..i} \cap S
    /\ Unrepeated(s) => Unrepeated(x)
LEMMA OneMoreKept ==
    ASSUME NEW T, NEW s \in Seq(T), NEW S, NEW i \in Nat, i + 1 \in 1..Len(s), NEW x, SoFar(x, T, s, S, i),
           NEW y, y = IF s[i + 1] \in S THEN Append(x, s[i + 1]) ELSE x
    PROVE  SoFar(y, T, s, S, i + 1)
<1>1. x \in Seq(T) /\ ToSet(x) = {s[j] : j \in 1..i} \cap S /\ (Unrepeated(s) => Unrepeated(x))
  BY DEF SoFar
<1>2. PICK e \in T : e = s[i + 1]
  OBVIOUS
<1>3. 1..(i + 1) = 1..i \union {i + 1}
  OBVIOUS
<1>4. {s[j] : j \in 1..(i + 1)} = {s[j] : j \in 1..i} \union {e}
  BY <1>2, <1>3
<1>5. CASE e \in S
  <2>1. y = Append(x, e)
    BY <1>2, <1>5
  <2>2. y \in Seq(T) /\ ToSet(y) = ToSet(x) \union {e}
    <3>1. x \in Seq(T) /\ e \in T /\ y = Append(x, e)
      BY <1>1, <2>1
    <3>2. Append(x, e) \in Seq(T) /\ ToSet(Append(x, e)) = ToSet(x) \union {e}
      BY <3>1, AppendedSet
    <3> QED BY <3>1, <3>2
  <2>3. ToSet(y) = {s[j] : j \in 1..(i + 1)} \cap S
    BY <1>1, <1>4, <1>5, <2>2
  <2>4. ASSUME Unrepeated(s) PROVE Unrepeated(y)
    <3>1. \A j \in 1..i : j \in 1..Len(s) /\ j # i + 1
      OBVIOUS
    <3>2. \A j \in 1..i : s[j] # e
      BY <1>2, <2>4, <3>1 DEF Unrepeated
    <3>3. e \notin ToSet(x)
      BY <1>1, <3>2
    <3> QED BY <1>1, <2>1, <2>4, <3>3, AppendedUnrepeated
  <2> QED BY <2>2, <2>3, <2>4 DEF SoFar
<1>6. CASE e \notin S
  <2>1. y = x
    BY <1>2, <1>6
  <2>2. {s[j] : j \in 1..(i + 1)} \cap S = {s[j] : j \in 1..i} \cap S
    BY <1>4, <1>6
  <2> QED BY <1>1, <2>1, <2>2 DEF SoFar
<1> QED BY <1>5, <1>6
LEMMA ThoseAre ==
    ASSUME NEW T, NEW s \in Seq(T), NEW S
    PROVE  /\ Those(s, S) \in Seq(T) /\ ToSet(Those(s, S)) = ToSet(s) \cap S
           /\ Unrepeated(s) => Unrepeated(Those(s, S))
<1>1. PICK n \in Nat : n = Len(s)
  OBVIOUS
<1>2. PICK f : Keeps(n, f, s, S) /\ Those(s, S) = f[n]
  BY <1>1, ThoseIsKept
<1>3. f = [i \in 0..n |-> IF i = 0 THEN <<>> ELSE IF s[i] \in S THEN Append(f[i - 1], s[i]) ELSE f[i - 1]]
  BY <1>2 DEF Keeps
<1>4. PICK B : B = {k \in 0..n : ~SoFar(f[k], T, s, S, k)}
  OBVIOUS
<1>5. B = {}
  <2> SUFFICES ASSUME B # {} PROVE FALSE
    OBVIOUS
  <2>1. B \subseteq Nat
    BY <1>4
  <2>2. PICK k \in B : \A m \in B : k <= m
    BY <2>1, LeastNat
  <2>3. k \in 0..n /\ ~SoFar(f[k], T, s, S, k)
    BY <1>4
  <2>4. k # 0
    <3>1. SoFar(<<>>, T, s, S, 0)
      BY DEF SoFar, Unrepeated, ToSet
    <3> QED BY <1>3, <2>3, <3>1
  <2>5. PICK i \in Nat : k = i + 1 /\ i = k - 1
    BY <2>3, <2>4
  <2>6. i \in 0..n /\ i \notin B /\ i + 1 \in 1..Len(s)
    BY <1>1, <2>2, <2>3, <2>5
  <2>7. SoFar(f[i], T, s, S, i)
    BY <1>4, <2>6
  <2>8. f[k] = IF s[i + 1] \in S THEN Append(f[i], s[i + 1]) ELSE f[i]
    BY <1>3, <2>3, <2>4, <2>5
  <2>9. SoFar(f[k], T, s, S, k)
    BY <2>5, <2>6, <2>7, <2>8, OneMoreKept
  <2> QED BY <2>3, <2>9
<1>6. SoFar(Those(s, S), T, s, S, n)
  BY <1>2, <1>4, <1>5
<1>7. ToSet(s) = {s[j] : j \in 1..n}
  BY <1>1 DEF ToSet
<1> QED BY <1>6, <1>7 DEF SoFar
LEMMA RisingKept ==
    ASSUME NEW s \in Seq(Nat), NEW S, Rising(s)
    PROVE  Rising(Those(s, S))
<1>1. PICK n \in Nat : n = Len(s)
  OBVIOUS
<1>2. PICK f : Keeps(n, f, s, S) /\ Those(s, S) = f[n]
  BY <1>1, ThoseIsKept
<1>3. f = [i \in 0..n |-> IF i = 0 THEN <<>> ELSE IF s[i] \in S THEN Append(f[i - 1], s[i]) ELSE f[i - 1]]
  BY <1>2 DEF Keeps
<1>4. PICK B : B = {k \in 0..n : ~(SoFar(f[k], Nat, s, S, k) /\ Rising(f[k]))}
  OBVIOUS
<1>5. B = {}
  <2> SUFFICES ASSUME B # {} PROVE FALSE
    OBVIOUS
  <2>1. B \subseteq Nat
    BY <1>4
  <2>2. PICK k \in B : \A m \in B : k <= m
    BY <2>1, LeastNat
  <2>3. k \in 0..n /\ ~(SoFar(f[k], Nat, s, S, k) /\ Rising(f[k]))
    BY <1>4
  <2>4. k # 0
    <3>1. SoFar(<<>>, Nat, s, S, 0) /\ Rising(<<>>)
      BY DEF SoFar, Unrepeated, ToSet, Rising
    <3> QED BY <1>3, <2>3, <3>1
  <2>5. PICK i \in Nat : k = i + 1 /\ i = k - 1
    BY <2>3, <2>4
  <2>6. i \in 0..n /\ i \notin B /\ i + 1 \in 1..Len(s)
    BY <1>1, <2>2, <2>3, <2>5
  <2>7. SoFar(f[i], Nat, s, S, i) /\ Rising(f[i])
    BY <1>4, <2>6
  <2>8. f[k] = IF s[i + 1] \in S THEN Append(f[i], s[i + 1]) ELSE f[i]
    BY <1>3, <2>3, <2>4, <2>5
  <2>9. SoFar(f[k], Nat, s, S, k)
    BY <2>5, <2>6, <2>7, <2>8, OneMoreKept
  <2>10. Rising(f[k])
    <3>1. CASE s[i + 1] \notin S
      BY <2>7, <2>8, <3>1
    <3>2. CASE s[i + 1] \in S
      <4>1. f[i] \in Seq(Nat) /\ ToSet(f[i]) \subseteq {s[j] : j \in 1..i}
        BY <2>7 DEF SoFar
      <4>2. \A j \in 1..i : s[j] < s[i + 1]
        <5>1. \A j \in 1..i : j \in 1..Len(s) /\ j < i + 1
          BY <2>6
        <5> QED BY <2>6, <5>1 DEF Rising
      <4>3. \A m \in ToSet(f[i]) : m < s[i + 1]
        BY <4>1, <4>2
      <4>4. s[i + 1] \in Nat
        BY <2>6
      <4> QED BY <2>7, <2>8, <3>2, <4>1, <4>3, <4>4, AppendedRises
    <3> QED BY <3>1, <3>2
  <2> QED BY <2>3, <2>9, <2>10
<1> QED BY <1>2, <1>4, <1>5
(* A rising sequence is its members: two with the same ones are the same.           *)
LEMMA RisingBegins ==
    ASSUME NEW x \in Seq(Nat), NEW y \in Seq(Nat), Rising(x), Rising(y), ToSet(x) = ToSet(y)
    PROVE  \A i \in 1..Len(x) : i \in 1..Len(y) /\ x[i] = y[i]
<1>1. PICK n \in Nat, m \in Nat : n = Len(x) /\ m = Len(y)
  OBVIOUS
<1>2. {x[i] : i \in 1..n} = {y[i] : i \in 1..m}
  <2>1. ToSet(x) = {x[i] : i \in 1..n}
    BY <1>1 DEF ToSet
  <2>2. ToSet(y) = {y[i] : i \in 1..m}
    <3>1. DOMAIN y = 1..m
      BY <1>1
    <3> QED BY <3>1 DEF ToSet
  <2> QED BY <2>1, <2>2
<1>3. /\ \A i \in 1..n : x[i] \in Nat
      /\ \A i \in 1..m : y[i] \in Nat
  BY <1>1
<1>4. PICK B : B = {i \in 1..n : ~(i \in 1..m /\ x[i] = y[i])}
  OBVIOUS
<1>5. B = {}
  <2> SUFFICES ASSUME B # {} PROVE FALSE
    OBVIOUS
  <2>1. B \subseteq Nat
    BY <1>4
  <2>2. PICK k \in B : \A i \in B : k <= i
    BY <2>1, LeastNat
  <2>3. k \in 1..n /\ ~(k \in 1..m /\ x[k] = y[k])
    BY <1>4
  <2>4. \A j \in 1..n : j < k => j \in 1..m /\ x[j] = y[j]
    <3> SUFFICES ASSUME NEW j \in 1..n, j < k PROVE j \in 1..m /\ x[j] = y[j]
      OBVIOUS
    <3>1. j \notin B
      BY <2>2, <2>3
    <3> QED BY <1>4, <3>1
  <2>5. PICK p \in 1..m : x[k] = y[p]
    BY <1>2, <2>3
  <2>6. ~(p < k)
    <3> SUFFICES ASSUME p < k PROVE FALSE
      OBVIOUS
    <3>1. p \in 1..n
      BY <2>3
    <3>2. x[p] = y[p] /\ x[p] < x[k]
      BY <1>1, <2>3, <2>4, <3>1 DEF Rising
    <3> QED BY <1>3, <2>3, <2>5, <3>1, <3>2
  <2>7. k \in 1..m /\ x[k] # y[k] /\ k < p
    <3>1. k \in 1..m
      BY <2>3, <2>6
    <3> QED BY <2>3, <2>5, <2>6, <3>1
  <2>8. y[k] < x[k]
    BY <1>1, <2>5, <2>7 DEF Rising
  <2>9. PICK q \in 1..n : y[k] = x[q]
    BY <1>2, <2>7
  <2>10. CASE q < k
    <3>1. q \in 1..m /\ x[q] = y[q]
      BY <2>4, <2>10
    <3>2. y[q] < y[k]
      BY <1>1, <2>7, <2>10, <3>1 DEF Rising
    <3> QED BY <1>3, <2>7, <2>9, <3>1, <3>2
  <2>11. CASE q = k
    BY <1>3, <2>7, <2>8, <2>9, <2>11
  <2>12. CASE k < q
    <3>1. x[k] < x[q]
      BY <1>1, <2>3, <2>12 DEF Rising
    <3>2. x[k] \in Nat /\ x[q] \in Nat
      BY <1>3, <2>3
    <3> QED BY <2>8, <2>9, <3>1, <3>2
  <2> QED BY <2>3, <2>10, <2>11, <2>12
<1> QED BY <1>1, <1>4, <1>5
LEMMA RisingIsItsMembers ==
    ASSUME NEW x \in Seq(Nat), NEW y \in Seq(Nat), Rising(x), Rising(y), ToSet(x) = ToSet(y)
    PROVE  x = y
<1>1. \A i \in 1..Len(x) : i \in 1..Len(y) /\ x[i] = y[i]
  BY RisingBegins
<1>2. \A i \in 1..Len(y) : i \in 1..Len(x) /\ y[i] = x[i]
  BY RisingBegins
<1>3. Len(x) \in Nat /\ Len(y) \in Nat
  OBVIOUS
<1>4. Len(x) = Len(y)
  BY <1>1, <1>2, <1>3
<1> QED BY <1>1, <1>4
(* Parts of a sequence.                                                            *)
LEMMA FirstPart ==
    ASSUME NEW T, NEW s \in Seq(T), NEW n \in 0..Len(s)
    PROVE  /\ SubSeq(s, 1, n) \in Seq(T) /\ Len(SubSeq(s, 1, n)) = n
           /\ ToSet(SubSeq(s, 1, n)) = {s[i] : i \in 1..n}
           /\ \A i \in 1..n : SubSeq(s, 1, n)[i] = s[i]
           /\ Unrepeated(s) => Unrepeated(SubSeq(s, 1, n))
           /\ Rising(s) => Rising(SubSeq(s, 1, n))
<1>1. PICK x : x = SubSeq(s, 1, n)
  OBVIOUS
<1>2. x \in Seq(T) /\ Len(x) = n /\ n \in Nat /\ Len(s) \in Nat /\ \A i \in 1..n : x[i] = s[i] /\ i \in 1..Len(s)
  BY <1>1
<1>3. DOMAIN x = 1..n
  BY <1>2
<1>4. ToSet(x) = {s[i] : i \in 1..n}
  BY <1>2, <1>3 DEF ToSet
<1>5. Unrepeated(s) => Unrepeated(x)
  BY <1>2 DEF Unrepeated
<1>6. Rising(s) => Rising(x)
  BY <1>2 DEF Rising
<1> QED BY <1>1, <1>2, <1>4, <1>5, <1>6
LEMMA LastPart ==
    ASSUME NEW T, NEW s \in Seq(T), NEW n \in 0..Len(s)
    PROVE  /\ SubSeq(s, n + 1, Len(s)) \in Seq(T)
           /\ ToSet(SubSeq(s, n + 1, Len(s))) = {s[i] : i \in (n + 1)..Len(s)}
           /\ Unrepeated(s) => Unrepeated(SubSeq(s, n + 1, Len(s)))
<1>1. PICK x : x = SubSeq(s, n + 1, Len(s))
  OBVIOUS
<1>2. PICK m \in Nat : m = Len(s)
  OBVIOUS
<1>3. n \in Nat /\ n <= m
  BY <1>2
<1>4. x \in Seq(T) /\ Len(x) = m - n /\ \A i \in 1..(m - n) : x[i] = s[n + i]
  BY <1>1, <1>2, <1>3
<1>5. DOMAIN x = 1..(m - n)
  BY <1>3, <1>4
<1>6. \A i \in 1..(m - n) : n + i \in (n + 1)..m
  BY <1>3
<1>7. \A j \in (n + 1)..m : j - n \in 1..(m - n) /\ n + (j - n) = j
  BY <1>3
<1>8. ToSet(x) = {s[i] : i \in (n + 1)..m}
  <2>1. ToSet(x) = {x[i] : i \in 1..(m - n)}
    BY <1>5 DEF ToSet
  <2>2. \A i \in 1..(m - n) : x[i] \in {s[k] : k \in (n + 1)..m}
    BY <1>4, <1>6
  <2>3. \A j \in (n + 1)..m : x[j - n] = s[j]
    BY <1>4, <1>7
  <2>4. \A j \in (n + 1)..m : s[j] \in {x[i] : i \in 1..(m - n)}
    BY <1>7, <2>3
  <2> QED BY <2>1, <2>2, <2>4
<1>9. ASSUME Unrepeated(s) PROVE Unrepeated(x)
  <2> SUFFICES ASSUME NEW i \in 1..(m - n), NEW j \in 1..(m - n), x[i] = x[j] PROVE i = j
    BY <1>4 DEF Unrepeated
  <2>1. s[n + i] = s[n + j] /\ n + i \in 1..m /\ n + j \in 1..m
    BY <1>3, <1>4
  <2>2. n + i = n + j
    BY <1>2, <1>9, <2>1 DEF Unrepeated
  <2> QED BY <1>3, <2>2
<1> QED BY <1>1, <1>2, <1>4, <1>8, <1>9
LEMMA PartsAreAll ==
    ASSUME NEW T, NEW s \in Seq(T), NEW n \in 0..Len(s)
    PROVE  ToSet(s) = ToSet(SubSeq(s, 1, n)) \union ToSet(SubSeq(s, n + 1, Len(s)))
<1>1. PICK m \in Nat : m = Len(s)
  OBVIOUS
<1>2. ToSet(s) = {s[i] : i \in 1..m}
  BY <1>1 DEF ToSet
<1>3. 1..m = 1..n \union (n + 1)..m
  BY <1>1
<1>4. ToSet(SubSeq(s, 1, n)) = {s[i] : i \in 1..n} /\ ToSet(SubSeq(s, n + 1, Len(s))) = {s[i] : i \in (n + 1)..m}
  BY <1>1, FirstPart, LastPart
<1> QED BY <1>2, <1>3, <1>4
LEMMA PartsAreApart ==
    ASSUME NEW T, NEW s \in Seq(T), NEW n \in 0..Len(s), Unrepeated(s)
    PROVE  ToSet(SubSeq(s, 1, n)) \cap ToSet(SubSeq(s, n + 1, Len(s))) = {}
<1>1. PICK m \in Nat : m = Len(s)
  OBVIOUS
<1>2. ToSet(SubSeq(s, 1, n)) = {s[i] : i \in 1..n} /\ ToSet(SubSeq(s, n + 1, Len(s))) = {s[i] : i \in (n + 1)..m}
  BY <1>1, FirstPart, LastPart
<1>3. ASSUME NEW i \in 1..n, NEW j \in (n + 1)..m PROVE s[i] # s[j]
  <2>1. i \in 1..m /\ j \in 1..m /\ i # j
    BY <1>1
  <2> QED BY <1>1, <2>1 DEF Unrepeated
<1> QED BY <1>2, <1>3
(* A chunk of a rising sequence holds all of it up to its last entry.               *)
LEMMA ChunkIs ==
    ASSUME NEW s \in Seq(Nat), s # <<>>, Rising(s)
    PROVE  /\ Chunk(s) \in Seq(Nat) /\ Chunk(s) # <<>> /\ Rising(Chunk(s)) /\ ToSet(Chunk(s)) \subseteq ToSet(s)
           /\ \A n \in ToSet(s) : n <= Last(Chunk(s)) => n \in ToSet(Chunk(s))
<1>1. PICK m \in Nat : m = Len(s)
  OBVIOUS
<1>2. m # 0
  BY <1>1
<1>3. PICK n \in 1..m : n = IF m < BatchSize THEN m ELSE BatchSize
  BY <1>1, <1>2, EventsAssumption
<1>4. PICK x : x = SubSeq(s, 1, n)
  OBVIOUS
<1>5. Chunk(s) = x
  BY <1>1, <1>3, <1>4 DEF Chunk
<1>6. /\ x \in Seq(Nat) /\ Len(x) = n /\ ToSet(x) = {s[i] : i \in 1..n} /\ Rising(x)
      /\ \A i \in 1..n : x[i] = s[i]
  <2>1. n \in 0..Len(s)
    BY <1>1
  <2> QED BY <1>4, <2>1, FirstPart
<1>7. ToSet(s) = {s[i] : i \in 1..m} /\ \A i \in 1..m : s[i] \in Nat
  <2>1. DOMAIN s = 1..m /\ \A i \in 1..m : s[i] \in Nat
    BY <1>1
  <2> QED BY <2>1 DEF ToSet
<1>8. x # <<>> /\ Last(x) = s[n]
  BY <1>6 DEF Last
<1>9. ASSUME NEW i \in 1..m, s[i] <= s[n] PROVE s[i] \in ToSet(x)
  <2>1. CASE i \in 1..n
    BY <1>6, <2>1
  <2>2. CASE i \notin 1..n
    <3>1. n < i
      BY <2>2
    <3>2. s[n] < s[i]
      BY <1>1, <3>1 DEF Rising
    <3> QED BY <1>7, <1>9, <3>2
  <2> QED BY <2>1, <2>2
<1>10. ToSet(x) \subseteq ToSet(s)
  BY <1>6, <1>7
<1> QED BY <1>5, <1>6, <1>7, <1>8, <1>9, <1>10
(* The least of a rising sequence, and the rest.                                    *)
LEMMA HeadIsLeast ==
    ASSUME NEW s \in Seq(Nat), s # <<>>, Rising(s)
    PROVE  /\ Head(s) \in Nat /\ Head(s) \in ToSet(s) /\ Tail(s) \in Seq(Nat) /\ Rising(Tail(s))
           /\ ToSet(s) = {Head(s)} \union ToSet(Tail(s))
           /\ \A n \in ToSet(Tail(s)) : Head(s) < n
           /\ Tail(s) # <<>> => Last(Tail(s)) = Last(s)
<1>1. PICK m \in Nat : m = Len(s)
  OBVIOUS
<1>2. m # 0
  BY <1>1
<1>3. PICK x : x = Tail(s)
  OBVIOUS
<1>4. x \in Seq(Nat) /\ Len(x) = m - 1 /\ (\A i \in 1..(m - 1) : x[i] = s[i + 1]) /\ Head(s) = s[1] /\ 1 \in 1..m
  BY <1>1, <1>2, <1>3
<1>5. ToSet(s) = {s[i] : i \in 1..m} /\ \A i \in 1..m : s[i] \in Nat
  BY <1>1 DEF ToSet
<1>6. ToSet(x) = {x[i] : i \in 1..(m - 1)}
  <2>1. DOMAIN x = 1..(m - 1)
    BY <1>4
  <2> QED BY <2>1 DEF ToSet
<1>7. \A i \in 1..(m - 1) : i + 1 \in 1..m /\ 1 < i + 1
  BY <1>1
<1>8. \A j \in 1..m : j = 1 \/ (j - 1 \in 1..(m - 1) /\ (j - 1) + 1 = j)
  BY <1>1
<1>9. ToSet(s) = {Head(s)} \union ToSet(x)
  <2>1. \A i \in 1..(m - 1) : x[i] \in ToSet(s)
    BY <1>4, <1>5, <1>7
  <2>2. \A j \in 1..m : s[j] = s[1] \/ s[j] \in ToSet(x)
    <3> SUFFICES ASSUME NEW j \in 1..m, j # 1 PROVE s[j] \in ToSet(x)
      OBVIOUS
    <3>1. j - 1 \in 1..(m - 1) /\ (j - 1) + 1 = j
      BY <1>8
    <3>2. x[j - 1] = s[j]
      BY <1>4, <3>1
    <3> QED BY <1>6, <3>1, <3>2
  <2> QED BY <1>4, <1>5, <1>6, <2>1, <2>2
<1>10. \A i \in 1..(m - 1) : s[1] < x[i]
  BY <1>1, <1>4, <1>7 DEF Rising
<1>11. Rising(x)
  <2> SUFFICES ASSUME NEW i \in 1..(m - 1), NEW j \in 1..(m - 1), i < j PROVE x[i] < x[j]
    BY <1>4 DEF Rising
  <2>1. i + 1 \in 1..m /\ j + 1 \in 1..m /\ i + 1 < j + 1
    BY <1>7
  <2>2. s[i + 1] < s[j + 1]
    BY <1>1, <2>1 DEF Rising
  <2> QED BY <1>4, <2>2
<1>12. x # <<>> => Last(x) = Last(s)
  <2> SUFFICES ASSUME x # <<>> PROVE Last(x) = Last(s)
    OBVIOUS
  <2>1. m - 1 \in 1..(m - 1) /\ (m - 1) + 1 = m
    BY <1>1, <1>2, <1>4
  <2>2. x[m - 1] = s[m]
    BY <1>4, <2>1
  <2> QED BY <1>1, <1>4, <2>2 DEF Last
<1>13. Head(s) \in Nat /\ Head(s) \in ToSet(s)
  BY <1>4, <1>5
<1> QED BY <1>3, <1>4, <1>6, <1>9, <1>10, <1>11, <1>12, <1>13
LEMMA LastIsGreatest ==
    ASSUME NEW s \in Seq(Nat), s # <<>>, Rising(s)
    PROVE  Last(s) \in Nat /\ Last(s) \in ToSet(s) /\ \A n \in ToSet(s) : n <= Last(s)
<1>1. PICK m \in Nat : m = Len(s)
  OBVIOUS
<1>2. m # 0 /\ m \in 1..m
  BY <1>1
<1>3. ToSet(s) = {s[i] : i \in 1..m} /\ \A i \in 1..m : s[i] \in Nat
  BY <1>1 DEF ToSet
<1>4. \A i \in 1..m : i = m \/ s[i] < s[m]
  BY <1>1, <1>2 DEF Rising
<1> QED BY <1>1, <1>2, <1>3, <1>4 DEF Last
(* The reporter of a rank: what it holds, and what it remembers of what was emitted. *)
Events == [rank : Ranks, source : Nat, durable : BOOLEAN]
Batches == {b \in Seq(Events) : b # <<>> /\ Unrepeated(b)}
RankFields == {"emitted", "queue", "coalesced", "wal", "sending", "replay", "kept", "lost"}
HeldBy(me) == ToSet(me.queue) \union ToSet(me.sending) \union Contents(me.wal) \union me.lost
QueueSound(me) ==
    /\ me.emitted \in Seq(BOOLEAN)
    /\ me.queue \in Seq(Events) /\ Unrepeated(me.queue)
    /\ me.coalesced \subseteq Events /\ (me.coalesced = {} \/ \E e : me.coalesced = {e})
    /\ me.coalesced \cap ToSet(me.queue) = {}
    /\ \A e \in ToSet(me.queue) \union me.coalesced : e.source \in 1..Len(me.emitted)
LogSound(me) ==
    /\ me.sending = <<>> \/ me.sending \in Batches
    /\ me.wal \in Seq(Batches) /\ me.kept \in Seq(Batches)
    /\ me.replay \in 0..Len(me.wal) /\ (me.replay = 0 => me.kept = <<>>)
(* A row that was replayed has been taken, or is in flight, or is kept.             *)
Replayed(me, known) ==
    \A j \in 1..me.replay : IF j = me.replay /\ me.sending # <<>> THEN me.sending = me.wal[j]
                            ELSE ToSet(me.wal[j]) \subseteq known \union Contents(me.kept)
Recalled(r, me, known) ==
    \A n \in 1..Len(me.emitted) : me.emitted[n] => Event(r, n, TRUE) \in HeldBy(me) \union known
RankIs(r, me, known) ==
    /\ DOMAIN me = RankFields /\ QueueSound(me) /\ LogSound(me)
    /\ Replayed(me, known) /\ Recalled(r, me, known)

LEMMA ContentsAre ==
    ASSUME NEW w \in Seq(Batches)
    PROVE  /\ Contents(w) = UNION {ToSet(w[j]) : j \in 1..Len(w)}
           /\ \A b \in Batches : /\ Append(w, b) \in Seq(Batches)
                                 /\ Contents(Append(w, b)) = Contents(w) \union ToSet(b)
<1>1. ASSUME NEW x \in Seq(Batches) PROVE Contents(x) = UNION {ToSet(x[j]) : j \in 1..Len(x)}
  <2>1. ToSet(x) = {x[j] : j \in 1..Len(x)}
    BY DEF ToSet
  <2> QED BY <2>1 DEF Contents
<1>2. ASSUME NEW b \in Batches
      PROVE  Append(w, b) \in Seq(Batches) /\ Contents(Append(w, b)) = Contents(w) \union ToSet(b)
  <2>1. ToSet(Append(w, b)) = ToSet(w) \union {b} /\ Append(w, b) \in Seq(Batches)
    BY AppendedSet
  <2> QED BY <2>1 DEF Contents
<1> QED BY <1>1, <1>2
LEMMA RankKnowsMore ==
    ASSUME NEW r, NEW me, NEW known, NEW more, known \subseteq more, RankIs(r, me, known)
    PROVE  RankIs(r, me, more)
BY DEF RankIs, Replayed, Recalled
(* What is emitted goes to the queue, the log or beside them.                       *)
LEMMA EmittedIs ==
    ASSUME NEW r \in Ranks, NEW me, NEW known, RankIs(r, me, known), NEW durable \in BOOLEAN,
           NEW e, e = Event(r, Len(me.emitted) + 1, durable)
    PROVE  /\ e \in Events /\ e \notin ToSet(me.queue) /\ e \notin me.coalesced
           /\ e.source = Len(me.emitted) + 1 /\ Len(me.emitted) \in Nat
           /\ Append(me.emitted, durable) \in Seq(BOOLEAN) /\ Len(Append(me.emitted, durable)) = Len(me.emitted) + 1
           /\ \A k \in 1..Len(me.emitted) : Append(me.emitted, durable)[k] = me.emitted[k]
           /\ Append(me.emitted, durable)[Len(me.emitted) + 1] = durable
<1>1. PICK em : em = me.emitted
  OBVIOUS
<1>2. em \in Seq(BOOLEAN) /\ \A x \in ToSet(me.queue) \union me.coalesced : x.source \in 1..Len(em)
  BY <1>1 DEF RankIs, QueueSound
<1>3. PICK m \in Nat : m = Len(em)
  BY <1>2
<1>4. e = [rank |-> r, source |-> m + 1, durable |-> durable]
  BY <1>1, <1>3 DEF Event
<1>5. e \in Events /\ e.source = m + 1
  BY <1>4 DEF Events
<1>6. m + 1 \notin 1..m
  BY <1>3
<1>7. e \notin ToSet(me.queue) /\ e \notin me.coalesced
  BY <1>2, <1>3, <1>5, <1>6
<1>8. Append(em, durable) \in Seq(BOOLEAN) /\ Len(Append(em, durable)) = m + 1
      /\ (\A k \in 1..m : Append(em, durable)[k] = em[k]) /\ Append(em, durable)[m + 1] = durable
  BY <1>2, <1>3
<1> QED BY <1>1, <1>3, <1>5, <1>7, <1>8
\* What became of the rank, when it is sound.
RankGrew(r, me, durable, e, new, known) ==
    /\ durable \in BOOLEAN
    /\ e = Event(r, Len(me.emitted) + 1, durable)
    /\ DOMAIN new = RankFields
    /\ new.emitted = Append(me.emitted, durable)
    /\ LogSound(new)
    /\ Replayed(new, known)
    /\ new.sending = me.sending
    /\ new.lost = me.lost
    /\ new.queue \in Seq(Events)
    /\ Unrepeated(new.queue)
    /\ new.coalesced \subseteq Events
    /\ (new.coalesced = {} \/ \E x : new.coalesced = {x})
    /\ new.coalesced \cap ToSet(new.queue) = {}
    /\ ToSet(new.queue) \union new.coalesced \subseteq ToSet(me.queue) \union me.coalesced \union {e}
    /\ ToSet(me.queue) \subseteq ToSet(new.queue)
    /\ Contents(me.wal) \subseteq Contents(new.wal)
    /\ (durable => e \in ToSet(new.queue) \union Contents(new.wal))
LEMMA RankEmits ==
    ASSUME NEW r \in Ranks, NEW me, NEW known, RankIs(r, me, known), NEW durable, NEW e, NEW new,
           RankGrew(r, me, durable, e, new, known)
    PROVE  RankIs(r, new, known)
<1>0. /\ durable \in BOOLEAN /\ e = Event(r, Len(me.emitted) + 1, durable) /\ DOMAIN new = RankFields
      /\ new.emitted = Append(me.emitted, durable) /\ LogSound(new) /\ Replayed(new, known)
      /\ new.sending = me.sending /\ new.lost = me.lost
      /\ new.queue \in Seq(Events) /\ Unrepeated(new.queue) /\ new.coalesced \subseteq Events
      /\ (new.coalesced = {} \/ \E x : new.coalesced = {x}) /\ new.coalesced \cap ToSet(new.queue) = {}
      /\ ToSet(new.queue) \union new.coalesced \subseteq ToSet(me.queue) \union me.coalesced \union {e}
      /\ ToSet(me.queue) \subseteq ToSet(new.queue) /\ Contents(me.wal) \subseteq Contents(new.wal)
      /\ (durable => e \in ToSet(new.queue) \union Contents(new.wal))
  BY Zenon DEF RankGrew
<1> USE <1>0
<1>1. PICK m \in Nat : m = Len(me.emitted)
  BY EmittedIs
<1>2. /\ e.source = m + 1 /\ new.emitted \in Seq(BOOLEAN) /\ Len(new.emitted) = m + 1
      /\ \A k \in 1..m : new.emitted[k] = me.emitted[k]
      /\ new.emitted[m + 1] = durable
  BY <1>1, EmittedIs
<1>3. \A x \in ToSet(me.queue) \union me.coalesced : x.source \in 1..m
  BY <1>1 DEF RankIs, QueueSound
<1>4. 1..m \subseteq 1..(m + 1) /\ m + 1 \in 1..(m + 1)
  BY <1>1
<1>5. \A x \in ToSet(new.queue) \union new.coalesced : x.source \in 1..(m + 1)
  BY <1>2, <1>3, <1>4
<1>6. QueueSound(new)
  BY <1>2, <1>5 DEF QueueSound
<1>7. HeldBy(me) \subseteq HeldBy(new)
  BY DEF HeldBy
<1>8. ASSUME NEW n \in 1..(m + 1), new.emitted[n] PROVE Event(r, n, TRUE) \in HeldBy(new) \union known
  <2>1. CASE n \in 1..m
    <3>1. me.emitted[n]
      BY <1>2, <1>8, <2>1
    <3>2. Event(r, n, TRUE) \in HeldBy(me) \union known
      BY <1>1, <2>1, <3>1 DEF RankIs, Recalled
    <3> QED BY <1>7, <3>2
  <2>2. CASE n = m + 1
    <3>1. durable
      BY <1>2, <1>8, <2>2
    <3>2. Event(r, n, TRUE) = e
      BY <1>1, <2>2, <3>1 DEF Event
    <3>3. e \in HeldBy(new)
      BY <3>1 DEF HeldBy
    <3> QED BY <3>2, <3>3
  <2>3. n \in 1..m \/ n = m + 1
    BY <1>1
  <2> QED BY <2>1, <2>2, <2>3
<1>9. Recalled(r, new, known)
  BY <1>2, <1>8 DEF Recalled
<1> QED BY <1>6, <1>9 DEF RankIs
(* Batches leave the queue or the log, and are taken or written down.               *)
LEMMA CoalescedInOrder ==
    ASSUME NEW S, S \subseteq Events, S = {} \/ \E e : S = {e}
    PROVE  SetToSeq(S) \in Seq(Events) /\ ToSet(SetToSeq(S)) = S /\ Unrepeated(SetToSeq(S))
<1>1. CASE S = {}
  <2>1. Cardinality(S) = 0
    BY <1>1, FS_EmptySet
  <2>2. PICK x : x = SetToSeq(S)
    OBVIOUS
  <2>3. x = CHOOSE f \in [1..0 -> S] : IsInjective(f)
    BY <2>1, <2>2 DEF SetToSeq
  <2>4. PICK g : g = <<>>
    OBVIOUS
  <2>5. g \in [1..0 -> S] /\ IsInjective(g)
    BY <2>4 DEF IsInjective
  <2>6. x \in [1..0 -> S]
    BY <2>3, <2>5
  <2>7. x = <<>>
    BY <2>6
  <2>8. <<>> \in Seq(Events) /\ ToSet(<<>>) = {} /\ Unrepeated(<<>>)
    BY DEF ToSet, Unrepeated
  <2> QED BY <1>1, <2>2, <2>7, <2>8
<1>2. ASSUME NEW e, S = {e} PROVE SetToSeq(S) \in Seq(Events) /\ ToSet(SetToSeq(S)) = S /\ Unrepeated(SetToSeq(S))
  <2>1. Cardinality(S) = 1
    BY <1>2, FS_Singleton
  <2>2. PICK x : x = SetToSeq(S)
    OBVIOUS
  <2>3. x = CHOOSE f \in [1..1 -> S] : IsInjective(f)
    BY <2>1, <2>2 DEF SetToSeq
  <2>4. PICK g : g = [i \in 1..1 |-> e]
    OBVIOUS
  <2>5. g \in [1..1 -> S] /\ IsInjective(g)
    BY <1>2, <2>4 DEF IsInjective
  <2>6. x \in [1..1 -> S]
    BY <2>3, <2>5
  <2>7. x = <<e>>
    BY <1>2, <2>6
  <2>8. e \in Events
    BY <1>2
  <2> QED BY <1>2, <2>2, <2>7, <2>8, OneIsAll
<1> QED BY <1>1, <1>2
LEMMA BatchLeaves ==
    ASSUME NEW r \in Ranks, RankIs(r, reporter[r], ToSet(ingress)),
           reporter[r].queue # <<>> \/ reporter[r].coalesced # {}
    PROVE  /\ NextBatch(r).batch \in Batches /\ NextBatch(r).queue \in Seq(Events) /\ Unrepeated(NextBatch(r).queue)
           /\ NextBatch(r).coalesced \subseteq reporter[r].coalesced
           /\ NextBatch(r).coalesced = {} \/ NextBatch(r).coalesced = reporter[r].coalesced
           /\ ToSet(NextBatch(r).queue) \subseteq ToSet(reporter[r].queue)
           /\ ToSet(reporter[r].queue) \subseteq ToSet(NextBatch(r).batch) \union ToSet(NextBatch(r).queue)
<1>1. PICK me : me = reporter[r]
  OBVIOUS
<1>2. QueueSound(me)
  BY <1>1 DEF RankIs
<1>3. PICK m \in Nat : m = Len(me.queue)
  BY <1>2 DEF QueueSound
<1>4. PICK n \in 0..m : n = IF m < BatchSize THEN m ELSE BatchSize
  BY <1>3, EventsAssumption
<1>5. PICK rest : rest = IF n < BatchSize THEN SetToSeq(me.coalesced) ELSE <<>>
  OBVIOUS
<1>6. PICK first, last : first = SubSeq(me.queue, 1, n) /\ last = SubSeq(me.queue, n + 1, m)
  OBVIOUS
<1>7. PICK left : left = IF n < BatchSize THEN {} ELSE me.coalesced
  OBVIOUS
<1>8. NextBatch(r) = [batch |-> first \o rest, queue |-> last, coalesced |-> left]
  BY <1>1, <1>3, <1>4, <1>5, <1>6, <1>7 DEF NextBatch
<1>9. rest \in Seq(Events) /\ ToSet(rest) \subseteq me.coalesced /\ Unrepeated(rest) /\ (n < BatchSize => ToSet(rest) = me.coalesced)
  <2>1. SetToSeq(me.coalesced) \in Seq(Events) /\ ToSet(SetToSeq(me.coalesced)) = me.coalesced /\ Unrepeated(SetToSeq(me.coalesced))
    BY <1>2, CoalescedInOrder DEF QueueSound
  <2>2. <<>> \in Seq(Events) /\ ToSet(<<>>) = {} /\ Unrepeated(<<>>)
    BY DEF ToSet, Unrepeated
  <2> QED BY <1>5, <2>1, <2>2
<1>10. first \in Seq(Events) /\ last \in Seq(Events) /\ Unrepeated(first) /\ Unrepeated(last) /\ Len(first) = n
  BY <1>2, <1>3, <1>6, FirstPart, LastPart DEF QueueSound
<1>11. ToSet(me.queue) = ToSet(first) \union ToSet(last)
  BY <1>2, <1>3, <1>6, PartsAreAll DEF QueueSound
<1>12. ToSet(first) \cap ToSet(rest) = {}
  BY <1>2, <1>9, <1>11 DEF QueueSound
<1>13. Unrepeated(first \o rest) /\ first \o rest \in Seq(Events) /\ ToSet(first \o rest) = ToSet(first) \union ToSet(rest)
  <2>1. Unrepeated(first \o rest)
    BY <1>9, <1>10, <1>12, UnrepeatedJoined
  <2>2. first \o rest \in Seq(Events) /\ ToSet(first \o rest) = ToSet(first) \union ToSet(rest)
    BY <1>9, <1>10, JoinedSet
  <2> QED BY <2>1, <2>2
<1>14. first \o rest # <<>>
  <2>1. CASE n = 0
    <3>1. m = 0 /\ n < BatchSize
      BY <1>4, <2>1, EventsAssumption
    <3>2. me.queue = <<>>
      <4>1. me.queue \in Seq(Events)
        BY <1>2 DEF QueueSound
      <4>2. Len(me.queue) = 0
        BY <1>3, <3>1
      <4> QED BY <4>1, <4>2, EmptyIsNone
    <3>3. ToSet(rest) # {}
      BY <1>1, <1>9, <3>1, <3>2
    <3>4. ToSet(first \o rest) # {}
      BY <1>13, <3>3
    <3> QED BY <3>4 DEF ToSet
  <2>2. CASE n # 0
    <3>1. Len(first \o rest) = n + Len(rest) /\ Len(rest) \in Nat
      BY <1>9, <1>10
    <3> QED BY <1>4, <2>2, <3>1
  <2> QED BY <2>1, <2>2
<1>15. first \o rest \in Batches
  BY <1>13, <1>14 DEF Batches
<1>16. left \subseteq me.coalesced /\ (left = {} \/ left = me.coalesced)
  BY <1>7
<1> QED BY <1>1, <1>8, <1>10, <1>11, <1>13, <1>15, <1>16
LEMMA RankFlushes ==
    ASSUME NEW r \in Ranks, NEW known, NEW me, RankIs(r, me, known), me.sending = <<>>, me.replay = 0,
           NEW b \in Batches, NEW q \in Seq(Events), Unrepeated(q), NEW left, left = {} \/ left = me.coalesced,
           ToSet(q) \subseteq ToSet(me.queue), ToSet(me.queue) \subseteq ToSet(b) \union ToSet(q),
           NEW new, new = [me EXCEPT !.queue = q, !.coalesced = left, !.sending = b]
    PROVE  RankIs(r, new, known)
<1>1. /\ DOMAIN new = RankFields /\ new.emitted = me.emitted /\ new.queue = q /\ new.coalesced = left /\ new.sending = b
      /\ new.wal = me.wal /\ new.kept = me.kept /\ new.replay = 0 /\ new.lost = me.lost
  BY DEF RankIs, RankFields
<1>2. QueueSound(new)
  BY <1>1 DEF RankIs, QueueSound
<1>3. LogSound(new)
  BY <1>1 DEF RankIs, LogSound
<1>4. Replayed(new, known)
  BY <1>1 DEF Replayed
<1>5. HeldBy(me) \subseteq HeldBy(new)
  <2>1. ToSet(me.sending) = {}
    BY DEF ToSet
  <2> QED BY <1>1, <2>1 DEF HeldBy
<1>6. Recalled(r, new, known)
  BY <1>1, <1>5 DEF RankIs, Recalled
<1> QED BY <1>1, <1>2, <1>3, <1>4, <1>6 DEF RankIs
LEMMA RankReplays ==
    ASSUME NEW r \in Ranks, NEW known, NEW me, RankIs(r, me, known), me.sending = <<>>, me.replay < Len(me.wal),
           NEW b, b = me.wal[me.replay + 1], NEW new, new = [me EXCEPT !.replay = @ + 1, !.sending = b]
    PROVE  b \in Batches /\ RankIs(r, new, known)
<1>1. PICK w \in Seq(Batches) : w = me.wal
  BY DEF RankIs, LogSound
<1>2. PICK m \in Nat : m = Len(w)
  OBVIOUS
<1>3. PICK k \in Nat : k = me.replay /\ k < m
  BY <1>1, <1>2 DEF RankIs, LogSound
<1>4. k + 1 \in 1..m
  BY <1>3
<1>5. b \in Batches /\ b = w[k + 1]
  BY <1>1, <1>2, <1>3, <1>4
<1>6. /\ DOMAIN new = RankFields /\ new.emitted = me.emitted /\ new.queue = me.queue /\ new.coalesced = me.coalesced
      /\ new.sending = b /\ new.wal = w /\ new.kept = me.kept /\ new.replay = k + 1 /\ new.lost = me.lost
  BY <1>1, <1>3 DEF RankIs, RankFields
<1>7. QueueSound(new)
  BY <1>6 DEF RankIs, QueueSound
<1>8. LogSound(new)
  <2>1. new.replay \in 0..Len(new.wal) /\ new.replay # 0
    BY <1>2, <1>3, <1>6
  <2> QED BY <1>5, <1>6, <2>1 DEF RankIs, LogSound
<1>9. Replayed(new, known)
  <2> SUFFICES ASSUME NEW j \in 1..(k + 1)
               PROVE  IF j = k + 1 /\ b # <<>> THEN b = w[j] ELSE ToSet(w[j]) \subseteq known \union Contents(me.kept)
    BY <1>6 DEF Replayed
  <2>1. CASE j = k + 1
    BY <1>5, <2>1 DEF Batches
  <2>2. CASE j # k + 1
    <3>1. j \in 1..k
      BY <1>3, <2>2
    <3>2. ToSet(w[j]) \subseteq known \union Contents(me.kept)
      BY <1>1, <1>3, <3>1 DEF RankIs, Replayed
    <3> QED BY <2>2, <3>2
  <2> QED BY <2>1, <2>2
<1>10. HeldBy(me) \subseteq HeldBy(new)
  <2>1. ToSet(me.sending) = {}
    BY DEF ToSet
  <2> QED BY <1>1, <1>6, <2>1 DEF HeldBy
<1>11. Recalled(r, new, known)
  BY <1>6, <1>10 DEF RankIs, Recalled
<1> QED BY <1>5, <1>6, <1>7, <1>8, <1>9, <1>11 DEF RankIs
(* When all rows have been replayed, what is not kept has been taken.                *)
LEMMA RankTrims ==
    ASSUME NEW r \in Ranks, NEW known, NEW me, RankIs(r, me, known), me.sending = <<>>, me.replay = Len(me.wal),
           NEW new, new = Trims(me)
    PROVE  RankIs(r, new, known)
<1>1. /\ DOMAIN new = RankFields /\ new.emitted = me.emitted /\ new.queue = me.queue /\ new.coalesced = me.coalesced
      /\ new.sending = me.sending /\ new.wal = me.kept /\ new.kept = <<>> /\ new.replay = 0 /\ new.lost = me.lost
  BY DEF RankIs, RankFields, Trims
<1>2. QueueSound(new)
  BY <1>1 DEF RankIs, QueueSound
<1>3. me.wal \in Seq(Batches) /\ me.kept \in Seq(Batches)
  BY DEF RankIs, LogSound
<1>4. LogSound(new)
  <2>1. 0 \in 0..Len(me.kept) /\ <<>> \in Seq(Batches)
    BY <1>3
  <2> QED BY <1>1, <1>3, <2>1 DEF LogSound
<1>5. Replayed(new, known)
  BY <1>1 DEF Replayed
<1>6. Contents(me.wal) \subseteq known \union Contents(me.kept)
  <2>1. \A j \in 1..Len(me.wal) : ToSet(me.wal[j]) \subseteq known \union Contents(me.kept)
    BY DEF RankIs, Replayed
  <2>2. Contents(me.wal) = UNION {ToSet(me.wal[j]) : j \in 1..Len(me.wal)}
    BY <1>3, ContentsAre
  <2> QED BY <2>1, <2>2
<1>7. HeldBy(me) \subseteq HeldBy(new) \union known
  BY <1>1, <1>6 DEF HeldBy
<1>8. Recalled(r, new, known)
  BY <1>1, <1>7 DEF RankIs, Recalled
<1> QED BY <1>1, <1>2, <1>4, <1>5, <1>8 DEF RankIs
(* What becomes of the batch in flight.                                             *)
LEMMA RankIsDone ==
    ASSUME NEW r \in Ranks, NEW known, NEW me, RankIs(r, me, known), ToSet(me.sending) \subseteq known,
           NEW new, new = Taken(me)
    PROVE  RankIs(r, new, known) /\ new.sending = <<>>
<1>1. /\ DOMAIN new = RankFields /\ new.emitted = me.emitted /\ new.queue = me.queue /\ new.coalesced = me.coalesced
      /\ new.sending = <<>> /\ new.wal = me.wal /\ new.kept = me.kept /\ new.replay = me.replay /\ new.lost = me.lost
  BY DEF RankIs, RankFields, Taken
<1>2. QueueSound(new)
  BY <1>1 DEF RankIs, QueueSound
<1>3. LogSound(new)
  BY <1>1 DEF RankIs, LogSound
<1>4. Replayed(new, known)
  <2> SUFFICES ASSUME NEW j \in 1..me.replay PROVE ToSet(me.wal[j]) \subseteq known \union Contents(me.kept)
    BY <1>1 DEF Replayed
  <2>1. CASE j = me.replay /\ me.sending # <<>>
    <3>1. me.sending = me.wal[j]
      BY <2>1 DEF RankIs, Replayed
    <3> QED BY <3>1
  <2>2. CASE ~(j = me.replay /\ me.sending # <<>>)
    BY <2>2 DEF RankIs, Replayed
  <2> QED BY <2>1, <2>2
<1>5. HeldBy(me) \subseteq HeldBy(new) \union known
  BY <1>1 DEF HeldBy
<1>6. Recalled(r, new, known)
  BY <1>1, <1>5 DEF RankIs, Recalled
<1> QED BY <1>1, <1>2, <1>3, <1>4, <1>6 DEF RankIs
LEMMA RankLogs ==
    ASSUME NEW r \in Ranks, NEW known, NEW me, RankIs(r, me, known), me.sending \in Batches, NEW new, new = Logged(me)
    PROVE  RankIs(r, new, known) /\ new.sending = <<>>
<1>1. PICK b \in Batches : b = me.sending
  OBVIOUS
<1>2. PICK w \in Seq(Batches) : w = me.wal
  BY DEF RankIs, LogSound
<1>3. PICK kept \in Seq(Batches) : kept = me.kept
  BY DEF RankIs, LogSound
<1>4. PICK k \in Nat : k = me.replay /\ k \in 0..Len(w)
  BY <1>2 DEF RankIs, LogSound
<1>5. b # <<>> /\ Len(w) \in Nat
  BY DEF Batches
<1>6. CASE k = 0
  <2>1. PICK more : more = Append(w, b)
    OBVIOUS
  <2>2. more \in Seq(Batches) /\ Contents(more) = Contents(w) \union ToSet(b) /\ Len(more) = Len(w) + 1
    BY <2>1, ContentsAre
  <2>3. new = [me EXCEPT !.sending = <<>>, !.wal = more]
    BY <1>1, <1>2, <1>4, <1>6, <2>1 DEF Logged, Taken, RankIs, RankFields
  <2>4. /\ DOMAIN new = RankFields /\ new.emitted = me.emitted /\ new.queue = me.queue /\ new.coalesced = me.coalesced
        /\ new.sending = <<>> /\ new.wal = more /\ new.kept = kept /\ new.replay = 0 /\ new.lost = me.lost
    BY <1>3, <1>4, <1>6, <2>3 DEF RankIs, RankFields
  <2>5. QueueSound(new)
    BY <2>4 DEF RankIs, QueueSound
  <2>6. LogSound(new)
    <3>1. kept = <<>>
      BY <1>3, <1>4, <1>6 DEF RankIs, LogSound
    <3>2. 0 \in 0..Len(more)
      BY <1>5, <2>2
    <3> QED BY <2>2, <2>4, <3>1, <3>2 DEF LogSound
  <2>7. Replayed(new, known)
    BY <2>4 DEF Replayed
  <2>8. HeldBy(me) \subseteq HeldBy(new)
    BY <1>1, <1>2, <2>2, <2>4 DEF HeldBy
  <2>9. Recalled(r, new, known)
    BY <2>4, <2>8 DEF RankIs, Recalled
  <2> QED BY <2>4, <2>5, <2>6, <2>7, <2>9 DEF RankIs
<1>7. CASE k # 0
  <2>1. PICK more : more = Append(kept, b)
    OBVIOUS
  <2>2. more \in Seq(Batches) /\ Contents(more) = Contents(kept) \union ToSet(b)
    BY <2>1, ContentsAre
  <2>3. new = [me EXCEPT !.sending = <<>>, !.kept = more]
    BY <1>1, <1>3, <1>4, <1>7, <2>1 DEF Logged, Taken, RankIs, RankFields
  <2>4. /\ DOMAIN new = RankFields /\ new.emitted = me.emitted /\ new.queue = me.queue /\ new.coalesced = me.coalesced
        /\ new.sending = <<>> /\ new.wal = w /\ new.kept = more /\ new.replay = k /\ new.lost = me.lost
    BY <1>2, <1>4, <2>3 DEF RankIs, RankFields
  <2>5. QueueSound(new)
    BY <2>4 DEF RankIs, QueueSound
  <2>6. LogSound(new)
    BY <1>4, <1>7, <2>2, <2>4 DEF LogSound
  <2>7. \A j \in 1..k : IF j = k THEN b = w[j] ELSE ToSet(w[j]) \subseteq known \union Contents(kept)
    BY <1>1, <1>2, <1>3, <1>4, <1>5 DEF RankIs, Replayed
  <2>8. Replayed(new, known)
    <3> SUFFICES ASSUME NEW j \in 1..k PROVE ToSet(w[j]) \subseteq known \union Contents(more)
      BY <2>4 DEF Replayed
    <3> QED BY <2>2, <2>7
  <2>9. HeldBy(me) \subseteq HeldBy(new)
    <3>1. k \in 1..k /\ k \in 1..Len(w)
      BY <1>4, <1>5, <1>7
    <3>2. b = w[k]
      BY <2>7, <3>1
    <3>3. Contents(w) = UNION {ToSet(w[j]) : j \in 1..Len(w)}
      BY ContentsAre
    <3>4. ToSet(b) \subseteq Contents(w)
      BY <3>1, <3>2, <3>3
    <3> QED BY <1>1, <1>2, <2>4, <3>4 DEF HeldBy
  <2>10. Recalled(r, new, known)
    BY <2>4, <2>9 DEF RankIs, Recalled
  <2> QED BY <2>4, <2>5, <2>6, <2>8, <2>10 DEF RankIs
<1> QED BY <1>6, <1>7
LEMMA RankDies ==
    ASSUME NEW r \in Ranks, NEW known, NEW me, RankIs(r, me, known),
           NEW new, new = [Quiet EXCEPT !.emitted = me.emitted, !.wal = me.wal,
                                        !.lost = me.lost \union ToSet(me.queue)
                                                     \union (IF me.replay = 0 THEN ToSet(me.sending) ELSE {})]
    PROVE  RankIs(r, new, known)
<1>1. PICK lost : lost = me.lost \union ToSet(me.queue) \union (IF me.replay = 0 THEN ToSet(me.sending) ELSE {})
  OBVIOUS
<1>2. /\ DOMAIN new = RankFields /\ new.emitted = me.emitted /\ new.queue = <<>> /\ new.coalesced = {}
      /\ new.sending = <<>> /\ new.wal = me.wal /\ new.kept = <<>> /\ new.replay = 0 /\ new.lost = lost
  BY <1>1 DEF Quiet, RankFields
<1>3. QueueSound(new)
  <2>1. <<>> \in Seq(Events) /\ ToSet(<<>>) = {} /\ Unrepeated(<<>>)
    BY DEF ToSet, Unrepeated
  <2>2. me.emitted \in Seq(BOOLEAN)
    BY DEF RankIs, QueueSound
  <2> QED BY <1>2, <2>1, <2>2 DEF QueueSound
<1>4. PICK w \in Seq(Batches) : w = me.wal
  BY DEF RankIs, LogSound
<1>5. LogSound(new)
  <2>1. 0 \in 0..Len(w) /\ <<>> \in Seq(Batches)
    OBVIOUS
  <2> QED BY <1>2, <1>4, <2>1 DEF LogSound
<1>6. Replayed(new, known)
  BY <1>2 DEF Replayed
<1>7. me.replay = 0 \/ ToSet(me.sending) \subseteq Contents(me.wal)
  <2> SUFFICES ASSUME me.replay # 0, me.sending # <<>> PROVE ToSet(me.sending) \subseteq Contents(me.wal)
    BY DEF ToSet
  <2>1. PICK k \in Nat : k = me.replay /\ k \in 0..Len(w)
    BY <1>4 DEF RankIs, LogSound
  <2>2. k \in 1..k /\ k \in 1..Len(w)
    BY <2>1
  <2>3. me.sending = w[k]
    BY <1>4, <2>1, <2>2 DEF RankIs, Replayed
  <2>4. Contents(w) = UNION {ToSet(w[j]) : j \in 1..Len(w)}
    BY ContentsAre
  <2> QED BY <1>4, <2>2, <2>3, <2>4
<1>8. HeldBy(me) \subseteq HeldBy(new)
  <2>1. CASE me.replay = 0
    BY <1>1, <1>2, <2>1 DEF HeldBy
  <2>2. CASE ToSet(me.sending) \subseteq Contents(me.wal)
    BY <1>1, <1>2, <2>2 DEF HeldBy
  <2> QED BY <1>7, <2>1, <2>2
<1>9. Recalled(r, new, known)
  BY <1>2, <1>8 DEF RankIs, Recalled
<1> QED BY <1>2, <1>3, <1>5, <1>6, <1>9 DEF RankIs
EmitsAs(r, me, durable, e, grown, new) ==
    /\ durable \in BOOLEAN /\ e = Event(r, Len(me.emitted) + 1, durable)
    /\ grown = [me EXCEPT !.emitted = Append(@, durable)]
    /\ \/ (durable => me.replay = 0) /\ new = Overflow(grown, e)
       \/ new = [grown EXCEPT !.queue = Append(@, e)]
LEMMA RankEmitsSomewhere ==
    ASSUME NEW r \in Ranks, NEW me, NEW known, RankIs(r, me, known), NEW durable, NEW e, NEW grown, NEW new,
           EmitsAs(r, me, durable, e, grown, new)
    PROVE  RankIs(r, new, known) /\ new.sending = me.sending
<1>0. /\ durable \in BOOLEAN /\ e = Event(r, Len(me.emitted) + 1, durable)
      /\ grown = [me EXCEPT !.emitted = Append(@, durable)]
      /\ \/ (durable => me.replay = 0) /\ new = Overflow(grown, e)
         \/ new = [grown EXCEPT !.queue = Append(@, e)]
  BY Zenon DEF EmitsAs
<1>1. PICK em : em = Append(me.emitted, durable)
  OBVIOUS
<1>2. e \in Events /\ e \notin ToSet(me.queue) /\ e \notin me.coalesced
  BY <1>0, EmittedIs
<1>3. /\ me.queue \in Seq(Events) /\ Unrepeated(me.queue) /\ me.coalesced \subseteq Events
      /\ (me.coalesced = {} \/ \E x : me.coalesced = {x}) /\ me.coalesced \cap ToSet(me.queue) = {}
  BY DEF RankIs, QueueSound
<1>4. CASE durable /\ me.replay = 0 /\ new = Overflow(grown, e)
  <2>1. PICK b : b = <<e>>
    OBVIOUS
  <2>2. b \in Batches /\ ToSet(b) = {e}
    BY <1>2, <2>1, OneIsAll DEF Batches
  <2>3. PICK w \in Seq(Batches) : w = me.wal
    BY DEF RankIs, LogSound
  <2>4. PICK more : more = Append(w, b)
    OBVIOUS
  <2>5. more \in Seq(Batches) /\ Contents(more) = Contents(w) \union {e} /\ Len(more) \in Nat
    BY <2>2, <2>4, ContentsAre
  <2>6. new = [me EXCEPT !.emitted = em, !.wal = more]
    BY <1>0, <1>1, <1>2, <1>4, <2>1, <2>3, <2>4 DEF Overflow, Event, RankIs, RankFields
  <2>7. /\ DOMAIN new = RankFields /\ new.emitted = em /\ new.queue = me.queue /\ new.coalesced = me.coalesced
        /\ new.sending = me.sending /\ new.wal = more /\ new.kept = me.kept /\ new.replay = 0 /\ new.lost = me.lost
    BY <1>4, <2>6 DEF RankIs, RankFields
  <2>8. LogSound(new)
    <3>1. 0 \in 0..Len(more)
      BY <2>5
    <3> QED BY <1>4, <2>5, <2>7, <3>1 DEF RankIs, LogSound
  <2>9. Replayed(new, known)
    BY <2>7 DEF Replayed
  <2>10. Contents(me.wal) \subseteq Contents(new.wal) /\ e \in Contents(new.wal)
    BY <2>3, <2>5, <2>7
  <2>11. /\ new.emitted = Append(me.emitted, durable) /\ new.sending = me.sending /\ new.lost = me.lost
         /\ DOMAIN new = RankFields
    BY <1>1, <2>7
  <2>12. /\ new.queue \in Seq(Events) /\ Unrepeated(new.queue) /\ new.coalesced \subseteq Events
         /\ (new.coalesced = {} \/ \E x : new.coalesced = {x}) /\ new.coalesced \cap ToSet(new.queue) = {}
         /\ ToSet(me.queue) \subseteq ToSet(new.queue)
    BY <1>3, <2>7
  <2>13. ToSet(new.queue) \union new.coalesced \subseteq ToSet(me.queue) \union me.coalesced \union {e}
    BY <2>7
  <2>14. RankGrew(r, me, durable, e, new, known)
    BY <1>0, <2>8, <2>9, <2>10, <2>11, <2>12, <2>13 DEF RankGrew
  <2> QED BY <2>11, <2>14, RankEmits
<1>5. CASE ~durable /\ new = Overflow(grown, e)
  <2>1. new = [me EXCEPT !.emitted = em, !.coalesced = {e}]
    <3>1. ~e.durable
      BY <1>0, <1>5 DEF Event
    <3> QED BY <1>0, <1>1, <1>5, <3>1 DEF Overflow, RankIs, RankFields
  <2>2. /\ DOMAIN new = RankFields /\ new.emitted = em /\ new.queue = me.queue /\ new.coalesced = {e}
        /\ new.sending = me.sending /\ new.wal = me.wal /\ new.kept = me.kept /\ new.replay = me.replay /\ new.lost = me.lost
    BY <2>1 DEF RankIs, RankFields
  <2>3. LogSound(new)
    BY <2>2 DEF RankIs, LogSound
  <2>4. Replayed(new, known)
    BY <2>2 DEF RankIs, Replayed
  <2>5. ToSet(new.queue) \union new.coalesced \subseteq ToSet(me.queue) \union me.coalesced \union {e}
    BY <2>2
  <2>6. new.coalesced \subseteq Events /\ new.coalesced \cap ToSet(new.queue) = {}
    BY <1>2, <2>2
  <2>7. new.coalesced = {} \/ \E x : new.coalesced = {x}
    BY <2>2
  <2>8. /\ new.queue \in Seq(Events) /\ Unrepeated(new.queue) /\ ToSet(me.queue) \subseteq ToSet(new.queue)
        /\ Contents(me.wal) \subseteq Contents(new.wal) /\ new.emitted = Append(me.emitted, durable)
        /\ (durable => e \in ToSet(new.queue) \union Contents(new.wal))
    BY <1>1, <1>3, <1>5, <2>2
  <2>9. DOMAIN new = RankFields /\ new.sending = me.sending /\ new.lost = me.lost
    BY <2>2
  <2>10. RankGrew(r, me, durable, e, new, known)
    BY <1>0, <2>3, <2>4, <2>5, <2>6, <2>7, <2>8, <2>9 DEF RankGrew
  <2> QED BY <2>9, <2>10, RankEmits
<1>6. CASE new = [grown EXCEPT !.queue = Append(@, e)]
  <2>1. PICK more : more = Append(me.queue, e)
    OBVIOUS
  <2>2. more \in Seq(Events) /\ ToSet(more) = ToSet(me.queue) \union {e} /\ Unrepeated(more)
    <3>1. Append(me.queue, e) \in Seq(Events) /\ ToSet(Append(me.queue, e)) = ToSet(me.queue) \union {e}
      BY <1>2, <1>3, AppendedSet
    <3>2. Unrepeated(Append(me.queue, e))
      BY <1>2, <1>3, AppendedUnrepeated
    <3> QED BY <2>1, <3>1, <3>2
  <2>3. new = [me EXCEPT !.emitted = em, !.queue = more]
    BY <1>0, <1>1, <1>6, <2>1 DEF RankIs, RankFields
  <2>4. /\ DOMAIN new = RankFields /\ new.emitted = em /\ new.queue = more /\ new.coalesced = me.coalesced
        /\ new.sending = me.sending /\ new.wal = me.wal /\ new.kept = me.kept /\ new.replay = me.replay /\ new.lost = me.lost
    BY <2>3 DEF RankIs, RankFields
  <2>5. LogSound(new)
    BY <2>4 DEF RankIs, LogSound
  <2>6. Replayed(new, known)
    BY <2>4 DEF RankIs, Replayed
  <2>7. new.coalesced \cap ToSet(new.queue) = {}
    BY <1>2, <1>3, <2>2, <2>4
  <2>8. ToSet(new.queue) \union new.coalesced \subseteq ToSet(me.queue) \union me.coalesced \union {e}
    BY <2>2, <2>4
  <2>9. /\ new.queue \in Seq(Events) /\ Unrepeated(new.queue) /\ ToSet(me.queue) \subseteq ToSet(new.queue)
        /\ Contents(me.wal) \subseteq Contents(new.wal) /\ new.emitted = Append(me.emitted, durable)
        /\ (durable => e \in ToSet(new.queue) \union Contents(new.wal))
    BY <1>1, <2>2, <2>4
  <2>10. new.coalesced \subseteq Events /\ (new.coalesced = {} \/ \E x : new.coalesced = {x})
    BY <1>3, <2>4
  <2>11. DOMAIN new = RankFields /\ new.sending = me.sending /\ new.lost = me.lost
    BY <2>4
  <2>12. RankGrew(r, me, durable, e, new, known)
    BY <1>0, <2>5, <2>6, <2>7, <2>8, <2>9, <2>10, <2>11 DEF RankGrew
  <2> QED BY <2>11, <2>12, RankEmits
<1> QED BY <1>0, <1>4, <1>5, <1>6
(* The calls of the gateway: whoever is waited for carries the batch in flight, and  *)
(* what has been numbered is known.                                                *)
CallFields == {"pc", "from", "batch", "numbers"}
CallIs(c, rep, in) ==
    /\ DOMAIN c = CallFields /\ c.pc \in {"idle", "begun", "numbered", "published"}
    /\ c.from \in Ranks \union {NoRank} /\ (c.pc = "idle" => c.from = NoRank)
    /\ c.pc # "idle" => c.batch \in Batches
    /\ c.from \in Ranks => rep[c.from].sending = c.batch
    /\ c.pc \in {"numbered", "published"} =>
          /\ ToSet(c.batch) \subseteq ToSet(in) /\ c.numbers \in Seq(Nat) /\ Rising(c.numbers)
          /\ ToSet(c.numbers) \subseteq 1..Len(in)
CallsAre(req, rep, in) ==
    /\ DOMAIN req = Requests /\ \A q \in Requests : CallIs(req[q], rep, in)
    /\ \A p, q \in Requests : req[p].from = req[q].from /\ req[p].from \in Ranks => p = q
RanksAre(rep, in) == DOMAIN rep = Ranks /\ \A r \in Ranks : RankIs(r, rep[r], ToSet(in))

LEMMA CallSteps ==
    ASSUME NEW in, NEW rep, NEW req, CallsAre(req, rep, in), NEW q \in Requests, NEW c, CallIs(c, rep, in),
           c.from = NoRank \/ c.from = req[q].from
    PROVE  CallsAre([req EXCEPT ![q] = c], rep, in)
<1>1. PICK req2 : req2 = [req EXCEPT ![q] = c]
  OBVIOUS
<1>2. DOMAIN req2 = Requests /\ req2[q] = c /\ \A p \in Requests \ {q} : req2[p] = req[p]
  BY <1>1 DEF CallsAre
<1>3. \A p \in Requests : CallIs(req2[p], rep, in)
  BY <1>2 DEF CallsAre
<1>4. \A p \in Requests : req2[p].from \in Ranks => req2[p].from = req[p].from
  BY <1>2, EventsAssumption
<1>5. \A o, p \in Requests : req2[o].from = req2[p].from /\ req2[o].from \in Ranks => o = p
  BY <1>4 DEF CallsAre
<1> QED BY <1>1, <1>2, <1>3, <1>5 DEF CallsAre
LEMMA RankSteps ==
    ASSUME NEW in, NEW rep, NEW req, CallsAre(req, rep, in), RanksAre(rep, in), NEW r \in Ranks,
           NEW new, RankIs(r, new, ToSet(in)), \A q \in Requests : req[q].from = r => new.sending = req[q].batch
    PROVE  CallsAre(req, [rep EXCEPT ![r] = new], in) /\ RanksAre([rep EXCEPT ![r] = new], in)
<1>1. PICK rep2 : rep2 = [rep EXCEPT ![r] = new]
  OBVIOUS
<1>2. DOMAIN rep2 = Ranks /\ rep2[r] = new /\ \A x \in Ranks \ {r} : rep2[x] = rep[x]
  BY <1>1 DEF RanksAre
<1>3. RanksAre(rep2, in)
  BY <1>2 DEF RanksAre
<1>4. ASSUME NEW q \in Requests PROVE CallIs(req[q], rep2, in)
  <2>1. CallIs(req[q], rep, in)
    BY DEF CallsAre
  <2>2. req[q].from \in Ranks => rep2[req[q].from].sending = req[q].batch
    BY <1>2, <2>1 DEF CallIs
  <2> QED BY <2>1, <2>2 DEF CallIs
<1> QED BY <1>1, <1>3, <1>4 DEF CallsAre
(* One rank and one call: a batch is posted, or the call is not waited for any more. *)
LEMMA BothStep ==
    ASSUME NEW in, NEW rep, NEW req, CallsAre(req, rep, in), RanksAre(rep, in), NEW r \in Ranks,
           NEW new, RankIs(r, new, ToSet(in)), NEW q \in Requests, NEW c,
           \A p \in Requests : p # q => req[p].from # r,
           c.from = NoRank \/ (c.from = r /\ new.sending = c.batch),
           \A x : (c.from \in Ranks => x[c.from].sending = c.batch) => CallIs(c, x, in)
    PROVE  /\ CallsAre([req EXCEPT ![q] = c], [rep EXCEPT ![r] = new], in)
           /\ RanksAre([rep EXCEPT ![r] = new], in)
<1>1. PICK req2 : req2 = [req EXCEPT ![q] = c]
  OBVIOUS
<1>2. PICK rep2 : rep2 = [rep EXCEPT ![r] = new]
  OBVIOUS
<1>3. DOMAIN req2 = Requests /\ req2[q] = c /\ \A p \in Requests \ {q} : req2[p] = req[p]
  BY <1>1 DEF CallsAre
<1>4. DOMAIN rep2 = Ranks /\ rep2[r] = new /\ \A x \in Ranks \ {r} : rep2[x] = rep[x]
  BY <1>2 DEF RanksAre
<1>5. RanksAre(rep2, in)
  BY <1>4 DEF RanksAre
<1>6. CallIs(c, rep2, in)
  BY <1>4, EventsAssumption
<1>7. ASSUME NEW p \in Requests \ {q} PROVE CallIs(req[p], rep2, in)
  <2>1. CallIs(req[p], rep, in) /\ req[p].from # r
    BY DEF CallsAre
  <2>2. req[p].from \in Ranks => rep2[req[p].from].sending = req[p].batch
    BY <1>4, <2>1 DEF CallIs
  <2> QED BY <2>1, <2>2 DEF CallIs
<1>8. \A o, p \in Requests : req2[o].from = req2[p].from /\ req2[o].from \in Ranks => o = p
  <2> SUFFICES ASSUME NEW o \in Requests, NEW p \in Requests, req2[o].from = req2[p].from, req2[o].from \in Ranks, o # p
               PROVE FALSE
    OBVIOUS
  <2>1. CASE o = q
    BY <1>3, <2>1, EventsAssumption
  <2>2. CASE p = q
    BY <1>3, <2>2, EventsAssumption
  <2>3. CASE o # q /\ p # q
    BY <1>3, <2>3 DEF CallsAre
  <2> QED BY <2>1, <2>2, <2>3
<1>9. \A p \in Requests : CallIs(req2[p], rep2, in)
  BY <1>3, <1>6, <1>7
<1> QED BY <1>1, <1>2, <1>3, <1>5, <1>8, <1>9 DEF CallsAre
(* A batch is posted by a rank that waits for none.                                *)
LEMMA BatchIsPosted ==
    ASSUME CallsAre(request, reporter, ingress), RanksAre(reporter, ingress), NEW r \in Ranks,
           reporter[r].sending = <<>>, NEW b \in Batches, NEW new, RankIs(r, new, ToSet(ingress)), new.sending = b,
           NEW q \in Requests, PostsBatch(r, q, b), Report(r, new)
    PROVE  CallsAre(request', reporter', ingress) /\ RanksAre(reporter', ingress)
<1>1. PICK c : c = [NoRequest EXCEPT !.pc = "begun", !.from = r, !.batch = b]
  OBVIOUS
<1>2. DOMAIN c = CallFields /\ c.pc = "begun" /\ c.from = r /\ c.batch = b
  BY <1>1 DEF NoRequest, CallFields
<1>3. \A x : (c.from \in Ranks => x[c.from].sending = c.batch) => CallIs(c, x, ingress)
  BY <1>2 DEF CallIs
<1>4. \A p \in Requests : request[p].from # r
  <2> SUFFICES ASSUME NEW p \in Requests, request[p].from = r PROVE FALSE
    OBVIOUS
  <2>1. CallIs(request[p], reporter, ingress)
    BY DEF CallsAre
  <2>2. request[p].batch = <<>> /\ request[p].batch \in Batches
    BY <2>1, EventsAssumption DEF CallIs
  <2> QED BY <2>2 DEF Batches
<1>5. request' = [request EXCEPT ![q] = c] /\ reporter' = [reporter EXCEPT ![r] = new]
  BY <1>1 DEF PostsBatch, Report
<1>6. /\ \A p \in Requests : p # q => request[p].from # r
      /\ c.from = NoRank \/ (c.from = r /\ new.sending = c.batch)
  BY <1>2, <1>4
<1>7. CallsAre([request EXCEPT ![q] = c], [reporter EXCEPT ![r] = new], ingress) /\ RanksAre([reporter EXCEPT ![r] = new], ingress)
  BY <1>3, <1>6, BothStep
<1> QED BY <1>5, <1>7
(* A call ends, with an answer or without.                                         *)
LEMMA CallEnds ==
    ASSUME CallsAre(request, reporter, ingress), RanksAre(reporter, ingress), NEW q \in Requests, NEW outcome,
           request[q].pc # "idle", EndsCall(q, outcome),
           outcome = "taken" => ToSet(request[q].batch) \subseteq ToSet(ingress)
    PROVE  CallsAre(request', reporter', ingress) /\ RanksAre(reporter', ingress)
<1>1. PICK c : c = NoRequest
  OBVIOUS
<1>2. DOMAIN c = CallFields /\ c.pc = "idle" /\ c.from = NoRank
  BY <1>1 DEF NoRequest, CallFields
<1>3. \A x : CallIs(c, x, ingress)
  BY <1>2, EventsAssumption DEF CallIs
<1>4. request' = [request EXCEPT ![q] = c]
  BY <1>1 DEF EndsCall
<1>5. CallIs(request[q], reporter, ingress) /\ request[q].batch \in Batches
  BY DEF CallsAre, CallIs
<1>6. CASE Waits(q)
  <2>1. PICK r \in Ranks : r = request[q].from
    BY <1>6 DEF Waits
  <2>2. PICK me : me = reporter[r]
    OBVIOUS
  <2>3. me.sending = request[q].batch /\ RankIs(r, me, ToSet(ingress))
    BY <1>5, <2>1, <2>2 DEF CallIs, RanksAre
  <2>4. PICK new : new = IF outcome = "taken" THEN Taken(me) ELSE Logged(me)
    OBVIOUS
  <2>5. RankIs(r, new, ToSet(ingress))
    <3>1. CASE outcome = "taken"
      BY <2>3, <2>4, <3>1, RankIsDone
    <3>2. CASE outcome # "taken"
      BY <1>5, <2>3, <2>4, <3>2, RankLogs
    <3> QED BY <3>1, <3>2
  <2>6. reporter' = [reporter EXCEPT ![r] = new]
    BY <1>6, <2>1, <2>2, <2>4 DEF EndsCall, Report
  <2>7. \A p \in Requests : p # q => request[p].from # r
    BY <2>1 DEF CallsAre
  <2>8. CallsAre([request EXCEPT ![q] = c], [reporter EXCEPT ![r] = new], ingress) /\ RanksAre([reporter EXCEPT ![r] = new], ingress)
    <3>1. \A x : (c.from \in Ranks => x[c.from].sending = c.batch) => CallIs(c, x, ingress)
      BY <1>3
    <3>2. c.from = NoRank \/ (c.from = r /\ new.sending = c.batch)
      BY <1>2
    <3> QED BY <2>5, <2>7, <3>1, <3>2, BothStep, ZenonT(40)
  <2> QED BY <1>4, <2>6, <2>8
<1>7. CASE ~Waits(q)
  <2>1. reporter' = reporter
    BY <1>7 DEF EndsCall
  <2> QED BY <1>2, <1>3, <1>4, <2>1, CallSteps
<1> QED BY <1>6, <1>7
(* The stream and its readers.  What is published has numbers above all there are;   *)
(* what a reader has in hand is all of the stream from its cursor to its last row.  *)
StreamIs(in, s) ==
    in \in Seq(Events) /\ Unrepeated(in) /\ s \in Seq(Nat) /\ Rising(s) /\ ToSet(s) \subseteq 1..Len(in)
Grows(s, t) ==
    /\ ToSet(s) \subseteq ToSet(t) /\ ToSet(t) \subseteq Nat \ {0}
    /\ \A n \in ToSet(t) : n \in ToSet(s) \/ \A m \in ToSet(s) : m < n
ReadsAfter(rows, cursor, s) ==
    /\ rows \in Seq(Nat) /\ rows # <<>> /\ Rising(rows) /\ ToSet(rows) \subseteq ToSet(s)
    /\ \A n \in ToSet(rows) : cursor < n
    /\ \A n \in ToSet(s) : cursor < n /\ n <= Last(rows) => n \in ToSet(rows)
ArchiverIs(a, chunks, s) ==
    /\ DOMAIN a = {"pc", "cursor", "from", "rows"} /\ a.pc \in {"idle", "read", "stored"}
    /\ a.cursor \in ToSet(s) \union {0}
    /\ \A n \in ToSet(s) : n <= a.cursor => \E chunk \in chunks : n \in ToSet(chunk)
    /\ a.pc # "idle" => ReadsAfter(a.rows, a.cursor, s)
    /\ a.pc = "stored" => a.rows \in chunks
ClientIs(c, s) ==
    /\ DOMAIN c = {"cursor", "acked", "rows", "got"} /\ c.cursor = c.acked /\ c.acked \in ToSet(s) \union {0}
    /\ c.got \in Seq(Nat) /\ Rising(c.got) /\ ToSet(c.got) = {n \in ToSet(s) : n <= c.acked}
    /\ c.rows = <<>> \/ ReadsAfter(c.rows, c.acked, s)

LEMMA ChunkIsRead ==
    ASSUME StreamIs(ingress, stream), NEW cursor, After(cursor) # <<>>
    PROVE  ReadsAfter(Chunk(After(cursor)), cursor, stream)
<1>1. PICK x : x = After(cursor)
  OBVIOUS
<1>2. x \in Seq(Nat) /\ ToSet(x) = ToSet(stream) \cap {n \in ToSet(stream) : n > cursor}
  BY <1>1, ThoseAre DEF After, StreamIs
<1>3. Rising(x)
  BY <1>1, RisingKept DEF After, StreamIs
<1>4. /\ Chunk(x) \in Seq(Nat) /\ Chunk(x) # <<>> /\ Rising(Chunk(x)) /\ ToSet(Chunk(x)) \subseteq ToSet(x)
      /\ \A n \in ToSet(x) : n <= Last(Chunk(x)) => n \in ToSet(Chunk(x))
  BY <1>1, <1>2, <1>3, ChunkIs
<1>5. ToSet(Chunk(x)) \subseteq ToSet(stream) /\ \A n \in ToSet(Chunk(x)) : n > cursor
  BY <1>2, <1>4
<1>6. \A n \in ToSet(stream) : n > cursor /\ n <= Last(Chunk(x)) => n \in ToSet(Chunk(x))
  BY <1>2, <1>4
<1>7. \A n \in ToSet(stream) : cursor < n <=> n > cursor
  OBVIOUS
<1>8. (\A n \in ToSet(Chunk(x)) : cursor < n) /\ \A n \in ToSet(stream) : cursor < n /\ n <= Last(Chunk(x)) => n \in ToSet(Chunk(x))
  BY <1>5, <1>6, <1>7
<1> QED BY <1>1, <1>4, <1>5, <1>8 DEF ReadsAfter
LEMMA StreamGrows ==
    ASSUME StreamIs(ingress, stream), NEW numbers \in Seq(Nat), Rising(numbers), ToSet(numbers) \subseteq 1..Len(ingress),
           NEW taken, taken = Those(numbers, {n \in ToSet(numbers) : Accepts(n, stream)})
    PROVE  StreamIs(ingress, stream \o taken) /\ Grows(stream, stream \o taken)
<1>1. PICK x : x = taken
  OBVIOUS
<1>2. x \in Seq(Nat) /\ ToSet(x) = ToSet(numbers) \cap {n \in ToSet(numbers) : Accepts(n, stream)}
  BY <1>1, ThoseAre
<1>3. Rising(x)
  BY <1>1, RisingKept
<1>4. stream \in Seq(Nat) /\ Rising(stream) /\ ToSet(stream) \subseteq 1..Len(ingress)
  BY DEF StreamIs
<1>5. ASSUME NEW m \in ToSet(stream), NEW n \in ToSet(x) PROVE m < n
  <2>1. stream # <<>>
    BY DEF ToSet
  <2>2. n > Last(stream)
    BY <1>2, <2>1 DEF Accepts, Above
  <2>3. Last(stream) \in Nat /\ m <= Last(stream)
    BY <1>4, <2>1, LastIsGreatest
  <2>4. n \in Nat /\ m \in Nat
    BY <1>2, <1>4
  <2> QED BY <2>2, <2>3, <2>4
<1>6. Rising(stream \o x)
  BY <1>2, <1>3, <1>4, <1>5, RisingJoined
<1>7. stream \o x \in Seq(Nat) /\ ToSet(stream \o x) = ToSet(stream) \union ToSet(x)
  BY <1>2, <1>4, JoinedSet
<1>8. ToSet(stream \o x) \subseteq 1..Len(ingress)
  BY <1>2, <1>4, <1>7
<1>9. StreamIs(ingress, stream \o x)
  BY <1>6, <1>7, <1>8 DEF StreamIs
<1>10. ToSet(stream \o x) \subseteq Nat \ {0}
  BY <1>8
<1>11. Grows(stream, stream \o x)
  BY <1>5, <1>7, <1>10 DEF Grows
<1> QED BY <1>1, <1>9, <1>11
LEMMA ReadsGrow ==
    ASSUME NEW s, NEW t, Grows(s, t), NEW rows, NEW cursor, ReadsAfter(rows, cursor, s)
    PROVE  ReadsAfter(rows, cursor, t)
<1>1. Last(rows) \in Nat /\ Last(rows) \in ToSet(s)
  BY LastIsGreatest DEF ReadsAfter
<1>2. ASSUME NEW n \in ToSet(t), cursor < n, n <= Last(rows) PROVE n \in ToSet(rows)
  <2>1. n \in Nat
    BY DEF Grows
  <2>2. n \in ToSet(s)
    <3>1. ~(Last(rows) < n)
      BY <1>1, <1>2, <2>1
    <3> QED BY <1>1, <3>1 DEF Grows
  <2> QED BY <1>2, <2>2 DEF ReadsAfter
<1> QED BY <1>2 DEF ReadsAfter, Grows
LEMMA BelowStays ==
    ASSUME NEW s, NEW t, Grows(s, t), NEW place, place \in ToSet(s) \union {0}
    PROVE  {n \in ToSet(t) : n <= place} = {n \in ToSet(s) : n <= place} /\ place \in ToSet(t) \union {0}
<1>1. place \in Nat /\ place \in ToSet(t) \union {0}
  BY DEF Grows
<1>2. ASSUME NEW n \in ToSet(t), n <= place PROVE n \in ToSet(s)
  <2>1. n \in Nat /\ n # 0
    BY DEF Grows
  <2>2. place \in ToSet(s) /\ ~(place < n)
    BY <1>1, <1>2, <2>1
  <2> QED BY <2>2 DEF Grows
<1> QED BY <1>1, <1>2 DEF Grows
LEMMA ReadersStay ==
    ASSUME NEW s, NEW t, Grows(s, t), NEW a, NEW chunks, ArchiverIs(a, chunks, s), NEW c, ClientIs(c, s)
    PROVE  ArchiverIs(a, chunks, t) /\ ClientIs(c, t)
<1>1. {n \in ToSet(t) : n <= a.cursor} = {n \in ToSet(s) : n <= a.cursor} /\ a.cursor \in ToSet(t) \union {0}
  BY BelowStays DEF ArchiverIs
<1>2. {n \in ToSet(t) : n <= c.acked} = {n \in ToSet(s) : n <= c.acked} /\ c.acked \in ToSet(t) \union {0}
  BY BelowStays DEF ClientIs
<1>3. \A n \in ToSet(t) : n <= a.cursor => \E chunk \in chunks : n \in ToSet(chunk)
  BY <1>1 DEF ArchiverIs
<1>4. a.pc # "idle" => ReadsAfter(a.rows, a.cursor, t)
  BY ReadsGrow DEF ArchiverIs
<1>5. c.rows = <<>> \/ ReadsAfter(c.rows, c.acked, t)
  BY ReadsGrow DEF ClientIs
<1>6. ArchiverIs(a, chunks, t)
  BY <1>1, <1>3, <1>4 DEF ArchiverIs
<1> QED BY <1>2, <1>5, <1>6 DEF ClientIs
(* The archive moves its cursor to the end of what it stored.                       *)
LEMMA CursorMoves ==
    ASSUME NEW s, ToSet(s) \subseteq Nat, NEW a, NEW chunks, ArchiverIs(a, chunks, s), a.pc = "stored",
           NEW new, new = [a EXCEPT !.pc = "idle", !.rows = <<>>, !.cursor = ChunkEnd(a.rows)]
    PROVE  ArchiverIs(new, chunks, s)
<1>1. ReadsAfter(a.rows, a.cursor, s) /\ a.rows \in chunks
  BY DEF ArchiverIs
<1>2. PICK last : last = Last(a.rows)
  OBVIOUS
<1>3. last \in Nat /\ last \in ToSet(s)
  BY <1>1, <1>2, LastIsGreatest DEF ReadsAfter
<1>4. DOMAIN new = {"pc", "cursor", "from", "rows"} /\ new.pc = "idle" /\ new.cursor = last
  BY <1>2 DEF ArchiverIs, ChunkEnd
<1>5. ASSUME NEW n \in ToSet(s), n <= last PROVE \E chunk \in chunks : n \in ToSet(chunk)
  <2>1. CASE n <= a.cursor
    BY <2>1 DEF ArchiverIs
  <2>2. CASE ~(n <= a.cursor)
    <3>1. a.cursor < n
      <4>1. a.cursor \in Nat /\ n \in Nat
        BY DEF ArchiverIs
      <4> QED BY <2>2, <4>1
    <3>2. n \in ToSet(a.rows)
      BY <1>1, <1>2, <1>5, <3>1 DEF ReadsAfter
    <3> QED BY <1>1, <3>2
  <2> QED BY <2>1, <2>2
<1> QED BY <1>3, <1>4, <1>5 DEF ArchiverIs
(* The client takes the first of the rows it has.                                   *)
LEMMA RowIsTaken ==
    ASSUME NEW s, ToSet(s) \subseteq Nat, NEW c, ClientIs(c, s), c.rows # <<>>,
           NEW new, new = [c EXCEPT !.cursor = IF @ > Head(c.rows) THEN @ ELSE Head(c.rows),
                                    !.acked = Head(c.rows), !.rows = Tail(@), !.got = Append(@, Head(c.rows))]
    PROVE  ClientIs(new, s)
<1>1. PICK rows : rows = c.rows
  OBVIOUS
<1>2. PICK acked \in Nat : acked = c.acked /\ acked = c.cursor
  BY DEF ClientIs
<1>3. ReadsAfter(rows, acked, s)
  BY <1>1, <1>2 DEF ClientIs
<1>4. PICK h, rest : h = Head(rows) /\ rest = Tail(rows)
  OBVIOUS
<1>5. /\ h \in Nat /\ h \in ToSet(rows) /\ rest \in Seq(Nat) /\ Rising(rest) /\ ToSet(rows) = {h} \union ToSet(rest)
      /\ (\A n \in ToSet(rest) : h < n) /\ (rest # <<>> => Last(rest) = Last(rows))
  BY <1>3, <1>4, HeadIsLeast DEF ReadsAfter
<1>6. acked < h /\ h \in ToSet(s)
  BY <1>3, <1>5 DEF ReadsAfter
<1>7. PICK got : got = Append(c.got, h)
  OBVIOUS
<1>8. DOMAIN new = {"cursor", "acked", "rows", "got"} /\ new.cursor = h /\ new.acked = h /\ new.rows = rest /\ new.got = got
  <2>1. ~(c.cursor > h)
    BY <1>2, <1>5, <1>6
  <2> QED BY <1>1, <1>4, <1>7, <2>1 DEF ClientIs
<1>9. Last(rows) \in Nat /\ h <= Last(rows)
  BY <1>3, <1>5, LastIsGreatest DEF ReadsAfter
<1>10. c.got \in Seq(Nat) /\ Rising(c.got) /\ ToSet(c.got) = {n \in ToSet(s) : n <= acked}
  BY <1>2 DEF ClientIs
<1>11. got \in Seq(Nat) /\ ToSet(got) = ToSet(c.got) \union {h}
  <2>1. Append(c.got, h) \in Seq(Nat) /\ ToSet(Append(c.got, h)) = ToSet(c.got) \union {h}
    BY <1>5, <1>10, AppendedSet
  <2> QED BY <1>7, <2>1
<1>12. Rising(got)
  <2>1. \A m \in ToSet(c.got) : m < h
    BY <1>5, <1>6, <1>10
  <2>2. Rising(Append(c.got, h))
    BY <1>5, <1>10, <2>1, AppendedRises
  <2> QED BY <1>7, <2>2
<1>13. ToSet(got) = {n \in ToSet(s) : n <= h}
  <2>1. ASSUME NEW n \in ToSet(s), n <= h PROVE n \in ToSet(got)
    <3>1. n \in Nat
      OBVIOUS
    <3>2. CASE n <= acked
      BY <1>10, <1>11, <3>2
    <3>3. CASE acked < n
      <4>1. n <= Last(rows)
        BY <1>5, <1>9, <2>1, <3>1
      <4>2. n \in ToSet(rows)
        BY <1>3, <3>3, <4>1 DEF ReadsAfter
      <4>3. ~(h < n)
        BY <1>5, <2>1, <3>1
      <4> QED BY <1>5, <1>11, <4>2, <4>3
    <3> QED BY <1>2, <3>1, <3>2, <3>3
  <2>2. ASSUME NEW n \in ToSet(got) PROVE n \in ToSet(s) /\ n <= h
    <3>1. CASE n = h
      BY <1>5, <1>6, <3>1
    <3>2. CASE n \in ToSet(s) /\ n <= acked
      BY <1>2, <1>5, <1>6, <3>2
    <3> QED BY <1>10, <1>11, <2>2, <3>1, <3>2
  <2> QED BY <2>1, <2>2
<1>14. rest = <<>> \/ ReadsAfter(rest, h, s)
  <2> SUFFICES ASSUME rest # <<>> PROVE ReadsAfter(rest, h, s)
    OBVIOUS
  <2>1. ToSet(rest) \subseteq ToSet(s)
    BY <1>3, <1>5 DEF ReadsAfter
  <2>2. ASSUME NEW n \in ToSet(s), h < n, n <= Last(rest) PROVE n \in ToSet(rest)
    <3>1. n \in Nat /\ acked < n /\ n <= Last(rows)
      BY <1>2, <1>5, <1>6, <2>2
    <3>2. n \in ToSet(rows)
      BY <1>3, <3>1 DEF ReadsAfter
    <3>3. n # h
      BY <1>5, <2>2
    <3> QED BY <1>5, <3>2, <3>3
  <2> QED BY <1>5, <2>1, <2>2 DEF ReadsAfter
<1> QED BY <1>6, <1>8, <1>11, <1>12, <1>13, <1>14 DEF ClientIs
(* What holds of the events of a job throughout.                                    *)
EventsInv ==
    /\ StreamIs(ingress, stream) /\ RanksAre(reporter, ingress) /\ CallsAre(request, reporter, ingress)
    /\ ArchiverIs(archiver, archive, stream) /\ ClientIs(client, stream)

LEMMA EventsBegin ==
    ASSUME EventsInit
    PROVE  EventsInv
<1>1. <<>> \in Seq(Events) /\ <<>> \in Seq(Nat) /\ <<>> \in Seq(Batches) /\ <<>> \in Seq(BOOLEAN)
      /\ ToSet(<<>>) = {} /\ Unrepeated(<<>>) /\ Rising(<<>>) /\ Len(<<>>) = 0
  BY DEF ToSet, Unrepeated, Rising
<1>2. StreamIs(ingress, stream)
  BY <1>1 DEF EventsInit, StreamIs
<1>3. ASSUME NEW r \in Ranks PROVE RankIs(r, Quiet, ToSet(ingress))
  <2>1. PICK me : me = Quiet
    OBVIOUS
  <2>2. /\ DOMAIN me = RankFields /\ me.emitted = <<>> /\ me.queue = <<>> /\ me.coalesced = {} /\ me.wal = <<>>
        /\ me.sending = <<>> /\ me.replay = 0 /\ me.kept = <<>> /\ me.lost = {}
    BY <2>1 DEF Quiet, RankFields
  <2>3. QueueSound(me)
    BY <1>1, <2>2 DEF QueueSound
  <2>4. LogSound(me)
    BY <1>1, <2>2 DEF LogSound
  <2>5. Replayed(me, ToSet(ingress)) /\ Recalled(r, me, ToSet(ingress))
    BY <1>1, <2>2 DEF Replayed, Recalled
  <2> QED BY <2>1, <2>2, <2>3, <2>4, <2>5 DEF RankIs
<1>4. RanksAre(reporter, ingress)
  BY <1>3 DEF EventsInit, RanksAre
<1>5. CallsAre(request, reporter, ingress)
  <2>1. PICK c : c = NoRequest
    OBVIOUS
  <2>2. DOMAIN c = CallFields /\ c.pc = "idle" /\ c.from = NoRank
    BY <2>1 DEF NoRequest, CallFields
  <2>3. CallIs(c, reporter, ingress)
    BY <2>2, EventsAssumption DEF CallIs
  <2>4. DOMAIN request = Requests /\ \A q \in Requests : request[q] = c
    BY <2>1 DEF EventsInit
  <2> QED BY <2>2, <2>3, <2>4, EventsAssumption DEF CallsAre
<1>6. ArchiverIs(archiver, archive, stream)
  <2>1. ToSet(stream) = {}
    BY <1>1 DEF EventsInit
  <2>2. PICK a : a = archiver
    OBVIOUS
  <2>3. DOMAIN a = {"pc", "cursor", "from", "rows"} /\ a.pc = "idle" /\ a.cursor = 0
    BY <2>2 DEF EventsInit
  <2> QED BY <2>1, <2>2, <2>3 DEF ArchiverIs
<1>7. ClientIs(client, stream)
  <2>1. ToSet(stream) = {}
    BY <1>1 DEF EventsInit
  <2>2. PICK c : c = client
    OBVIOUS
  <2>3. /\ DOMAIN c = {"cursor", "acked", "rows", "got"} /\ c.cursor = 0 /\ c.acked = 0
        /\ c.got = <<>> /\ c.rows = <<>>
    BY <2>2 DEF EventsInit
  <2> QED BY <1>1, <2>1, <2>2, <2>3 DEF ClientIs
<1> QED BY <1>2, <1>4, <1>5, <1>6, <1>7 DEF EventsInv

(* The steps of a reporter.                                                          *)
LEMMA EmitKeeps ==
    ASSUME EventsInv, NEW r \in Ranks, Emit(r)
    PROVE  EventsInv'
<1>1. PICK me : me = reporter[r]
  OBVIOUS
<1>2. RankIs(r, me, ToSet(ingress))
  BY <1>1 DEF EventsInv, RanksAre
<1>3. PICK durable \in BOOLEAN :
         LET e  == Event(r, Len(reporter[r].emitted) + 1, durable)
             me1 == [reporter[r] EXCEPT !.emitted = Append(@, durable)]
         IN  IF Full(r)
             THEN (durable => me1.replay = 0) /\ Report(r, Overflow(me1, e))
             ELSE Report(r, [me1 EXCEPT !.queue = Append(@, e)])
  BY DEF Emit
<1>4. PICK e : e = Event(r, Len(me.emitted) + 1, durable)
  OBVIOUS
<1>5. PICK grown : grown = [me EXCEPT !.emitted = Append(@, durable)]
  OBVIOUS
<1>6. grown.replay = me.replay
  BY <1>2, <1>5 DEF RankIs, RankFields
<1>7. PICK new : /\ reporter' = [reporter EXCEPT ![r] = new]
                 /\ \/ (durable => me.replay = 0) /\ new = Overflow(grown, e)
                    \/ new = [grown EXCEPT !.queue = Append(@, e)]
  BY <1>1, <1>3, <1>4, <1>5, <1>6 DEF Report
<1>8. RankIs(r, new, ToSet(ingress)) /\ new.sending = me.sending
  <2>1. EmitsAs(r, me, durable, e, grown, new)
    BY <1>4, <1>5, <1>7, Zenon DEF EmitsAs
  <2> QED BY <1>2, <2>1, RankEmitsSomewhere
<1>9. \A q \in Requests : request[q].from = r => new.sending = request[q].batch
  BY <1>1, <1>8 DEF EventsInv, CallsAre, CallIs
<1>10. CallsAre(request, reporter', ingress) /\ RanksAre(reporter', ingress)
  <2>1. CallsAre(request, [reporter EXCEPT ![r] = new], ingress) /\ RanksAre([reporter EXCEPT ![r] = new], ingress)
    BY <1>8, <1>9, RankSteps DEF EventsInv
  <2> QED BY <1>7, <2>1
<1>11. UNCHANGED <<request, ingress, stream, archive, archiver, client>>
  BY DEF Emit
<1> QED BY <1>10, <1>11 DEF EventsInv
LEMMA FlushKeeps ==
    ASSUME EventsInv, NEW r \in Ranks, Flush(r)
    PROVE  EventsInv'
<1>1. PICK me : me = reporter[r]
  OBVIOUS
<1>2. RankIs(r, me, ToSet(ingress)) /\ RankIs(r, reporter[r], ToSet(ingress))
  BY <1>1 DEF EventsInv, RanksAre
<1>3. me.sending = <<>> /\ me.replay = 0 /\ (reporter[r].queue # <<>> \/ reporter[r].coalesced # {})
  BY <1>1 DEF Flush, Delivering
<1>4. PICK b, queue, left : b = NextBatch(r).batch /\ queue = NextBatch(r).queue /\ left = NextBatch(r).coalesced
  OBVIOUS
<1>5. /\ b \in Batches /\ queue \in Seq(Events) /\ Unrepeated(queue) /\ (left = {} \/ left = me.coalesced)
      /\ ToSet(queue) \subseteq ToSet(me.queue) /\ ToSet(me.queue) \subseteq ToSet(b) \union ToSet(queue)
  BY <1>1, <1>2, <1>3, <1>4, BatchLeaves
<1>6. PICK new : new = [me EXCEPT !.queue = queue, !.coalesced = left, !.sending = b]
  OBVIOUS
<1>7. RankIs(r, new, ToSet(ingress))
  BY <1>2, <1>3, <1>5, <1>6, RankFlushes
<1>8. new.sending = b
  BY <1>2, <1>6 DEF RankIs, RankFields
<1>9. Report(r, new) /\ \E q \in Requests : PostsBatch(r, q, b)
  BY <1>1, <1>4, <1>6 DEF Flush
<1>10. CallsAre(request', reporter', ingress) /\ RanksAre(reporter', ingress)
  <2>1. PICK q \in Requests : PostsBatch(r, q, b)
    BY <1>9
  <2> QED BY <1>1, <1>3, <1>5, <1>7, <1>8, <1>9, <2>1, BatchIsPosted DEF EventsInv
<1>11. UNCHANGED <<ingress, stream, archive, archiver, client>>
  BY DEF Flush
<1> QED BY <1>10, <1>11 DEF EventsInv
LEMMA ReplayKeeps ==
    ASSUME EventsInv, NEW r \in Ranks, ReplayLog(r)
    PROVE  EventsInv'
<1>1. PICK me : me = reporter[r]
  OBVIOUS
<1>2. RankIs(r, me, ToSet(ingress))
  BY <1>1 DEF EventsInv, RanksAre
<1>3. me.sending = <<>> /\ me.replay < Len(me.wal)
  BY <1>1 DEF ReplayLog, Delivering
<1>4. PICK b : b = me.wal[me.replay + 1]
  OBVIOUS
<1>5. PICK new : new = [me EXCEPT !.replay = @ + 1, !.sending = b]
  OBVIOUS
<1>6. b \in Batches /\ RankIs(r, new, ToSet(ingress))
  BY <1>2, <1>3, <1>4, <1>5, RankReplays
<1>7. new.sending = b
  BY <1>2, <1>5 DEF RankIs, RankFields
<1>8. Report(r, new) /\ \E q \in Requests : PostsBatch(r, q, b)
  BY <1>1, <1>4, <1>5 DEF ReplayLog
<1>9. CallsAre(request', reporter', ingress) /\ RanksAre(reporter', ingress)
  <2>1. PICK q \in Requests : PostsBatch(r, q, b)
    BY <1>8
  <2> QED BY <1>1, <1>3, <1>6, <1>7, <1>8, <2>1, BatchIsPosted DEF EventsInv
<1>10. UNCHANGED <<ingress, stream, archive, archiver, client>>
  BY DEF ReplayLog
<1> QED BY <1>9, <1>10 DEF EventsInv
LEMMA EndReplayKeeps ==
    ASSUME EventsInv, NEW r \in Ranks, EndReplay(r)
    PROVE  EventsInv'
<1>1. PICK me : me = reporter[r]
  OBVIOUS
<1>2. RankIs(r, me, ToSet(ingress))
  BY <1>1 DEF EventsInv, RanksAre
<1>3. me.sending = <<>> /\ me.replay = Len(me.wal)
  BY <1>1 DEF EndReplay, Delivering
<1>4. PICK new : new = Trims(me)
  OBVIOUS
<1>5. RankIs(r, new, ToSet(ingress))
  BY <1>2, <1>3, <1>4, RankTrims
<1>6. new.sending = me.sending
  BY <1>2, <1>4 DEF RankIs, RankFields, Trims
<1>7. reporter' = [reporter EXCEPT ![r] = new]
  BY <1>1, <1>4 DEF EndReplay, Report
<1>8. \A q \in Requests : request[q].from = r => new.sending = request[q].batch
  BY <1>1, <1>6 DEF EventsInv, CallsAre, CallIs
<1>9. CallsAre(request, reporter', ingress) /\ RanksAre(reporter', ingress)
  <2>1. CallsAre(request, [reporter EXCEPT ![r] = new], ingress) /\ RanksAre([reporter EXCEPT ![r] = new], ingress)
    BY <1>5, <1>8, RankSteps DEF EventsInv
  <2> QED BY <1>7, <2>1
<1>10. UNCHANGED <<request, ingress, stream, archive, archiver, client>>
  BY DEF EndReplay
<1> QED BY <1>9, <1>10 DEF EventsInv
LEMMA DeathKeeps ==
    ASSUME EventsInv, NEW r \in Ranks, ReporterDies(r)
    PROVE  EventsInv'
<1>1. PICK me : me = reporter[r]
  OBVIOUS
<1>2. RankIs(r, me, ToSet(ingress))
  BY <1>1 DEF EventsInv, RanksAre
<1>3. PICK new : new = [Quiet EXCEPT !.emitted = me.emitted, !.wal = me.wal,
                                     !.lost = me.lost \union ToSet(me.queue)
                                                  \union (IF me.replay = 0 THEN ToSet(me.sending) ELSE {})]
  OBVIOUS
<1>4. RankIs(r, new, ToSet(ingress))
  BY <1>2, <1>3, RankDies
<1>5. reporter' = [reporter EXCEPT ![r] = new]
  BY <1>1, <1>3 DEF ReporterDies, Report
<1>6. DOMAIN reporter' = Ranks /\ reporter'[r] = new /\ \A x \in Ranks \ {r} : reporter'[x] = reporter[x]
  BY <1>5 DEF EventsInv, RanksAre
<1>7. RanksAre(reporter', ingress)
  BY <1>4, <1>6 DEF EventsInv, RanksAre
<1>8. request' = [q \in Requests |-> IF request[q].from = r THEN [request[q] EXCEPT !.from = NoRank] ELSE request[q]]
  BY DEF ReporterDies
<1>9. ASSUME NEW q \in Requests
      PROVE  CallIs(request'[q], reporter', ingress) /\ (request'[q].from \in Ranks => request'[q].from = request[q].from)
  <2>1. CallIs(request[q], reporter, ingress)
    BY DEF EventsInv, CallsAre
  <2>2. PICK c : c = request'[q]
    OBVIOUS
  <2>3. CASE request[q].from = r
    <3>1. c = [request[q] EXCEPT !.from = NoRank]
      BY <1>8, <2>2, <2>3
    <3>2. /\ DOMAIN c = CallFields /\ c.from = NoRank /\ c.pc = request[q].pc /\ c.batch = request[q].batch
          /\ c.numbers = request[q].numbers
      BY <2>1, <3>1 DEF CallIs, CallFields
    <3>3. CallIs(c, reporter', ingress)
      BY <2>1, <3>2, EventsAssumption DEF CallIs
    <3> QED BY <2>2, <3>2, <3>3, EventsAssumption
  <2>4. CASE request[q].from # r
    <3>1. c = request[q]
      BY <1>8, <2>2, <2>4
    <3>2. c.from \in Ranks => reporter'[c.from].sending = c.batch
      BY <1>6, <2>1, <2>4, <3>1 DEF CallIs
    <3>3. CallIs(c, reporter', ingress)
      BY <2>1, <3>1, <3>2 DEF CallIs
    <3> QED BY <2>2, <3>1, <3>3
  <2> QED BY <2>3, <2>4
<1>10. CallsAre(request', reporter', ingress)
  <2>1. DOMAIN request' = Requests
    BY <1>8
  <2>2. \A p, q \in Requests : request'[p].from = request'[q].from /\ request'[p].from \in Ranks => p = q
    BY <1>9 DEF EventsInv, CallsAre
  <2> QED BY <1>9, <2>1, <2>2 DEF CallsAre
<1>11. UNCHANGED <<ingress, stream, archive, archiver, client>>
  BY DEF ReporterDies
<1> QED BY <1>7, <1>10, <1>11 DEF EventsInv
(* The steps of a call of the gateway.                                               *)
LEMMA NumbersRise ==
    ASSUME NEW count \in Nat, NEW T, NEW fresh \in Seq(T),
           NEW numbers, numbers = [i \in DOMAIN fresh |-> count + i]
    PROVE  numbers \in Seq(Nat) /\ Rising(numbers) /\ ToSet(numbers) \subseteq 1..(count + Len(fresh))
<1>1. PICK m \in Nat : m = Len(fresh) /\ DOMAIN fresh = 1..m
  OBVIOUS
<1>2. numbers = [i \in 1..m |-> count + i]
  BY <1>1
<1>3. \A i \in 1..m : count + i \in Nat
  OBVIOUS
<1>4. numbers \in Seq(Nat) /\ Len(numbers) = m /\ \A i \in 1..m : numbers[i] = count + i
  BY <1>2, <1>3
<1>5. Rising(numbers)
  BY <1>4 DEF Rising
<1>6. ToSet(numbers) = {numbers[i] : i \in 1..m}
  BY <1>2 DEF ToSet
<1>7. \A i \in 1..m : numbers[i] \in 1..(count + m)
  BY <1>4
<1> QED BY <1>1, <1>4, <1>5, <1>6, <1>7
LEMMA NumberKeeps ==
    ASSUME EventsInv, NEW q \in Requests, NumberEvents(q)
    PROVE  EventsInv'
<1>1. PICK b : b = request[q].batch
  OBVIOUS
<1>2. PICK fresh : fresh = Those(b, ToSet(b) \ ToSet(ingress))
  OBVIOUS
<1>3. request[q].pc = "begun" /\ CallIs(request[q], reporter, ingress) /\ b \in Batches
  BY <1>1 DEF NumberEvents, EventsInv, CallsAre, CallIs
<1>4. ingress \in Seq(Events) /\ Unrepeated(ingress) /\ b \in Seq(Events) /\ Unrepeated(b)
  BY <1>3 DEF EventsInv, StreamIs, Batches
<1>5. fresh \in Seq(Events) /\ ToSet(fresh) = ToSet(b) \cap (ToSet(b) \ ToSet(ingress)) /\ Unrepeated(fresh)
  BY <1>2, <1>4, ThoseAre
<1>6. PICK in : in = ingress \o fresh
  OBVIOUS
<1>7. PICK numbers : numbers = [i \in DOMAIN fresh |-> Len(ingress) + i]
  OBVIOUS
<1>8. in \in Seq(Events) /\ ToSet(in) = ToSet(ingress) \union ToSet(b) /\ Unrepeated(in)
  <2>1. in \in Seq(Events) /\ ToSet(in) = ToSet(ingress) \union ToSet(fresh)
    BY <1>4, <1>5, <1>6, JoinedSet
  <2>2. ToSet(ingress) \cap ToSet(fresh) = {}
    BY <1>5
  <2>3. Unrepeated(in)
    BY <1>4, <1>5, <1>6, <2>2, UnrepeatedJoined
  <2> QED BY <1>5, <2>1, <2>3
<1>9. PICK count \in Nat : count = Len(ingress)
  BY <1>4
<1>10. Len(in) = count + Len(fresh) /\ Len(fresh) \in Nat
  BY <1>4, <1>5, <1>6, <1>9
<1>11. numbers \in Seq(Nat) /\ Rising(numbers) /\ ToSet(numbers) \subseteq 1..Len(in)
  <2>1. numbers = [i \in DOMAIN fresh |-> count + i]
    BY <1>7, <1>9
  <2>2. numbers \in Seq(Nat) /\ Rising(numbers) /\ ToSet(numbers) \subseteq 1..(count + Len(fresh))
    BY <1>5, <2>1, NumbersRise
  <2> QED BY <1>10, <2>2
<1>12. 1..Len(ingress) \subseteq 1..Len(in)
  BY <1>9, <1>10
<1>13. StreamIs(in, stream)
  BY <1>8, <1>12 DEF EventsInv, StreamIs
<1>14. RanksAre(reporter, in)
  <2>1. ToSet(ingress) \subseteq ToSet(in)
    BY <1>8
  <2>2. \A r \in Ranks : RankIs(r, reporter[r], ToSet(in))
    BY <2>1, RankKnowsMore DEF EventsInv, RanksAre
  <2> QED BY <2>2 DEF EventsInv, RanksAre
<1>15. CallsAre(request, reporter, in)
  <2>1. ASSUME NEW p \in Requests PROVE CallIs(request[p], reporter, in)
    <3>1. CallIs(request[p], reporter, ingress)
      BY DEF EventsInv, CallsAre
    <3> QED BY <1>8, <1>12, <3>1 DEF CallIs
  <2> QED BY <2>1 DEF EventsInv, CallsAre
<1>16. PICK c : c = [request[q] EXCEPT !.pc = "numbered", !.numbers = numbers]
  OBVIOUS
<1>17. /\ DOMAIN c = CallFields /\ c.pc = "numbered" /\ c.numbers = numbers /\ c.batch = b
       /\ c.from = request[q].from
  BY <1>1, <1>3, <1>16 DEF CallIs, CallFields
<1>18. CallIs(c, reporter, in)
  <2>1. c.from \in Ranks => reporter[c.from].sending = c.batch
    BY <1>1, <1>3, <1>17 DEF CallIs
  <2> QED BY <1>3, <1>8, <1>11, <1>17, <2>1 DEF CallIs
<1>19. ingress' = in /\ request' = [request EXCEPT ![q] = c]
  <2>1. Unnumbered(request[q].batch) = fresh
    BY <1>1, <1>2 DEF Unnumbered
  <2>2. request' = [request EXCEPT ![q].pc = "numbered", ![q].numbers = numbers]
    BY <1>7, <2>1 DEF NumberEvents
  <2>3. request' = [request EXCEPT ![q] = c]
    BY <1>16, <2>2 DEF EventsInv, CallsAre
  <2> QED BY <1>6, <2>1, <2>3 DEF NumberEvents
<1>20. CallsAre(request', reporter, in)
  <2>1. CallsAre([request EXCEPT ![q] = c], reporter, in)
    BY <1>15, <1>17, <1>18, CallSteps
  <2> QED BY <1>19, <2>1
<1>21. UNCHANGED <<reporter, stream, archive, archiver, client>>
  BY DEF NumberEvents
<1> QED BY <1>13, <1>14, <1>19, <1>20, <1>21 DEF EventsInv
LEMMA PublishKeeps ==
    ASSUME EventsInv, NEW q \in Requests, PublishEvents(q)
    PROVE  EventsInv'
<1>1. PICK numbers : numbers = request[q].numbers
  OBVIOUS
<1>2. PICK taken : taken = Those(numbers, {n \in ToSet(numbers) : Accepts(n, stream)})
  OBVIOUS
<1>3. request[q].pc = "numbered" /\ CallIs(request[q], reporter, ingress)
  BY DEF PublishEvents, EventsInv, CallsAre
<1>4. numbers \in Seq(Nat) /\ Rising(numbers) /\ ToSet(numbers) \subseteq 1..Len(ingress)
  BY <1>1, <1>3 DEF CallIs
<1>5. StreamIs(ingress, stream \o taken) /\ Grows(stream, stream \o taken)
  BY <1>2, <1>4, StreamGrows DEF EventsInv
<1>6. ArchiverIs(archiver, archive, stream \o taken) /\ ClientIs(client, stream \o taken)
  BY <1>5, ReadersStay DEF EventsInv
<1>7. /\ stream' = stream \o taken
      /\ IF taken = numbers
         THEN request' = [request EXCEPT ![q].pc = "published"] /\ UNCHANGED reporter
         ELSE EndsCall(q, "failed")
      /\ UNCHANGED <<ingress, archive, archiver, client>>
  BY <1>1, <1>2 DEF PublishEvents
<1>8. CallsAre(request', reporter', ingress) /\ RanksAre(reporter', ingress)
  <2>1. CASE taken = numbers
    <3>1. PICK c : c = [request[q] EXCEPT !.pc = "published"]
      OBVIOUS
    <3>2. /\ DOMAIN c = CallFields /\ c.pc = "published" /\ c.numbers = numbers /\ c.batch = request[q].batch
          /\ c.from = request[q].from
      BY <1>1, <1>3, <3>1 DEF CallIs, CallFields
    <3>3. CallIs(c, reporter, ingress)
      BY <1>1, <1>3, <3>2 DEF CallIs
    <3>4. request' = [request EXCEPT ![q] = c] /\ reporter' = reporter
      BY <1>7, <2>1, <3>1 DEF EventsInv, CallsAre
    <3>5. CallsAre([request EXCEPT ![q] = c], reporter, ingress)
      BY <3>2, <3>3, CallSteps DEF EventsInv
    <3> QED BY <3>4, <3>5 DEF EventsInv
  <2>2. CASE taken # numbers
    <3>1. EndsCall(q, "failed")
      BY <1>7, <2>2
    <3> QED BY <1>3, <3>1, CallEnds DEF EventsInv
  <2> QED BY <2>1, <2>2
<1> QED BY <1>5, <1>6, <1>7, <1>8 DEF EventsInv
LEMMA CallAnswerKeeps ==
    ASSUME EventsInv, NEW q \in Requests, AnswerCall(q)
    PROVE  EventsInv'
<1>1. request[q].pc = "published" /\ CallIs(request[q], reporter, ingress)
  BY DEF AnswerCall, EventsInv, CallsAre
<1>2. PICK outcome \in {"taken", "failed"} : EndsCall(q, outcome)
  BY DEF AnswerCall
<1>3. ToSet(request[q].batch) \subseteq ToSet(ingress)
  BY <1>1 DEF CallIs
<1>4. CallsAre(request', reporter', ingress) /\ RanksAre(reporter', ingress)
  BY <1>1, <1>2, <1>3, CallEnds DEF EventsInv
<1>5. UNCHANGED <<ingress, stream, archive, archiver, client>>
  BY DEF AnswerCall
<1> QED BY <1>4, <1>5 DEF EventsInv
LEMMA FailureKeeps ==
    ASSUME EventsInv, NEW q \in Requests, CallFails(q)
    PROVE  EventsInv'
<1>1. request[q].pc # "idle" /\ EndsCall(q, "failed")
  BY DEF CallFails
<1>2. CallsAre(request', reporter', ingress) /\ RanksAre(reporter', ingress)
  BY <1>1, CallEnds DEF EventsInv
<1>3. UNCHANGED <<ingress, stream, archive, archiver, client>>
  BY DEF CallFails
<1> QED BY <1>2, <1>3 DEF EventsInv
LEMMA TimeoutKeeps ==
    ASSUME EventsInv, NEW q \in Requests, TimesOut(q)
    PROVE  EventsInv'
<1>1. PICK r \in Ranks : r = request[q].from
  BY DEF TimesOut, Waits
<1>2. PICK me : me = reporter[r]
  OBVIOUS
<1>3. CallIs(request[q], reporter, ingress) /\ RankIs(r, me, ToSet(ingress))
  BY <1>2 DEF EventsInv, CallsAre, RanksAre
<1>4. request[q].pc # "idle" /\ me.sending = request[q].batch /\ me.sending \in Batches
  BY <1>1, <1>2, <1>3, EventsAssumption DEF CallIs
<1>5. PICK new : new = Logged(me)
  OBVIOUS
<1>6. RankIs(r, new, ToSet(ingress))
  BY <1>3, <1>4, <1>5, RankLogs
<1>7. PICK c : c = [request[q] EXCEPT !.from = NoRank]
  OBVIOUS
<1>8. /\ DOMAIN c = CallFields /\ c.from = NoRank /\ c.pc = request[q].pc /\ c.batch = request[q].batch
      /\ c.numbers = request[q].numbers
  BY <1>3, <1>7 DEF CallIs, CallFields
<1>9. \A x : (c.from \in Ranks => x[c.from].sending = c.batch) => CallIs(c, x, ingress)
  BY <1>3, <1>8, EventsAssumption DEF CallIs
<1>10. reporter' = [reporter EXCEPT ![r] = new] /\ request' = [request EXCEPT ![q] = c]
  BY <1>1, <1>2, <1>5, <1>7 DEF TimesOut, Report, EventsInv, CallsAre
<1>11. \A p \in Requests : p # q => request[p].from # r
  BY <1>1 DEF EventsInv, CallsAre
<1>12. CallsAre(request', reporter', ingress) /\ RanksAre(reporter', ingress)
  <2>1. c.from = NoRank \/ (c.from = r /\ new.sending = c.batch)
    BY <1>8
  <2>2. CallsAre([request EXCEPT ![q] = c], [reporter EXCEPT ![r] = new], ingress) /\ RanksAre([reporter EXCEPT ![r] = new], ingress)
    BY <1>6, <1>9, <1>11, <2>1, BothStep DEF EventsInv
  <2> QED BY <1>10, <2>2
<1>13. UNCHANGED <<ingress, stream, archive, archiver, client>>
  BY DEF TimesOut
<1> QED BY <1>12, <1>13 DEF EventsInv

(* The steps of the readers.                                                         *)
LEMMA ArchiverKeeps ==
    ASSUME EventsInv, ArchiverNext
    PROVE  EventsInv'
<1>1. ArchiverIs(archiver, archive, stream) /\ ToSet(stream) \subseteq Nat
  BY MembersOf DEF EventsInv, StreamIs
<1>2. UNCHANGED <<reporter, request, ingress, stream, client>>
  BY DEF ArchiverNext, ReadChunk, StoreChunk, MoveCursor, ArchiverDies
<1>3. ArchiverIs(archiver', archive', stream)
  <2>1. CASE ReadChunk
    <3>1. PICK rows : rows = Chunk(After(archiver.cursor))
      OBVIOUS
    <3>2. ReadsAfter(rows, archiver.cursor, stream)
      BY <2>1, <3>1, ChunkIsRead DEF EventsInv, ReadChunk
    <3>3. PICK a : a = [archiver EXCEPT !.pc = "read", !.rows = rows]
      OBVIOUS
    <3>4. DOMAIN a = {"pc", "cursor", "from", "rows"} /\ a.pc = "read" /\ a.rows = rows /\ a.cursor = archiver.cursor
      BY <1>1, <3>3 DEF ArchiverIs
    <3>5. archiver' = a /\ archive' = archive
      BY <2>1, <3>1, <3>3 DEF ReadChunk, Archiver
    <3>6. ArchiverIs(a, archive, stream)
      BY <1>1, <3>2, <3>4 DEF ArchiverIs
    <3> QED BY <3>5, <3>6
  <2>2. CASE StoreChunk
    <3>1. PICK a : a = [archiver EXCEPT !.pc = "stored"]
      OBVIOUS
    <3>2. DOMAIN a = {"pc", "cursor", "from", "rows"} /\ a.pc = "stored" /\ a.rows = archiver.rows /\ a.cursor = archiver.cursor
      BY <1>1, <3>1 DEF ArchiverIs
    <3>3. PICK chunks : chunks = archive \union {archiver.rows}
      OBVIOUS
    <3>4. archiver' = a /\ archive' = chunks /\ archiver.pc = "read"
      BY <2>2, <3>1, <3>3 DEF StoreChunk, Archiver
    <3>5. ArchiverIs(a, chunks, stream)
      BY <1>1, <3>2, <3>3, <3>4 DEF ArchiverIs
    <3> QED BY <3>4, <3>5
  <2>3. CASE MoveCursor
    <3>1. PICK a : a = [archiver EXCEPT !.pc = "idle", !.rows = <<>>, !.cursor = ChunkEnd(archiver.rows)]
      OBVIOUS
    <3>2. archiver' = a /\ archive' = archive /\ archiver.pc = "stored"
      BY <2>3, <3>1 DEF MoveCursor, Archiver
    <3>3. ArchiverIs(a, archive, stream)
      BY <1>1, <3>1, <3>2, CursorMoves
    <3> QED BY <3>2, <3>3
  <2>4. CASE ArchiverDies
    <3>1. PICK a : a = [archiver EXCEPT !.pc = "idle", !.rows = <<>>]
      OBVIOUS
    <3>2. DOMAIN a = {"pc", "cursor", "from", "rows"} /\ a.pc = "idle" /\ a.cursor = archiver.cursor
      BY <1>1, <3>1 DEF ArchiverIs
    <3>3. archiver' = a /\ archive' = archive
      BY <2>4, <3>1 DEF ArchiverDies, Archiver
    <3>4. ArchiverIs(a, archive, stream)
      BY <1>1, <3>2 DEF ArchiverIs
    <3> QED BY <3>3, <3>4
  <2> QED BY <2>1, <2>2, <2>3, <2>4 DEF ArchiverNext
<1> QED BY <1>2, <1>3 DEF EventsInv
LEMMA ClientKeeps ==
    ASSUME EventsInv, ClientNext
    PROVE  EventsInv'
<1>1. ClientIs(client, stream) /\ ToSet(stream) \subseteq Nat
  BY MembersOf DEF EventsInv, StreamIs
<1>2. UNCHANGED <<reporter, request, ingress, stream, archive, archiver>>
  BY DEF ClientNext, ReadRows, Yield, Reconnect
<1>3. ClientIs(client', stream)
  <2>1. CASE ReadRows
    <3>1. PICK rows : rows = Chunk(After(client.cursor))
      OBVIOUS
    <3>2. ReadsAfter(rows, client.cursor, stream) /\ client.cursor = client.acked
      BY <1>1, <2>1, <3>1, ChunkIsRead DEF EventsInv, ReadRows, ClientIs
    <3>3. PICK c : c = [client EXCEPT !.rows = rows]
      OBVIOUS
    <3>4. /\ DOMAIN c = {"cursor", "acked", "rows", "got"} /\ c.rows = rows /\ c.cursor = client.cursor
          /\ c.acked = client.acked /\ c.got = client.got
      BY <1>1, <3>3 DEF ClientIs
    <3>5. client' = c
      BY <2>1, <3>1, <3>3 DEF ReadRows
    <3>6. ClientIs(c, stream)
      BY <1>1, <3>2, <3>4 DEF ClientIs
    <3> QED BY <3>5, <3>6
  <2>2. CASE Yield
    <3>1. PICK c : c = [client EXCEPT !.cursor = IF @ > Head(client.rows) THEN @ ELSE Head(client.rows),
                                      !.acked = Head(client.rows),
                                      !.rows = Tail(@), !.got = Append(@, Head(client.rows))]
      OBVIOUS
    <3>2. client' = c /\ client.rows # <<>>
      BY <2>2, <3>1 DEF Yield
    <3>3. ClientIs(c, stream)
      BY <1>1, <3>1, <3>2, RowIsTaken
    <3> QED BY <3>2, <3>3
  <2>3. CASE Reconnect
    <3>1. PICK c : c = [client EXCEPT !.cursor = client.acked, !.rows = <<>>]
      OBVIOUS
    <3>2. /\ DOMAIN c = {"cursor", "acked", "rows", "got"} /\ c.rows = <<>> /\ c.cursor = client.acked
          /\ c.acked = client.acked /\ c.got = client.got
      BY <1>1, <3>1 DEF ClientIs
    <3>3. client' = c
      BY <2>3, <3>1 DEF Reconnect
    <3>4. ClientIs(c, stream)
      BY <1>1, <3>2 DEF ClientIs
    <3> QED BY <3>3, <3>4
  <2> QED BY <2>1, <2>2, <2>3 DEF ClientNext
<1> QED BY <1>2, <1>3 DEF EventsInv

LEMMA EventsStep ==
    ASSUME EventsInv, [EventsNext]_eventVars
    PROVE  EventsInv'
<1>1. CASE ReporterNext
  BY <1>1, EmitKeeps, FlushKeeps, ReplayKeeps, EndReplayKeeps, DeathKeeps DEF ReporterNext
<1>2. CASE IngestNext
  BY <1>2, NumberKeeps, PublishKeeps, CallAnswerKeeps, TimeoutKeeps, FailureKeeps DEF IngestNext
<1>3. CASE ArchiverNext
  BY <1>3, ArchiverKeeps
<1>4. CASE ClientNext
  BY <1>4, ClientKeeps
<1>5. CASE UNCHANGED eventVars
  <2>1. UNCHANGED <<reporter, request, ingress, stream, archive, archiver, client>>
    BY <1>5 DEF eventVars
  <2> QED BY <2>1 DEF EventsInv
<1> QED BY <1>1, <1>2, <1>3, <1>4, <1>5 DEF EventsNext

LEMMA NothingIsForgotten ==
    ASSUME EventsInv
    PROVE  NothingForgotten
<1> SUFFICES ASSUME NEW r \in Ranks, NEW n \in DOMAIN reporter[r].emitted, reporter[r].emitted[n]
             PROVE  Event(r, n, TRUE) \in Held(r) \union ToSet(ingress)
  BY DEF NothingForgotten
<1>1. PICK me : me = reporter[r]
  OBVIOUS
<1>2. RankIs(r, me, ToSet(ingress))
  BY <1>1 DEF EventsInv, RanksAre
<1>3. PICK queue, sending : queue = me.queue /\ sending = me.sending
  OBVIOUS
<1>4. queue \in Seq(Events) /\ sending \in Seq(Events)
  <2>1. queue \in Seq(Events)
    BY <1>2, <1>3 DEF RankIs, QueueSound
  <2>2. sending = <<>> \/ sending \in Batches
    BY <1>2, <1>3 DEF RankIs, LogSound
  <2>3. <<>> \in Seq(Events) /\ Batches \subseteq Seq(Events)
    BY DEF Batches
  <2> QED BY <2>1, <2>2, <2>3
<1>5. ToSet(queue \o sending) = ToSet(queue) \union ToSet(sending)
  BY <1>4, JoinedSet
<1>6. Held(r) = HeldBy(me)
  BY <1>1, <1>3, <1>5 DEF Held, HeldBy
<1>7. n \in 1..Len(me.emitted)
  BY <1>1, <1>2 DEF RankIs, QueueSound
<1> QED BY <1>1, <1>2, <1>6, <1>7 DEF RankIs, Recalled
LEMMA FollowersAreComplete ==
    ASSUME EventsInv
    PROVE  FollowersMissNothing
<1>1. StreamIs(ingress, stream) /\ ArchiverIs(archiver, archive, stream) /\ ClientIs(client, stream)
  BY DEF EventsInv
<1>2. \A m, n \in ToSet(stream) : ingress[m] = ingress[n] => m = n
  BY <1>1 DEF StreamIs, Unrepeated
<1>3. PICK S : S = {n \in ToSet(stream) : n <= client.acked}
  OBVIOUS
<1>4. client.got = Those(stream, S)
  <2>1. client.got \in Seq(Nat) /\ Rising(client.got) /\ ToSet(client.got) = S
    BY <1>1, <1>3 DEF ClientIs
  <2>2. Those(stream, S) \in Seq(Nat) /\ ToSet(Those(stream, S)) = ToSet(stream) \cap S
    BY <1>1, ThoseAre DEF StreamIs
  <2>3. Rising(Those(stream, S))
    BY <1>1, RisingKept DEF StreamIs
  <2>4. ToSet(stream) \cap S = S
    BY <1>3
  <2> QED BY <2>1, <2>2, <2>3, <2>4, RisingIsItsMembers
<1> QED BY <1>1, <1>2, <1>3, <1>4 DEF FollowersMissNothing, ArchiverIs

(* What is to be kept arrives, once and in order, whatever timed out, was refused or *)
(* overflowed and whoever died: a durable event is held until it is numbered, and    *)
(* the archive and the followers miss no entry below their cursors.                  *)
THEOREM EventsDoArrive == EventsSpec => []EventsArrive
<1>1. EventsInit => EventsInv
  BY EventsBegin
<1>2. EventsInv /\ [EventsNext]_eventVars => EventsInv'
  BY EventsStep
<1>3. EventsInv => EventsArrive
  BY NothingIsForgotten, FollowersAreComplete DEF EventsArrive
<1> QED BY <1>1, <1>2, <1>3, PTL DEF EventsSpec
==============================================================================
