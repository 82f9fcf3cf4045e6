--------------------------- MODULE SelectionProofs ---------------------------
(***************************************************************************)
(* Lemmas about selections from sequences: the positions of a sequence can *)
(* be counted through, what is selected are elements of it, each once, and *)
(* taking one position out keeps the others in order.                      *)
(***************************************************************************)
EXTENDS Selection, SequencesExt, FiniteSetTheorems, SequenceTheorems, TLAPS

\* The positions of a sequence are finitely many.
LEMMA IndexSetFinite ==
  ASSUME NEW n \in Nat
  PROVE  IsFiniteSet(1..n) /\ Cardinality(1..n) = n
<1>1. 1 \in Int /\ n \in Int
  OBVIOUS
<1> QED BY <1>1, FS_Interval

\* A finite set of positions has a k-th one: there are as many positions as ranks,
\* and no two have the same rank.
LEMMA NthExists ==
  ASSUME NEW n \in Nat, NEW I \in SUBSET (1..n), NEW k \in 1..Cardinality(I)
  PROVE  \E i \in I : Cardinality({j \in I : j <= i}) = k
<1> DEFINE Below(i) == {j \in I : j <= i}
           c == Cardinality(I)
           g == [i \in I |-> Cardinality(Below(i))]
<1>1. IsFiniteSet(I) /\ c \in Nat
  <2>1. 1 \in Int /\ n \in Int
    OBVIOUS
  <2>2. IsFiniteSet(1..n)
    BY <2>1, FS_Interval
  <2> QED BY <2>2, FS_Subset, FS_CardinalityType
<1>2. \A i \in I : Below(i) \in SUBSET I /\ i \in Below(i)
  OBVIOUS
<1>3. ASSUME NEW i \in I PROVE Cardinality(Below(i)) \in 1..c
  <2> HIDE DEF Below
  <2>1. IsFiniteSet(Below(i)) /\ Cardinality(Below(i)) <= c
    BY <1>1, <1>2, FS_Subset
  <2>2. Cardinality(Below(i)) \in Nat /\ Cardinality(Below(i)) # 0
    BY <2>1, <1>2, FS_CardinalityType, FS_EmptySet
  <2> QED BY <2>1, <2>2, <1>1
<1>4. ASSUME NEW a \in I, NEW b \in I, a < b PROVE g[a] # g[b]
  <2>0. a \in Int /\ b \in Int /\ a < b /\ \A j \in I : j \in Int
    BY <1>4
  <2>1. Below(a) \in SUBSET Below(b) /\ b \notin Below(a) /\ b \in Below(b)
    <3>1. \A j \in I : j <= a => j <= b
      BY <2>0
    <3>2. ~(b <= a) /\ b <= b
      BY <2>0
    <3> QED BY <3>1, <3>2
  <2>2. IsFiniteSet(Below(b))
    <3> HIDE DEF Below
    <3> QED BY <1>1, <1>2, FS_Subset
  <2> HIDE DEF Below
  <2>3. Cardinality(Below(b)) # Cardinality(Below(a))
    BY <2>1, <2>2, FS_Subset
  <2> QED BY <2>3
<1>5. g \in Injection(I, 1..c)
  <2>1. g \in [I -> 1..c]
    BY <1>3
  <2>2. \A a, b \in I : g[a] = g[b] => a = b
    <3> SUFFICES ASSUME NEW a \in I, NEW b \in I, a # b PROVE g[a] # g[b]
      OBVIOUS
    <3>1. a < b \/ b < a
      OBVIOUS
    <3> HIDE DEF g
    <3> QED BY <3>1, <1>4
  <2> HIDE DEF g, c
  <2> QED BY <2>1, <2>2 DEF Injection, IsInjective
<1>6. IsFiniteSet(1..c) /\ Cardinality(1..c) = c
  BY <1>1, FS_Interval
<1>7. g \in Surjection(I, 1..c)
  <2> HIDE DEF g
  <2> QED BY <1>5, <1>6, FS_Injection
<1>8. \E i \in I : g[i] = k
  <2> HIDE DEF g
  <2> QED BY <1>7 DEF Surjection
<1> QED BY <1>8

\* SelectAt takes elements of the sequence, each from one of the positions.
LEMMA SelectAtType ==
  ASSUME NEW S, NEW s \in Seq(S), NEW I \in SUBSET DOMAIN s
  PROVE  /\ SelectAt(s, I) \in Seq(S)
         /\ \A k \in DOMAIN SelectAt(s, I) : \E i \in I : SelectAt(s, I)[k] = s[i]
<1> DEFINE Nth(k) == CHOOSE i \in I : Cardinality({j \in I : j <= i}) = k
           c == Cardinality(I)
           u == [k \in 1..c |-> s[Nth(k)]]
<1>1. Len(s) \in Nat /\ DOMAIN s = 1..Len(s) /\ \A i \in 1..Len(s) : s[i] \in S
  BY LenProperties
<1>2. SelectAt(s, I) = u
  BY DEF SelectAt
<1>3. c \in Nat
  <2>1. IsFiniteSet(1..Len(s))
    BY <1>1, IndexSetFinite
  <2> QED BY <1>1, <2>1, FS_Subset, FS_CardinalityType
<1>4. \A k \in 1..c : Nth(k) \in I
  BY <1>1, NthExists
<1> HIDE DEF Nth, c
<1>5. u \in [1..c -> S]
  BY <1>1, <1>4
<1>6. u \in Seq(S)
  <2> HIDE DEF u
  <2> QED BY <1>3, <1>5, SeqDef
<1>7. \A k \in DOMAIN u : \E i \in I : u[k] = s[i]
  BY <1>4
<1> QED BY <1>2, <1>6, <1>7

\* The positions that SelectAt goes through are different, so what is selected from
\* a sequence without repetitions has none.
LEMMA SelectAtInjective ==
  ASSUME NEW S, NEW s \in Seq(S), NEW I \in SUBSET DOMAIN s,
         \A i, j \in DOMAIN s : s[i] = s[j] => i = j
  PROVE  \A a, b \in DOMAIN SelectAt(s, I) : SelectAt(s, I)[a] = SelectAt(s, I)[b] => a = b
<1> DEFINE Rank(i) == Cardinality({j \in I : j <= i})
           Nth(k) == CHOOSE i \in I : Rank(i) = k
           c == Cardinality(I)
<1>1. Len(s) \in Nat /\ DOMAIN s = 1..Len(s)
  BY LenProperties
<1>2. SelectAt(s, I) = [k \in 1..c |-> s[Nth(k)]]
  BY DEF SelectAt
<1> HIDE DEF Nth, c, Rank
<1>3. ASSUME NEW k \in 1..c PROVE Nth(k) \in I /\ Rank(Nth(k)) = k
  <2>1. \E i \in I : Rank(i) = k
    <3>1. I \in SUBSET (1..Len(s)) /\ k \in 1..Cardinality(I)
      BY <1>1 DEF c
    <3>2. \E i \in I : Cardinality({j \in I : j <= i}) = k
      BY <1>1, <3>1, NthExists
    <3> QED BY <3>2 DEF Rank
  <2> QED BY <2>1 DEF Nth
<1>4. \A a, b \in 1..c : Nth(a) = Nth(b) => a = b
  BY <1>3
<1> QED BY <1>2, <1>3, <1>4

\* What is left of a sequence behind its first n elements.
LEMMA RestProperties ==
  ASSUME NEW S, NEW s \in Seq(S), NEW n \in 0..Len(s)
  PROVE  /\ SubSeq(s, n + 1, Len(s)) \in Seq(S)
         /\ DOMAIN SubSeq(s, n + 1, Len(s)) = 1..(Len(s) - n)
         /\ \A i \in 1..(Len(s) - n) : SubSeq(s, n + 1, Len(s))[i] = s[n + i]
<1> DEFINE u == SubSeq(s, n + 1, Len(s))
<1>1. u \in Seq(S) /\ Len(u) = Len(s) - n
  OBVIOUS
<1>2. \A i \in 1..(Len(s) - n) : u[i] = s[n + i]
  OBVIOUS
<1> HIDE DEF u
<1>3. DOMAIN u = 1..(Len(s) - n)
  BY <1>1, LenProperties
<1> QED BY <1>1, <1>2, <1>3 DEF u

\* RemoveFirst takes one element out, if at all.
LEMMA RemoveFirstType ==
  ASSUME NEW S, NEW s \in Seq(S), NEW e
  PROVE  RemoveFirst(s, e) \in Seq(S)
<1> DEFINE I == {i \in 1..Len(s) : s[i] = e}
           i0 == Min(I)
<1>1. Len(s) \in Nat /\ DOMAIN s = 1..Len(s) /\ \A i \in 1..Len(s) : s[i] \in S
  BY LenProperties
<1>2. CASE I = {}
  BY <1>2 DEF RemoveFirst
<1>3. CASE I # {}
  <2>1. PICK i \in I : Cardinality({j \in I : j <= i}) = 1
    <3>1. IsFiniteSet(I) /\ Cardinality(I) \in Nat
      <4>1. IsFiniteSet(1..Len(s)) /\ I \subseteq 1..Len(s)
        BY <1>1, IndexSetFinite
      <4> HIDE DEF I
      <4> QED BY <4>1, FS_Subset, FS_CardinalityType
    <3>2. Cardinality(I) # 0
      <4> HIDE DEF I
      <4> QED BY <3>1, <1>3, FS_EmptySet
    <3>3. 1 \in 1..Cardinality(I) /\ I \in SUBSET (1..Len(s))
      BY <3>1, <3>2
    <3> HIDE DEF I
    <3> QED BY <1>1, <3>3, NthExists
  <2>2. \A j \in I : i <= j
    <3> SUFFICES ASSUME NEW j \in I, j < i PROVE FALSE
      OBVIOUS
    <3> DEFINE T == {m \in I : m <= i}
    <3>1. {i, j} \subseteq T
      OBVIOUS
    <3>2. IsFiniteSet(T)
      <4>1. IsFiniteSet(1..Len(s)) /\ T \subseteq 1..Len(s)
        BY <1>1, IndexSetFinite
      <4> HIDE DEF T
      <4> QED BY <4>1, FS_Subset
    <3>3. \E x : T = {x}
      <4> HIDE DEF T
      <4> QED BY <2>1, <3>2, FS_Singleton DEF T
    <3> QED BY <3>1, <3>3
  <2>3. i0 \in 1..Len(s)
    BY <2>2 DEF Min
  <2>4. RemoveFirst(s, e) = SubSeq(s, 1, i0 - 1) \o SubSeq(s, i0 + 1, Len(s))
    BY <1>3 DEF RemoveFirst, RemoveAt, SelectInSeq
  <2> HIDE DEF i0
  <2>5. SubSeq(s, 1, i0 - 1) \in Seq(S)
    BY <1>1, <2>3, SubSeqProperties
  <2>6. SubSeq(s, i0 + 1, Len(s)) \in Seq(S)
    BY <1>1, <2>3, SubSeqProperties
  <2> QED BY <2>4, <2>5, <2>6, ConcatProperties
<1> QED BY <1>2, <1>3

\* RemoveAt takes out one position and keeps the others in order.
LEMMA RemoveAtProperties ==
  ASSUME NEW S, NEW q \in Seq(S), NEW i \in 1..Len(q)
  PROVE  /\ RemoveAt(q, i) \in Seq(S)
         /\ Len(RemoveAt(q, i)) = Len(q) - 1
         /\ \A j \in 1..(Len(q) - 1) :
              RemoveAt(q, i)[j] = IF j < i THEN q[j] ELSE q[j + 1]
<1> DEFINE a == SubSeq(q, 1, i - 1)
           b == SubSeq(q, i + 1, Len(q))
<1>1. /\ a \in Seq(S) /\ Len(a) = i - 1
      /\ \A j \in 1..(i - 1) : a[j] = q[j]
  OBVIOUS
<1>2. /\ b \in Seq(S) /\ Len(b) = Len(q) - i
      /\ \A j \in 1..(Len(q) - i) : b[j] = q[i + j]
  OBVIOUS
<1>3. RemoveAt(q, i) = a \o b
  BY DEF RemoveAt
<1> HIDE DEF a, b
<1>4. /\ a \o b \in Seq(S) /\ Len(a \o b) = Len(a) + Len(b)
      /\ \A j \in 1..(Len(a) + Len(b)) :
           (a \o b)[j] = IF j <= Len(a) THEN a[j] ELSE b[j - Len(a)]
  BY <1>1, <1>2, ConcatProperties
<1>5. ASSUME NEW j \in 1..(Len(q) - 1)
      PROVE  (a \o b)[j] = IF j < i THEN q[j] ELSE q[j + 1]
  <2>1. CASE j < i
    BY <2>1, <1>1, <1>2, <1>4
  <2>2. CASE j >= i
    <3>1. j - Len(a) \in 1..(Len(q) - i) /\ j - Len(a) = j - i + 1
      BY <2>2, <1>1
    <3>2. b[j - i + 1] = q[i + (j - i + 1)]
      BY <3>1, <1>2
    <3> QED
      BY <2>2, <3>1, <3>2, <1>1, <1>2, <1>4
  <2>3. j < i \/ j >= i
    OBVIOUS
  <2> QED
    BY <2>1, <2>2, <2>3
<1> QED
  BY <1>1, <1>2, <1>3, <1>4, <1>5

=============================================================================
