--------------------------- MODULE NetworkProofs ---------------------------
(***************************************************************************)
(* Lemmas about the operators that the groups' models share: the sequences  *)
(* of module Network, FlattenSeq and IsPrefix.  Each is proved from the      *)
(* smallest counterexample, as no induction theorem can be instantiated.    *)
(***************************************************************************)
EXTENDS Network, SequencesExt, FiniteSetTheorems, SequenceTheorems, WellFoundedInduction, TLAPS

\* Every non-empty set of naturals has a least element.
LEMMA LeastNat ==
  ASSUME NEW S \in SUBSET Nat, S # {}
  PROVE  \E x \in S : \A y \in S : x <= y
<1>1. PICK x \in S : \A y \in S : ~(<<y, x>> \in OpToRel(<, Nat))
  BY NatLessThanWellFounded, WFMin
<1>2. \A y \in S : ~(y < x)
  BY <1>1 DEF OpToRel
<1> QED BY <1>2

----------------------------------------------------------------------------
(* Sequences and queues *)

\* A function on the first n positions is a sequence.
LEMMA FunctionIsSeq ==
  ASSUME NEW S, NEW n \in Nat, NEW f \in [1..n -> S]
  PROVE  f \in Seq(S) /\ Len(f) = n /\ DOMAIN f = 1..n
OBVIOUS

\* A sequence of one element.
LEMMA OneProperties ==
  ASSUME NEW S, NEW x \in S
  PROVE  <<x>> \in Seq(S) /\ \A j \in DOMAIN <<x>> : <<x>>[j] = x
<1>1. <<x>> \in Seq(S)
  OBVIOUS
<1>2. \A j \in DOMAIN <<x>> : j = 1
  OBVIOUS
<1> QED BY <1>1, <1>2

\* A queue stays one when messages are added and when its head is taken.
LEMMA QueueParts ==
  ASSUME NEW S, NEW q \in Seq(S), NEW out \in Seq(S)
  PROVE  /\ q \o out \in Seq(S)
         /\ q # <<>> => /\ Tail(q) \in Seq(S) /\ Tail(q) \o out \in Seq(S)
                        /\ Head(q) \in S /\ Head(q) \in InFlight(q)
<1>1. q \o out \in Seq(S)
  BY ConcatProperties
<1>2. CASE q # <<>>
  <2>1. Tail(q) \in Seq(S) /\ Head(q) \in S /\ Head(q) = q[1] /\ 1 \in DOMAIN q
    BY <1>2, HeadTailProperties, LenProperties, EmptySeq
  <2>2. Tail(q) \o out \in Seq(S)
    BY <2>1, ConcatProperties
  <2> QED BY <1>1, <2>1, <2>2 DEF InFlight
<1> QED BY <1>1, <1>2

\* In the queue q message a is delivered before message b.
Precedes(q, a, b) == \E u, v \in DOMAIN q : u < v /\ q[u] = a /\ q[v] = b

\* What is added to a queue comes after what is in it.
LEMMA ConcatOrder ==
  ASSUME NEW S, NEW q \in Seq(S), NEW out \in Seq(S)
  PROVE  /\ InFlight(q \o out) \subseteq InFlight(q) \cup InFlight(out)
         /\ \A a, b : Precedes(q \o out, a, b) =>
              \/ Precedes(q, a, b)
              \/ a \in InFlight(q) /\ b \in InFlight(out)
              \/ Precedes(out, a, b)
<1> DEFINE r == q \o out
<1>1. /\ r \in Seq(S) /\ Len(r) = Len(q) + Len(out)
      /\ \A j \in 1..Len(q) + Len(out) : r[j] = IF j <= Len(q) THEN q[j] ELSE out[j - Len(q)]
  BY ConcatProperties
<1>2. /\ Len(q) \in Nat /\ DOMAIN q = 1..Len(q) /\ Len(out) \in Nat /\ DOMAIN out = 1..Len(out)
      /\ DOMAIN r = 1..Len(q) + Len(out)
  BY <1>1, LenProperties
<1> HIDE DEF r
<1>3. ASSUME NEW x \in DOMAIN r
      PROVE  \/ x \in DOMAIN q /\ r[x] = q[x]
             \/ x - Len(q) \in DOMAIN out /\ r[x] = out[x - Len(q)] /\ x > Len(q)
  BY <1>1, <1>2
<1>4. InFlight(r) \subseteq InFlight(q) \cup InFlight(out)
  BY <1>3 DEF InFlight
<1>5. ASSUME NEW a, NEW b, Precedes(r, a, b)
      PROVE  \/ Precedes(q, a, b)
             \/ a \in InFlight(q) /\ b \in InFlight(out)
             \/ Precedes(out, a, b)
  <2>1. PICK x, y \in DOMAIN r : x < y /\ r[x] = a /\ r[y] = b
    BY <1>5 DEF Precedes
  <2>2. x \in Int /\ y \in Int
    BY <1>2
  <2>3. CASE y \in DOMAIN q /\ r[y] = q[y]
    <3>1. x \in DOMAIN q /\ r[x] = q[x]
      BY <1>1, <1>2, <2>1, <2>3
    <3> QED BY <2>1, <2>3, <3>1 DEF Precedes
  <2>4. CASE y - Len(q) \in DOMAIN out /\ r[y] = out[y - Len(q)] /\ y > Len(q)
    <3>1. CASE x \in DOMAIN q /\ r[x] = q[x]
      BY <2>1, <2>4, <3>1 DEF InFlight
    <3>2. CASE x - Len(q) \in DOMAIN out /\ r[x] = out[x - Len(q)]
      <4>1. x - Len(q) < y - Len(q)
        BY <1>2, <2>1, <2>2
      <4> QED BY <2>1, <2>4, <3>2, <4>1 DEF Precedes
    <3> QED BY <1>3, <3>1, <3>2
  <2> QED BY <1>3, <2>3, <2>4
<1> QED BY <1>4, <1>5 DEF r

\* The head is delivered before the rest, which keeps its order.
LEMMA TailOrder ==
  ASSUME NEW S, NEW q \in Seq(S), q # <<>>
  PROVE  /\ InFlight(Tail(q)) \subseteq InFlight(q)
         /\ \A b \in InFlight(Tail(q)) : Precedes(q, Head(q), b)
         /\ \A a, b : Precedes(Tail(q), a, b) => Precedes(q, a, b)
<1> DEFINE r == Tail(q)
<1>1. /\ r \in Seq(S) /\ Len(r) = Len(q) - 1 /\ Head(q) = q[1]
      /\ \A i \in 1..Len(r) : r[i] = q[i + 1]
  BY HeadTailProperties
<1>2. Len(q) \in Nat \ {0} /\ DOMAIN q = 1..Len(q) /\ DOMAIN r = 1..Len(r)
  BY <1>1, EmptySeq, LenProperties
<1> HIDE DEF r
<1>3. \A i \in DOMAIN r : i + 1 \in DOMAIN q /\ r[i] = q[i + 1] /\ 1 < i + 1 /\ i \in Int
  BY <1>1, <1>2
<1>4. 1 \in DOMAIN q
  BY <1>2
<1>5. InFlight(r) \subseteq InFlight(q)
  BY <1>3 DEF InFlight
<1>6. ASSUME NEW b \in InFlight(r) PROVE Precedes(q, Head(q), b)
  BY <1>1, <1>3, <1>4 DEF InFlight, Precedes
<1>7. ASSUME NEW a, NEW b, Precedes(r, a, b) PROVE Precedes(q, a, b)
  <2>1. PICK x, y \in DOMAIN r : x < y /\ r[x] = a /\ r[y] = b
    BY <1>7 DEF Precedes
  <2>2. x + 1 < y + 1
    BY <1>3, <2>1
  <2> QED BY <1>3, <2>1, <2>2 DEF Precedes
<1> QED BY <1>5, <1>6, <1>7 DEF r

----------------------------------------------------------------------------
(* Kept *)

\* How many positions of I are not after i.
Rank(I, i) == Cardinality({h \in I : h <= i})

\* A set of positions is finite.
LEMMA PositionsAreFinite ==
  ASSUME NEW n \in Nat, NEW I \in SUBSET (1..n)
  PROVE  IsFiniteSet(I) /\ Cardinality(I) \in Nat
<1>1. IsFiniteSet(1..n)
  BY FS_Interval
<1>2. IsFiniteSet(I)
  BY <1>1, FS_Subset
<1> QED BY <1>2, FS_CardinalityType

\* Every rank is that of a position.
Ranked(n) ==
  \A I \in SUBSET (1..n) : \A j \in 1..Cardinality(I) : \E i \in I : Rank(I, i) = j

\* Positions up to n are ranked if those up to n - 1 are.
LEMMA RankedStep ==
  ASSUME NEW n \in Nat \ {0}, Ranked(n - 1)
  PROVE  Ranked(n)
<1> SUFFICES ASSUME NEW I \in SUBSET (1..n), NEW j \in 1..Cardinality(I)
             PROVE  \E i \in I : Rank(I, i) = j
  BY DEF Ranked
<1>1. IsFiniteSet(I) /\ Cardinality(I) \in Nat
  BY PositionsAreFinite
<1>2. CASE n \notin I
  <2>1. I \in SUBSET (1..n - 1)
    BY <1>2
  <2> QED BY <2>1 DEF Ranked
<1>3. CASE n \in I
  <2> DEFINE J == I \ {n}
  <2>1. J \in SUBSET (1..n - 1)
    OBVIOUS
  <2>2. Cardinality(J) = Cardinality(I) - 1
    BY <1>1, <1>3, FS_RemoveElement
  <2>3. CASE j = Cardinality(I)
    <3>1. \A h \in I : h <= n
      OBVIOUS
    <3>2. {h \in I : h <= n} = I
      BY <3>1
    <3> QED BY <1>3, <2>3, <3>2 DEF Rank
  <2>4. CASE j # Cardinality(I)
    <3>1. j \in 1..Cardinality(J)
      BY <1>1, <2>2, <2>4
    <3>2. PICK i \in J : Rank(J, i) = j
      BY <2>1, <3>1 DEF Ranked
    <3>3. {h \in I : h <= i} = {h \in J : h <= i}
      BY <2>1
    <3> QED BY <3>2, <3>3 DEF Rank
  <2> QED BY <2>3, <2>4
<1> QED BY <1>2, <1>3

\* So all are.
LEMMA RankedAlways == \A n \in Nat : Ranked(n)
<1> SUFFICES ASSUME NEW m \in Nat, ~Ranked(m) PROVE FALSE
  OBVIOUS
<1> DEFINE Bad == {n \in Nat : ~Ranked(n)}
<1>1. PICK n \in Bad : \A y \in Bad : n <= y
  <2>1. Bad # {} /\ Bad \in SUBSET Nat
    OBVIOUS
  <2> HIDE DEF Bad
  <2> QED BY <2>1, LeastNat
<1>2. CASE n = 0
  <2>1. \A I \in SUBSET (1..0) : I = {}
    OBVIOUS
  <2> QED BY <1>1, <1>2, <2>1, FS_EmptySet DEF Ranked
<1>3. CASE n # 0
  <2>1. n - 1 \in Nat /\ n - 1 \notin Bad
    BY <1>1, <1>3
  <2> QED BY <1>1, <1>3, <2>1, RankedStep
<1> QED BY <1>2, <1>3

\* What is kept of a sequence is a sequence of its elements at the positions.
LEMMA KeptProperties ==
  ASSUME NEW S, NEW s \in Seq(S), NEW I \in SUBSET DOMAIN s
  PROVE  /\ Kept(s, I) \in Seq(S)
         /\ DOMAIN Kept(s, I) = 1..Cardinality(I)
         /\ \A j \in DOMAIN Kept(s, I) : \E i \in I : Kept(s, I)[j] = s[i]
<1>1. Len(s) \in Nat /\ DOMAIN s = 1..Len(s) /\ \A i \in DOMAIN s : s[i] \in S
  BY LenProperties, ElementOfSeq
<1>2. Cardinality(I) \in Nat
  BY <1>1, PositionsAreFinite
<1> DEFINE at(j) == CHOOSE i \in I : Rank(I, i) = j
<1>3. \A j \in 1..Cardinality(I) : at(j) \in I
  BY <1>1, RankedAlways DEF Ranked
<1>4. Kept(s, I) = [j \in 1..Cardinality(I) |-> s[at(j)]]
  BY DEF Kept, Rank
<1> HIDE DEF at
<1>5. Kept(s, I) \in [1..Cardinality(I) -> S]
  BY <1>1, <1>3, <1>4
<1> QED BY <1>2, <1>3, <1>4, <1>5

\* The elements at the first m positions are those.
LEMMA KeptPrefix ==
  ASSUME NEW S, NEW s \in Seq(S), NEW m \in Nat, m <= Len(s)
  PROVE  /\ Kept(s, 1..m) \in Seq(S) /\ Len(Kept(s, 1..m)) = m
         /\ \A j \in 1..m : Kept(s, 1..m)[j] = s[j]
<1>0. Len(s) \in Nat /\ DOMAIN s = 1..Len(s)
  BY LenProperties
<1>1. Cardinality(1..m) = m
  BY FS_Interval
<1>2. ASSUME NEW i \in 1..m PROVE Cardinality({h \in 1..m : h <= i}) = i
  <2>1. {h \in 1..m : h <= i} = 1..i
    OBVIOUS
  <2>2. Cardinality(1..i) = i
    BY FS_Interval
  <2> QED BY <2>1, <2>2
<1>3. ASSUME NEW j \in 1..m
      PROVE  (CHOOSE i \in 1..m : Cardinality({h \in 1..m : h <= i}) = j) = j
  BY <1>2
<1>4. Kept(s, 1..m) = [j \in 1..m |-> s[j]]
  <2> DEFINE at(j) == CHOOSE i \in 1..m : Cardinality({h \in 1..m : h <= i}) = j
  <2>1. Kept(s, 1..m) = [j \in 1..m |-> s[at(j)]]
    BY <1>1 DEF Kept
  <2>2. \A j \in 1..m : at(j) = j
    BY <1>3
  <2> HIDE DEF at
  <2> QED BY <2>1, <2>2
<1>5. 1..m \in SUBSET DOMAIN s
  BY <1>0
<1>6. Kept(s, 1..m) \in Seq(S)
  BY <1>5, KeptProperties
<1> QED BY <1>4, <1>6, LenProperties

\* The positions of s after m.
After(s, m) == {k \in DOMAIN s : k > m}

\* The elements at the positions after m are the rest of the sequence.
LEMMA KeptSuffix ==
  ASSUME NEW S, NEW s \in Seq(S), NEW m \in Nat, m <= Len(s)
  PROVE  /\ Kept(s, After(s, m)) \in Seq(S) /\ Len(Kept(s, After(s, m))) = Len(s) - m
         /\ \A j \in 1..Len(s) - m : Kept(s, After(s, m))[j] = s[m + j]
<1> DEFINE n == Len(s)
           c == n - m
           I == After(s, m)
           r == Kept(s, I)
<1>0. n \in Nat /\ c \in Nat /\ I = m + 1..n /\ m <= n /\ c = n - m /\ r = Kept(s, I) /\ n = Len(s)
  BY LenProperties DEF After
<1> HIDE DEF n, c, I, r
<1>1. \A i \in Nat : m <= i => Cardinality(m + 1..i) = i - m
  <2> SUFFICES ASSUME NEW i \in Nat, m <= i PROVE Cardinality(m + 1..i) = i - m
    OBVIOUS
  <2>1. PICK low \in Int : low = m + 1
    OBVIOUS
  <2>2. Cardinality(low..i) = IF low > i THEN 0 ELSE i - low + 1
    BY <2>1, FS_Interval
  <2> QED BY <2>1, <2>2
<1>2. ASSUME NEW i \in I PROVE Cardinality({h \in I : h <= i}) = i - m
  <2>1. {h \in I : h <= i} = m + 1..i /\ i \in Nat /\ m <= i
    BY <1>0
  <2> QED BY <1>1, <2>1
<1>3. ASSUME NEW j \in 1..c
      PROVE  (CHOOSE i \in I : Cardinality({h \in I : h <= i}) = j) = m + j
  <2>1. m + j \in I /\ \A i \in I : i - m = j <=> i = m + j
    BY <1>0
  <2> QED BY <1>2, <2>1
<1>4. r = [j \in 1..c |-> s[m + j]]
  <2> DEFINE at(j) == CHOOSE i \in I : Cardinality({h \in I : h <= i}) = j
  <2>1. Cardinality(I) = c
    BY <1>0, <1>1
  <2>2. r = [j \in 1..c |-> s[at(j)]]
    BY <1>0, <2>1 DEF Kept
  <2>3. \A j \in 1..c : at(j) = m + j
    BY <1>3
  <2> HIDE DEF at
  <2> QED BY <2>2, <2>3
<1>5. I \in SUBSET DOMAIN s
  BY <1>0, LenProperties
<1>6. r \in Seq(S)
  BY <1>0, <1>5, KeptProperties
<1>7. DOMAIN r = 1..c /\ \A j \in 1..c : r[j] = s[m + j]
  BY <1>4
<1>8. Len(r) = c
  BY <1>0, <1>6, <1>7, LenProperties
<1> QED BY <1>0, <1>6, <1>7, <1>8 DEF I

\* What is sent of the messages ms are some of them.
LEMMA WiredProperties ==
  ASSUME NEW S, NEW ms \in Seq(S), NEW cut
  PROVE  /\ Wired(ms, cut) \in Seq(S)
         /\ \A j \in DOMAIN Wired(ms, cut) : \E i \in DOMAIN ms : Wired(ms, cut)[j] = ms[i]
<1> DEFINE I == {k \in DOMAIN ms : <<ms[k].src, ms[k].dst>> \notin cut}
<1>1. I \in SUBSET DOMAIN ms /\ Wired(ms, cut) = Kept(ms, I)
  BY DEF Wired
<1> HIDE DEF I
<1> QED BY <1>1, KeptProperties

\* The nodes of a set, in order, are nodes of the set.
LEMMA NodesInOrderProperties ==
  ASSUME N \in Nat, NEW S \in SUBSET Node
  PROVE  NodesInOrder(S) \in Seq(S)
<1> DEFINE ids == [i \in Node |-> i]
<1>1. ids \in Seq(Node) /\ DOMAIN ids = Node /\ \A i \in Node : ids[i] = i
  BY DEF Node
<1> HIDE DEF ids
<1>2. Kept(ids, S) \in Seq(Node)
      /\ \A j \in DOMAIN Kept(ids, S) : \E i \in S : Kept(ids, S)[j] = ids[i]
  BY <1>1, KeptProperties
<1>3. \A j \in DOMAIN Kept(ids, S) : Kept(ids, S)[j] \in S
  BY <1>1, <1>2
<1>4. NodesInOrder(S) = Kept(ids, S)
  BY DEF NodesInOrder, ids
<1>5. Kept(ids, S) \in [1..Len(Kept(ids, S)) -> S] /\ Len(Kept(ids, S)) \in Nat
  BY <1>2, <1>3, LenProperties
<1> QED BY <1>4, <1>5

----------------------------------------------------------------------------
(* FlattenSeq *)

\* f is the sequence of the concatenations of the first of the sequences ss.
Flattens(f, ss, m) == f = [i \in 1..m |-> IF i = 1 THEN ss[i] ELSE f[i - 1] \o ss[i]]

\* There is such a sequence.
LEMMA FlattensExists == ASSUME NEW ss, NEW n \in Nat PROVE \E f : Flattens(f, ss, n)
<1> DEFINE Bad == {m \in Nat : ~\E f : Flattens(f, ss, m)}
<1> SUFFICES ASSUME Bad # {} PROVE FALSE
  OBVIOUS
<1>1. PICK m \in Bad : \A y \in Bad : m <= y
  <2>1. Bad \in SUBSET Nat
    OBVIOUS
  <2> HIDE DEF Bad
  <2> QED BY <2>1, LeastNat
<1>2. m \in Nat /\ \A f : ~Flattens(f, ss, m)
  BY <1>1
<1>3. CASE m = 0
  <2> DEFINE f == [i \in 1..0 |-> ss[i]]
  <2>1. f = [i \in 1..0 |-> IF i = 1 THEN ss[i] ELSE f[i - 1] \o ss[i]]
    OBVIOUS
  <2> QED BY <1>2, <1>3, <2>1 DEF Flattens
<1>4. CASE m # 0
  <2>1. m - 1 \in Nat /\ m - 1 \notin Bad
    BY <1>1, <1>4
  <2>2. PICK f : Flattens(f, ss, m - 1)
    BY <2>1
  <2> DEFINE g == [i \in 1..m |-> IF i = 1 THEN ss[i] ELSE f[i - 1] \o ss[i]]
  <2>3. \A i \in 1..m - 1 : f[i] = IF i = 1 THEN ss[i] ELSE f[i - 1] \o ss[i]
    BY <2>1, <2>2 DEF Flattens
  <2>4. \A i \in 1..m - 1 : f[i] = g[i]
    BY <1>2, <2>3
  <2>5. \A i \in 1..m : i # 1 => i - 1 \in 1..m - 1
    BY <1>2
  <2>6. \A i \in 1..m : g[i] = IF i = 1 THEN ss[i] ELSE g[i - 1] \o ss[i]
    BY <2>4, <2>5
  <2>7. g = [i \in 1..m |-> g[i]]
    OBVIOUS
  <2> HIDE DEF g
  <2>8. g = [i \in 1..m |-> IF i = 1 THEN ss[i] ELSE g[i - 1] \o ss[i]]
    BY <2>6, <2>7
  <2> QED BY <1>2, <2>8 DEF Flattens
<1> QED BY <1>3, <1>4

\* The elements of r are elements of the sequences ss.
Gathers(r, ss, S) ==
  r \in Seq(S) /\ \A j \in DOMAIN r : \E i \in DOMAIN ss : \E k \in DOMAIN ss[i] : r[j] = ss[i][k]

\* Every concatenation gathers elements.
LEMMA FlattensGathers ==
  ASSUME NEW S, NEW ss \in Seq(Seq(S)), NEW f, Flattens(f, ss, Len(ss)), NEW n \in 1..Len(ss)
  PROVE  Gathers(f[n], ss, S)
<1>0. Len(ss) \in Nat /\ DOMAIN ss = 1..Len(ss) /\ \A i \in DOMAIN ss : ss[i] \in Seq(S)
  BY LenProperties, ElementOfSeq
<1> DEFINE Bad == {m \in 1..Len(ss) : ~Gathers(f[m], ss, S)}
<1> SUFFICES ASSUME Bad # {} PROVE FALSE
  OBVIOUS
<1>1. PICK m \in Bad : \A y \in Bad : m <= y
  <2>1. Bad \in SUBSET Nat
    BY <1>0
  <2> HIDE DEF Bad
  <2> QED BY <2>1, LeastNat
<1>2. m \in 1..Len(ss) /\ ~Gathers(f[m], ss, S) /\ ss[m] \in Seq(S)
  BY <1>0, <1>1
<1>3. Gathers(ss[m], ss, S)
  BY <1>0, <1>2 DEF Gathers
<1>4. f[m] = IF m = 1 THEN ss[m] ELSE f[m - 1] \o ss[m]
  BY <1>2 DEF Flattens
<1>5. m # 1
  BY <1>2, <1>3, <1>4
<1>6. Gathers(f[m - 1], ss, S)
  <2>1. m - 1 \in 1..Len(ss) /\ m - 1 \notin Bad
    BY <1>0, <1>1, <1>2, <1>5
  <2> QED BY <2>1
<1>7. PICK a \in Seq(S), b \in Seq(S) : a = f[m - 1] /\ b = ss[m] /\ Gathers(a, ss, S) /\ Gathers(b, ss, S)
  BY <1>2, <1>3, <1>6 DEF Gathers
<1>8. Gathers(a \o b, ss, S)
  <2>1. /\ a \o b \in Seq(S) /\ Len(a \o b) = Len(a) + Len(b)
        /\ \A j \in 1..Len(a) + Len(b) : (a \o b)[j] = IF j <= Len(a) THEN a[j] ELSE b[j - Len(a)]
    BY ConcatProperties
  <2>2. /\ Len(a) \in Nat /\ DOMAIN a = 1..Len(a) /\ Len(b) \in Nat /\ DOMAIN b = 1..Len(b)
        /\ DOMAIN (a \o b) = 1..Len(a) + Len(b)
    BY <2>1, LenProperties
  <2>3. ASSUME NEW j \in DOMAIN (a \o b)
        PROVE  \E i \in DOMAIN ss : \E k \in DOMAIN ss[i] : (a \o b)[j] = ss[i][k]
    <3>1. CASE j <= Len(a)
      <4>1. j \in DOMAIN a /\ (a \o b)[j] = a[j]
        BY <2>1, <2>2, <2>3, <3>1
      <4> QED BY <1>7, <4>1 DEF Gathers
    <3>2. CASE ~(j <= Len(a))
      <4>1. j - Len(a) \in DOMAIN b /\ (a \o b)[j] = b[j - Len(a)]
        BY <2>1, <2>2, <2>3, <3>2
      <4> QED BY <1>7, <4>1 DEF Gathers
    <3> QED BY <3>1, <3>2
  <2> QED BY <2>1, <2>3 DEF Gathers
<1> QED BY <1>2, <1>4, <1>5, <1>7, <1>8

\* So FlattenSeq does.
LEMMA FlattenProperties ==
  ASSUME NEW S, NEW ss \in Seq(Seq(S))
  PROVE  Gathers(FlattenSeq(ss), ss, S)
<1>0. Len(ss) \in Nat
  BY LenProperties
<1>1. CASE Len(ss) = 0
  <2>1. FlattenSeq(ss) = ss /\ ss = <<>>
    BY <1>1, EmptySeq DEF FlattenSeq
  <2> QED BY <2>1 DEF Gathers
<1>2. CASE Len(ss) # 0
  <2> DEFINE f == CHOOSE f : Flattens(f, ss, Len(ss))
  <2>1. FlattenSeq(ss) = f[Len(ss)]
    BY <1>2 DEF FlattenSeq, Flattens
  <2>2. Flattens(f, ss, Len(ss))
    BY <1>0, FlattensExists
  <2> HIDE DEF f
  <2> QED BY <1>0, <1>2, <2>1, <2>2, FlattensGathers
<1> QED BY <1>1, <1>2

----------------------------------------------------------------------------
(* Prefixes *)

\* The sequence s has x at position l.
Has(s, l, x) == l \in 1..Len(s) /\ s[l] = x

\* s is a prefix of t.
Begins(s, t) == Len(s) <= Len(t) /\ \A k \in 1..Len(s) : s[k] = t[k]

\* A prefix stays one when the longer sequence grows, and every sequence is
\* a prefix of itself and of what is appended to it.
LEMMA BeginsProperties ==
  ASSUME NEW S, NEW s \in Seq(S), NEW r \in S
  PROVE  /\ Begins(s, s) /\ Begins(s, Append(s, r))
         /\ Append(s, r) \in Seq(S) /\ Len(Append(s, r)) = Len(s) + 1
         /\ Append(s, r)[Len(s) + 1] = r /\ Len(s) \in Nat
<1>1. Len(s) \in Nat
  BY LenProperties
<1> QED BY <1>1, AppendProperties DEF Begins

\* What has an element at a position still has it when it grows.
LEMMA HasBegins ==
  ASSUME NEW s, NEW t, Len(s) \in Nat, Len(t) \in Nat, Begins(s, t)
  PROVE  /\ \A l, r : Has(s, l, r) => Has(t, l, r)
         /\ \A u : Len(u) \in Nat /\ Begins(u, s) => Begins(u, t)
BY DEF Has, Begins

\* Begins is the library's IsPrefix.
LEMMA PrefixProperties ==
  ASSUME NEW S, NEW s \in Seq(S), NEW t \in Seq(S)
  PROVE  IsPrefix(s, t) <=> Begins(s, t)
<1>0. /\ Len(s) \in Nat /\ Len(t) \in Nat /\ DOMAIN s = 1..Len(s) /\ DOMAIN t = 1..Len(t)
      /\ \A k \in 1..Len(t) : t[k] \in S
  BY LenProperties, ElementOfSeq
<1> SUFFICES ASSUME Len(s) <= Len(t)
             PROVE  SubSeq(s, 1, Len(s)) = SubSeq(t, 1, Len(s)) <=>
                    \A k \in 1..Len(s) : s[k] = t[k]
  BY DEF IsPrefix, Begins
<1>1. SubSeq(s, 1, Len(s)) = s
  BY <1>0, SubSeqFull
<1> DEFINE r == SubSeq(t, 1, Len(s))
<1>2. r = [k \in 1..Len(s) |-> t[k]]
  BY <1>0
<1>3. s = [k \in 1..Len(s) |-> s[k]]
  BY <1>0
<1> HIDE DEF r
<1> QED BY <1>1, <1>2, <1>3 DEF r

----------------------------------------------------------------------------
(* Deques *)

\* d is the end of the sequence kept, with r added.
TakesEnd(d, kept, r) ==
  \A j \in DOMAIN d :
    LET at == Len(kept) + 1 - Len(d) + j
    IN  at \in 1..Len(kept) + 1 /\ d[j] = IF at = Len(kept) + 1 THEN r ELSE kept[at]

\* A deque of the given size, when the last of the elements s has been added.
Deque(s, size) == SubSeq(s, IF Len(s) > size THEN 2 ELSE 1, Len(s))

\* The deque keeps the end of what is put into it.
LEMMA DequeProperties ==
  ASSUME NEW S, NEW size \in Nat \ {0}, NEW kept \in Seq(S), Len(kept) <= size, NEW r \in S,
         NEW d, d = Deque(Append(kept, r), size)
  PROVE  /\ d \in Seq(S) /\ Len(d) <= size
         /\ r \in InFlight(d) /\ InFlight(d) \subseteq InFlight(kept) \cup {r}
         /\ TakesEnd(d, kept, r)
<1> DEFINE all == Append(kept, r)
           from == IF Len(all) > size THEN 2 ELSE 1
<1>0. size \in Nat \ {0} /\ Len(kept) \in Nat
  BY LenProperties
<1>1. /\ all \in Seq(S) /\ Len(all) = Len(kept) + 1
      /\ \A j \in 1..Len(kept) : all[j] = kept[j]
      /\ all[Len(kept) + 1] = r
      /\ \A j \in 1..Len(kept) + 1 : all[j] \in S
  BY <1>0, AppendProperties, ElementOfSeq
<1> HIDE DEF all
<1>2. from \in 1..Len(kept) + 1
  BY <1>0, <1>1
<1>3. /\ SubSeq(all, from, Len(all)) \in Seq(S)
      /\ Len(SubSeq(all, from, Len(all))) = Len(all) - from + 1
      /\ \A j \in 1..Len(all) - from + 1 : SubSeq(all, from, Len(all))[j] = all[from + j - 1]
  <2> HIDE DEF from
  <2>1. \A j \in from..Len(all) : all[j] \in S
    BY <1>0, <1>1, <1>2
  <2> QED BY <1>0, <1>1, <1>2, <2>1, SubSeqProperties
<1> DEFINE kept2 == SubSeq(all, from, Len(all))
<1>4. d = kept2
  BY DEF Deque, all
<1>5. kept2 \in Seq(S) /\ Len(kept2) = Len(all) - from + 1 /\ DOMAIN kept2 = 1..Len(all) - from + 1
      /\ \A j \in 1..Len(all) - from + 1 : kept2[j] = all[from + j - 1]
  BY <1>3, LenProperties
<1> HIDE DEF kept2
<1>6. Len(kept2) <= size
  BY <1>0, <1>1, <1>5
<1> HIDE DEF from
<1>7. r \in InFlight(kept2)
  <2>1. Len(all) - from + 1 \in DOMAIN kept2 /\ from + (Len(all) - from + 1) - 1 = Len(kept) + 1
    BY <1>0, <1>1, <1>2, <1>5
  <2> QED BY <1>1, <1>5, <2>1 DEF InFlight
<1>8. ASSUME NEW j \in DOMAIN kept2
      PROVE  /\ from + j - 1 \in 1..Len(kept) + 1 /\ kept2[j] = all[from + j - 1]
             /\ Len(kept) + 1 - Len(kept2) + j = from + j - 1
  <2>1. j \in 1..Len(all) - from + 1 /\ kept2[j] = all[from + j - 1]
    BY <1>5
  <2>2. from + j - 1 \in 1..Len(kept) + 1
    BY <1>0, <1>1, <1>2, <2>1
  <2>3. Len(kept) + 1 - Len(kept2) + j = from + j - 1
    BY <1>0, <1>1, <1>2, <1>5, <2>1
  <2> QED BY <2>1, <2>2, <2>3
<1>9. InFlight(kept2) \subseteq InFlight(kept) \cup {r}
  <2>1. DOMAIN kept = 1..Len(kept)
    BY LenProperties
  <2>2. \A j \in DOMAIN kept2 : kept2[j] \in InFlight(kept) \cup {r}
    BY <1>0, <1>1, <1>8, <2>1 DEF InFlight
  <2> QED BY <2>2 DEF InFlight
<1>10. TakesEnd(kept2, kept, r)
  BY <1>0, <1>1, <1>8 DEF TakesEnd
<1> QED BY <1>4, <1>5, <1>6, <1>7, <1>9, <1>10

=============================================================================
