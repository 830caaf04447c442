--------------------------- MODULE SequenceLemmas ---------------------------
(***************************************************************************)
(* What the operators on queues and lists do to the set of their elements, *)
(* and when a list holds nothing twice.  The proofs about the models cite  *)
(* these facts instead of the definitions of Sequences and SequencesExt.   *)
(***************************************************************************)
EXTENDS Integers, FiniteSets, Sequences, SequencesExt, Selection, FiniteSetTheorems,
        WellFoundedInduction, TLAPS

-----------------------------------------------------------------------------
(* Sequences of elements of a set.                                         *)

\* A set of indices has a least element.
LEMMA LeastIndex ==
    ASSUME NEW I \in SUBSET Nat, I # {}
    PROVE  Min(I) \in I /\ \A m \in I : Min(I) <= m
<1> DEFINE Less == {p \in Nat \X Nat : p[1] < p[2]}
<1>1. IsWellFoundedOn(Less, Nat)
  <2>1. Less = OpToRel(<, Nat)
    BY DEF OpToRel
  <2> QED
    BY <2>1, NatLessThanWellFounded
<1>2. PICK n \in I : \A m \in I : ~ (<<m, n>> \in Less)
  <2> HIDE DEF Less
  <2> QED
    BY <1>1, WFMin
<1>3. ASSUME NEW m \in I, m < n PROVE FALSE
  <2>1. <<m, n>> \in Nat \X Nat /\ <<m, n>>[1] < <<m, n>>[2]
    BY <1>3
  <2> QED
    BY <1>2, <2>1
<1>4. \A m \in I : n <= m
  BY <1>3
<1> QED
  BY <1>4 DEF Min

LEMMA Prepend ==
    ASSUME NEW S, NEW e \in S, NEW s \in Seq(S)
    PROVE  <<e>> \o s \in Seq(S)
OBVIOUS

LEMMA Concat ==
    ASSUME NEW S, NEW s \in Seq(S), NEW t \in Seq(S)
    PROVE  s \o t \in Seq(S)
OBVIOUS

-----------------------------------------------------------------------------
(* The elements of a sequence.                                             *)

LEMMA ElementsOf ==
    ASSUME NEW S, NEW s \in Seq(S)
    PROVE  /\ ToSet(s) \subseteq S
           /\ \A i \in 1..Len(s) : s[i] \in ToSet(s)
           /\ \A e \in ToSet(s) : \E i \in 1..Len(s) : s[i] = e
           /\ \A e : Contains(s, e) <=> e \in ToSet(s)
           /\ (ToSet(s) = {}) <=> (s = <<>>)
BY DEF ToSet, Contains

LEMMA ElementsOfEmpty == ToSet(<<>>) = {}
BY DEF ToSet

LEMMA ElementsOfOne == ASSUME NEW e PROVE ToSet(<<e>>) = {e}
BY DEF ToSet

LEMMA ElementsOfTail ==
    ASSUME NEW S, NEW s \in Seq(S), s # <<>>
    PROVE  /\ Head(s) \in S /\ Tail(s) \in Seq(S)
           /\ ToSet(s) = {Head(s)} \cup ToSet(Tail(s))
<1>1. /\ Len(Tail(s)) = Len(s) - 1 /\ Len(s) \in Nat /\ Len(s) >= 1
      /\ \A i \in 1..Len(Tail(s)) : Tail(s)[i] = s[i + 1]
      /\ Head(s) = s[1] /\ DOMAIN s = 1..Len(s) /\ DOMAIN Tail(s) = 1..Len(Tail(s))
  OBVIOUS
<1>2. ASSUME NEW i \in 1..Len(s) PROVE s[i] \in {Head(s)} \cup ToSet(Tail(s))
  <2>1. CASE i = 1
    BY <1>1, <2>1
  <2>2. CASE i # 1
    <3>1. i - 1 \in 1..Len(Tail(s)) /\ Tail(s)[i - 1] = s[i]
      BY <1>1, <2>2
    <3> QED
      BY <1>1, <3>1 DEF ToSet
  <2> QED
    BY <2>1, <2>2
<1>3. ASSUME NEW i \in 1..Len(Tail(s)) PROVE Tail(s)[i] \in ToSet(s)
  BY <1>1 DEF ToSet
<1>4. Head(s) \in ToSet(s)
  BY <1>1 DEF ToSet
<1>5. ToSet(s) \subseteq {Head(s)} \cup ToSet(Tail(s))
  BY <1>1, <1>2 DEF ToSet
<1>6. ToSet(Tail(s)) \subseteq ToSet(s)
  BY <1>1, <1>3 DEF ToSet
<1> QED
  BY <1>4, <1>5, <1>6

LEMMA ElementsOfConcat ==
    ASSUME NEW S, NEW s \in Seq(S), NEW t \in Seq(S)
    PROVE  s \o t \in Seq(S) /\ ToSet(s \o t) = ToSet(s) \cup ToSet(t)
<1>1. /\ Len(s) \in Nat /\ Len(t) \in Nat /\ Len(s \o t) = Len(s) + Len(t)
      /\ \A i \in 1..Len(s \o t) :
            (s \o t)[i] = IF i <= Len(s) THEN s[i] ELSE t[i - Len(s)]
      /\ DOMAIN (s \o t) = 1..Len(s \o t)
      /\ DOMAIN s = 1..Len(s) /\ DOMAIN t = 1..Len(t)
  OBVIOUS
<1>2. ASSUME NEW i \in 1..Len(s \o t) PROVE (s \o t)[i] \in ToSet(s) \cup ToSet(t)
  <2>1. CASE i <= Len(s)
    BY <1>1, <2>1 DEF ToSet
  <2>2. CASE ~(i <= Len(s))
    <3>1. i - Len(s) \in 1..Len(t) /\ (s \o t)[i] = t[i - Len(s)]
      BY <1>1, <2>2
    <3> QED
      BY <1>1, <3>1 DEF ToSet
  <2> QED
    BY <2>1, <2>2
<1>3. ASSUME NEW i \in 1..Len(s) PROVE s[i] \in ToSet(s \o t)
  <2>1. i \in 1..Len(s \o t) /\ (s \o t)[i] = s[i]
    BY <1>1
  <2> QED
    BY <1>1, <2>1 DEF ToSet
<1>4. ASSUME NEW i \in 1..Len(t) PROVE t[i] \in ToSet(s \o t)
  <2>1. i + Len(s) \in 1..Len(s \o t) /\ (s \o t)[i + Len(s)] = t[i]
    BY <1>1
  <2> QED
    BY <1>1, <2>1 DEF ToSet
<1>5. ToSet(s \o t) \subseteq ToSet(s) \cup ToSet(t)
  BY <1>1, <1>2 DEF ToSet
<1>6. ToSet(s) \subseteq ToSet(s \o t) /\ ToSet(t) \subseteq ToSet(s \o t)
  BY <1>1, <1>3, <1>4 DEF ToSet
<1> QED
  BY <1>5, <1>6

LEMMA ElementsOfAppend ==
    ASSUME NEW S, NEW s \in Seq(S), NEW e \in S
    PROVE  Append(s, e) \in Seq(S) /\ ToSet(Append(s, e)) = ToSet(s) \cup {e}
<1> DEFINE t == <<e>>
<1>1. Append(s, e) = s \o t /\ t \in Seq(S)
  OBVIOUS
<1>2. ToSet(t) = {e}
  BY ElementsOfOne
<1> HIDE DEF t
<1> QED
  BY <1>1, <1>2, ElementsOfConcat

LEMMA ElementsOfPrepend ==
    ASSUME NEW S, NEW s \in Seq(S), NEW e \in S
    PROVE  <<e>> \o s \in Seq(S) /\ ToSet(<<e>> \o s) = ToSet(s) \cup {e}
<1> DEFINE t == <<e>>
<1>1. t \in Seq(S) /\ ToSet(t) = {e}
  BY ElementsOfOne
<1> HIDE DEF t
<1>2. t \o s \in Seq(S) /\ ToSet(t \o s) = ToSet(s) \cup {e}
  BY <1>1, ElementsOfConcat
<1> QED
  BY <1>2 DEF t

-----------------------------------------------------------------------------
(* RemoveFirst.                                                            *)

\* RemoveFirst leaves a sequence alone that does not have the element, and
\* closes the gap at its first occurrence otherwise.
LEMMA RemoveFirstIs ==
    ASSUME NEW S, NEW s \in Seq(S), NEW e
    PROVE  /\ RemoveFirst(s, e) \in Seq(S)
           /\ e \notin ToSet(s) => RemoveFirst(s, e) = s
           /\ e \in ToSet(s) =>
                \E k \in 1..Len(s) :
                   /\ s[k] = e /\ \A i \in 1..(k - 1) : s[i] # e
                   /\ Len(RemoveFirst(s, e)) = Len(s) - 1
                   /\ \A i \in 1..(Len(s) - 1) :
                         RemoveFirst(s, e)[i] = IF i < k THEN s[i] ELSE s[i + 1]
<1>1. (\E i \in 1..Len(s) : s[i] = e) <=> e \in ToSet(s)
  BY DEF ToSet
<1>2. ASSUME \E i \in 1..Len(s) : s[i] = e
      PROVE  /\ RemoveFirst(s, e) \in Seq(S)
             /\ \E k \in 1..Len(s) :
                   /\ s[k] = e /\ \A i \in 1..(k - 1) : s[i] # e
                   /\ Len(RemoveFirst(s, e)) = Len(s) - 1
                   /\ \A i \in 1..(Len(s) - 1) :
                         RemoveFirst(s, e)[i] = IF i < k THEN s[i] ELSE s[i + 1]
  <2> DEFINE I == {i \in 1..Len(s) : s[i] = e}
             k == Min(I)
  <2>1. k \in I /\ \A m \in I : k <= m
    <3>1. I \in SUBSET Nat /\ I # {}
      BY <1>2
    <3> HIDE DEF I
    <3> QED
      BY <3>1, LeastIndex
  <2>2. RemoveFirst(s, e) = SubSeq(s, 1, k - 1) \o SubSeq(s, k + 1, Len(s))
    <3>1. SelectInSeq(s, LAMBDA v : v = e) = k
      BY <1>2 DEF SelectInSeq
    <3> HIDE DEF I, k
    <3> QED
      BY <1>2, <3>1 DEF RemoveFirst, RemoveAt
  <2>3. k \in 1..Len(s) /\ s[k] = e /\ \A i \in 1..(k - 1) : s[i] # e
    <3>1. k \in 1..Len(s) /\ s[k] = e
      BY <2>1
    <3>2. ASSUME NEW i \in 1..(k - 1), s[i] = e PROVE FALSE
      <4>1. i \in I /\ i < k /\ i \in Nat /\ k \in Nat
        BY <3>1, <3>2
      <4> HIDE DEF k, I
      <4> QED
        BY <2>1, <4>1
    <3> HIDE DEF k, I
    <3> QED
      BY <3>1, <3>2
  <2> HIDE DEF I, k
  <2> DEFINE u == SubSeq(s, 1, k - 1)
             v == SubSeq(s, k + 1, Len(s))
  <2>4. /\ u \in Seq(S) /\ v \in Seq(S) /\ Len(u) = k - 1 /\ Len(v) = Len(s) - k
        /\ \A i \in 1..(k - 1) : u[i] = s[i]
        /\ \A i \in 1..(Len(s) - k) : v[i] = s[i + k]
    BY <2>3
  <2> HIDE DEF u, v
  <2>5. /\ u \o v \in Seq(S) /\ Len(u \o v) = Len(s) - 1
        /\ \A i \in 1..(Len(s) - 1) : (u \o v)[i] = IF i <= Len(u) THEN u[i] ELSE v[i - Len(u)]
    <3>1. ASSUME NEW x \in Seq(S), NEW y \in Seq(S)
          PROVE  /\ x \o y \in Seq(S) /\ Len(x \o y) = Len(x) + Len(y)
                 /\ \A i \in 1..(Len(x) + Len(y)) :
                       (x \o y)[i] = IF i <= Len(x) THEN x[i] ELSE y[i - Len(x)]
      OBVIOUS
    <3>2. Len(u) + Len(v) = Len(s) - 1
      BY <2>3, <2>4
    <3> QED
      BY <2>4, <3>1, <3>2
  <2>6. ASSUME NEW i \in 1..(Len(s) - 1)
        PROVE  (u \o v)[i] = IF i < k THEN s[i] ELSE s[i + 1]
    <3>1. CASE i < k
      BY <2>3, <2>4, <2>5, <3>1
    <3>2. CASE ~(i < k)
      <4>1. i - Len(u) \in 1..(Len(s) - k) /\ (i - Len(u)) + k = i + 1
        BY <2>3, <2>4, <3>2
      <4>2. (u \o v)[i] = v[i - Len(u)]
        BY <2>3, <2>4, <2>5, <3>2
      <4> QED
        BY <2>4, <3>2, <4>1, <4>2
    <3> QED
      BY <3>1, <3>2
  <2> QED
    BY <2>2, <2>3, <2>5, <2>6 DEF u, v
<1>3. CASE ~\E i \in 1..Len(s) : s[i] = e
  BY <1>1, <1>3 DEF RemoveFirst
<1> QED
  BY <1>1, <1>2, <1>3

LEMMA RemoveFirstSeq ==
    ASSUME NEW S, NEW s \in Seq(S), NEW e
    PROVE  RemoveFirst(s, e) \in Seq(S)
BY RemoveFirstIs

LEMMA ElementsOfRemoveFirst ==
    ASSUME NEW S, NEW s \in Seq(S), NEW e
    PROVE  /\ ToSet(RemoveFirst(s, e)) \subseteq ToSet(s)
           /\ ToSet(s) \ {e} \subseteq ToSet(RemoveFirst(s, e))
<1> DEFINE r == RemoveFirst(s, e)
<1>1. r \in Seq(S) /\ Len(s) \in Nat /\ DOMAIN s = 1..Len(s) /\ DOMAIN r = 1..Len(r)
  BY RemoveFirstIs
<1>2. CASE e \notin ToSet(s)
  BY <1>2, RemoveFirstIs
<1>3. CASE e \in ToSet(s)
  <2>1. PICK k \in 1..Len(s) :
           /\ s[k] = e
           /\ Len(r) = Len(s) - 1
           /\ \A i \in 1..(Len(s) - 1) : r[i] = IF i < k THEN s[i] ELSE s[i + 1]
    BY <1>3, RemoveFirstIs
  <2> HIDE DEF r
  <2>2. ASSUME NEW i \in 1..Len(r) PROVE r[i] \in ToSet(s)
    BY <1>1, <2>1 DEF ToSet
  <2>3. ASSUME NEW i \in 1..Len(s), s[i] # e PROVE s[i] \in ToSet(r)
    <3>1. CASE i < k
      <4>1. i \in 1..Len(r) /\ r[i] = s[i]
        BY <1>1, <2>1, <3>1
      <4> QED
        BY <1>1, <4>1 DEF ToSet
    <3>2. CASE i > k
      <4>1. i - 1 \in 1..Len(r) /\ r[i - 1] = s[i]
        BY <1>1, <2>1, <3>2
      <4> QED
        BY <1>1, <4>1 DEF ToSet
    <3> QED
      BY <2>1, <2>3, <3>1, <3>2
  <2>4. ToSet(r) \subseteq ToSet(s) /\ ToSet(s) \ {e} \subseteq ToSet(r)
    BY <1>1, <2>2, <2>3 DEF ToSet
  <2> QED
    BY <2>4 DEF r
<1> QED
  BY <1>2, <1>3

-----------------------------------------------------------------------------
(* Sequences that hold nothing twice.                                      *)

LEMMA InjectiveEmpty == IsInjective(<<>>)
BY DEF IsInjective

LEMMA InjectiveTail ==
    ASSUME NEW S, NEW s \in Seq(S), s # <<>>, IsInjective(s)
    PROVE  IsInjective(Tail(s)) /\ ToSet(Tail(s)) = ToSet(s) \ {Head(s)}
<1>1. /\ Len(Tail(s)) = Len(s) - 1 /\ Len(s) \in Nat /\ Len(s) >= 1
      /\ \A i \in 1..Len(Tail(s)) : Tail(s)[i] = s[i + 1]
      /\ Head(s) = s[1] /\ DOMAIN s = 1..Len(s) /\ DOMAIN Tail(s) = 1..Len(Tail(s))
  OBVIOUS
<1>2. IsInjective(Tail(s))
  <2>1. ASSUME NEW i \in 1..Len(Tail(s)), NEW j \in 1..Len(Tail(s)), Tail(s)[i] = Tail(s)[j]
        PROVE  i = j
    <3>1. i + 1 \in 1..Len(s) /\ j + 1 \in 1..Len(s) /\ s[i + 1] = s[j + 1]
      BY <1>1, <2>1
    <3>2. i + 1 = j + 1
      BY <1>1, <3>1 DEF IsInjective
    <3> QED
      BY <3>2
  <2> QED
    BY <1>1, <2>1 DEF IsInjective
<1>3. Head(s) \notin ToSet(Tail(s))
  <2>1. ASSUME NEW i \in 1..Len(Tail(s)), Tail(s)[i] = Head(s) PROVE FALSE
    <3>1. i + 1 \in 1..Len(s) /\ 1 \in 1..Len(s) /\ s[i + 1] = s[1] /\ i + 1 # 1
      BY <1>1, <2>1
    <3> QED
      BY <1>1, <3>1 DEF IsInjective
  <2> QED
    BY <1>1, <2>1 DEF ToSet
<1> QED
  BY <1>2, <1>3, ElementsOfTail

LEMMA InjectiveAppend ==
    ASSUME NEW S, NEW s \in Seq(S), NEW e \in S, IsInjective(s), e \notin ToSet(s)
    PROVE  IsInjective(Append(s, e))
<1>1. /\ Len(s) \in Nat /\ Len(Append(s, e)) = Len(s) + 1 /\ DOMAIN s = 1..Len(s)
      /\ DOMAIN Append(s, e) = 1..(Len(s) + 1)
      /\ \A i \in 1..Len(s) : Append(s, e)[i] = s[i]
      /\ Append(s, e)[Len(s) + 1] = e
  OBVIOUS
<1>2. \A i \in 1..Len(s) : s[i] # e
  BY <1>1 DEF ToSet
<1>3. ASSUME NEW i \in 1..(Len(s) + 1), NEW j \in 1..(Len(s) + 1),
             Append(s, e)[i] = Append(s, e)[j]
      PROVE  i = j
  <2>1. CASE i = Len(s) + 1
    BY <1>1, <1>2, <1>3, <2>1
  <2>2. CASE j = Len(s) + 1
    BY <1>1, <1>2, <1>3, <2>2
  <2>3. CASE i # Len(s) + 1 /\ j # Len(s) + 1
    <3>1. i \in 1..Len(s) /\ j \in 1..Len(s)
      BY <1>1, <2>3
    <3> QED
      BY <1>1, <1>3, <3>1 DEF IsInjective
  <2> QED
    BY <2>1, <2>2, <2>3
<1> QED
  BY <1>1, <1>3 DEF IsInjective

\* Two lists one after the other.
LEMMA ConcatIs ==
    ASSUME NEW S, NEW s \in Seq(S), NEW t \in Seq(S)
    PROVE  LET u == s \o t IN
           /\ u \in Seq(S) /\ Len(u) = Len(s) + Len(t) /\ Len(s) \in Nat /\ Len(t) \in Nat
           /\ \A i \in 1..Len(s) : u[i] = s[i]
           /\ \A i \in (Len(s) + 1)..(Len(s) + Len(t)) :
                 u[i] = t[i - Len(s)] /\ i - Len(s) \in 1..Len(t)
OBVIOUS

LEMMA InjectiveConcat ==
    ASSUME NEW S, NEW s \in Seq(S), NEW t \in Seq(S), IsInjective(s), IsInjective(t),
           \A i \in 1..Len(t) : t[i] \notin ToSet(s)
    PROVE  s \o t \in Seq(S) /\ IsInjective(s \o t)
<1> DEFINE u == s \o t
           m == Len(s)
           n == Len(t)
<1>1. /\ u \in Seq(S) /\ Len(u) = m + n /\ m \in Nat /\ n \in Nat
      /\ \A i \in 1..m : u[i] = s[i]
      /\ \A i \in (m + 1)..(m + n) : u[i] = t[i - m] /\ i - m \in 1..n
  BY ConcatIs
<1>2. (\A i \in 1..m : s[i] \in ToSet(s)) /\ DOMAIN s = 1..m /\ DOMAIN t = 1..n
  BY ElementsOf
<1> HIDE DEF u, m, n
<1>3. DOMAIN u = 1..(m + n) /\ u \in Seq(S)
  BY <1>1
<1>4. \A k \in 1..(m + n) : k \in 1..m \/ k \in (m + 1)..(m + n)
  BY <1>1
<1>5. ASSUME NEW i \in 1..(m + n), NEW j \in 1..(m + n), u[i] = u[j] PROVE i = j
  <2>1. CASE i \in 1..m /\ j \in 1..m
    BY <1>1, <1>2, <1>5, <2>1 DEF IsInjective
  <2>2. CASE i \in 1..m /\ j \notin 1..m
    BY <1>1, <1>2, <1>4, <1>5, <2>2 DEF n
  <2>3. CASE i \notin 1..m /\ j \in 1..m
    BY <1>1, <1>2, <1>4, <1>5, <2>3 DEF n
  <2>4. CASE i \notin 1..m /\ j \notin 1..m
    <3> DEFINE k == i - m
               l == j - m
    <3>1. k \in 1..n /\ l \in 1..n /\ u[i] = t[k] /\ u[j] = t[l]
      BY <1>1, <1>4, <2>4
    <3> HIDE DEF k, l
    <3>2. k = l
      BY <1>2, <1>5, <3>1 DEF IsInjective
    <3>3. i - m = j - m
      BY <3>2 DEF k, l
    <3> QED
      BY <1>1, <3>3
  <2> QED
    BY <2>1, <2>2, <2>3, <2>4
<1>6. IsInjective(u)
  BY <1>3, <1>5 DEF IsInjective
<1> QED
  BY <1>3, <1>6 DEF u

LEMMA InjectiveRemoveFirst ==
    ASSUME NEW S, NEW s \in Seq(S), NEW e, IsInjective(s)
    PROVE  IsInjective(RemoveFirst(s, e)) /\ ToSet(RemoveFirst(s, e)) = ToSet(s) \ {e}
<1> DEFINE r == RemoveFirst(s, e)
<1>1. r \in Seq(S) /\ Len(s) \in Nat /\ DOMAIN s = 1..Len(s) /\ DOMAIN r = 1..Len(r)
  BY RemoveFirstIs
<1>2. CASE e \notin ToSet(s)
  BY <1>2, RemoveFirstIs
<1>3. CASE e \in ToSet(s)
  <2>1. PICK k \in 1..Len(s) :
           /\ s[k] = e
           /\ Len(r) = Len(s) - 1
           /\ \A i \in 1..(Len(s) - 1) : r[i] = IF i < k THEN s[i] ELSE s[i + 1]
    BY <1>3, RemoveFirstIs
  <2> DEFINE at(i) == IF i < k THEN i ELSE i + 1
  <2> HIDE DEF r
  <2>2. \A i \in 1..Len(r) : at(i) \in 1..Len(s) /\ at(i) # k /\ r[i] = s[at(i)]
    BY <1>1, <2>1
  <2>3. \A i, j \in 1..Len(r) : at(i) = at(j) => i = j
    BY <1>1, <2>1
  <2> HIDE DEF at
  <2>4. IsInjective(r)
    BY <1>1, <2>2, <2>3 DEF IsInjective
  <2>5. e \notin ToSet(r)
    BY <1>1, <2>1, <2>2 DEF IsInjective, ToSet
  <2> QED
    BY <2>4, <2>5, ElementsOfRemoveFirst DEF r
<1> QED
  BY <1>2, <1>3

LEMMA LastOfTail ==
    ASSUME NEW S, NEW s \in Seq(S), s # <<>>, Head(s) # Last(s)
    PROVE  Tail(s) # <<>> /\ Last(Tail(s)) = Last(s)
<1>1. Len(s) \in Nat /\ Len(s) > 0 /\ Head(s) = s[1] /\ Last(s) = s[Len(s)]
  BY DEF Last
<1>2. Len(s) > 1
  BY <1>1
<1>3. /\ Tail(s) \in Seq(S) /\ Len(Tail(s)) = Len(s) - 1
      /\ \A i \in 1..Len(Tail(s)) : Tail(s)[i] = s[i + 1]
  OBVIOUS
<1>4. Len(s) - 1 \in 1..(Len(s) - 1) /\ (Len(s) - 1) + 1 = Len(s)
  BY <1>1, <1>2
<1>5. Tail(s)[Len(s) - 1] = s[Len(s)]
  BY <1>3, <1>4
<1>6. Len(Tail(s)) # 0
  BY <1>1, <1>2, <1>3
<1>7. Tail(s) # <<>>
  <2>1. PICK t : t = Tail(s) /\ Len(t) # 0
    BY <1>6
  <2> QED
    BY <2>1
<1>8. Last(Tail(s)) = Tail(s)[Len(s) - 1]
  BY <1>3 DEF Last
<1> QED
  BY <1>1, <1>5, <1>7, <1>8

-----------------------------------------------------------------------------
(* Selections of a list, and lists made of a set.                          *)

\* The recursive function of SelectIn is defined.
LEMMA SelectionExists ==
    ASSUME NEW T, NEW s \in Seq(T), NEW S
    PROVE  \E g : g = [i \in 0 .. Len(s) |->
                         IF i = 0 THEN <<>>
                         ELSE IF s[i] \in S THEN Append(g[i - 1], s[i]) ELSE g[i - 1]]
<1> DEFINE Good(n, g) ==
              /\ g[0] = <<>>
              /\ \A i \in 1 .. n :
                    g[i] = IF s[i] \in S THEN Append(g[i - 1], s[i]) ELSE g[i - 1]
           Bad == {n \in 0 .. Len(s) : ~ \E g \in [0 .. n -> Seq(T)] : Good(n, g)}
<1>1. Len(s) \in Nat /\ \A i \in 1 .. Len(s) : s[i] \in T
  OBVIOUS
<1>2. Bad = {}
  <2> SUFFICES ASSUME Bad # {} PROVE FALSE
    OBVIOUS
  <2>1. Bad \in SUBSET Nat
    BY <1>1
  <2> DEFINE n == Min(Bad)
  <2>2. n \in Bad /\ \A m \in Bad : n <= m
    <3> HIDE DEF Bad
    <3> QED
      BY <2>1, LeastIndex
  <2>3. n \in 0 .. Len(s) /\ ~ \E g \in [0 .. n -> Seq(T)] : Good(n, g)
    BY <2>2
  <2> HIDE DEF n
  <2>4. n # 0
    <3> DEFINE g == [i \in 0 .. 0 |-> <<>>]
    <3>1. g \in [0 .. 0 -> Seq(T)] /\ g[0] = <<>>
      OBVIOUS
    <3>2. Good(0, g)
      BY <3>1
    <3> QED
      BY <2>3, <3>1, <3>2
  <2>5. n - 1 \in 0 .. Len(s) /\ n \in 1 .. Len(s)
    BY <1>1, <2>3, <2>4
  <2>6. PICK f \in [0 .. (n - 1) -> Seq(T)] : Good(n - 1, f)
    <3>1. n - 1 \notin Bad
      <4> HIDE DEF Bad
      <4> QED
        BY <2>1, <2>2, <2>5
    <3> QED
      BY <2>5, <3>1
  <2> DEFINE last == IF s[n] \in S THEN Append(f[n - 1], s[n]) ELSE f[n - 1]
             g == [i \in 0 .. n |-> IF i = n THEN last ELSE f[i]]
  <2>7. s[n] \in T /\ f[n - 1] \in Seq(T)
    BY <1>1, <2>5
  <2>8. last \in Seq(T)
    BY <2>7
  <2> HIDE DEF last
  <2>10. g \in [0 .. n -> Seq(T)]
    BY <2>5, <2>6, <2>8
  <2>11. /\ g[n] = last
         /\ \A i \in 0 .. (n - 1) : i \in 0 .. n /\ i # n /\ g[i] = f[i]
    BY <2>5
  <2>12. g[0] = <<>>
    BY <2>5, <2>6, <2>11
  <2> HIDE DEF g
  <2>13. ASSUME NEW i \in 1 .. n
         PROVE  g[i] = IF s[i] \in S THEN Append(g[i - 1], s[i]) ELSE g[i - 1]
    <3>1. CASE i = n
      <4>1. n - 1 \in 0 .. (n - 1)
        BY <2>5
      <4> QED
        BY <2>11, <3>1, <4>1 DEF last
    <3>2. CASE i # n
      <4>1. i \in 1 .. (n - 1) /\ i \in 0 .. (n - 1) /\ i - 1 \in 0 .. (n - 1)
        BY <2>5, <3>2
      <4>2. f[i] = IF s[i] \in S THEN Append(f[i - 1], s[i]) ELSE f[i - 1]
        BY <2>6, <4>1
      <4> QED
        BY <2>11, <4>1, <4>2
    <3> QED
      BY <3>1, <3>2
  <2>15. Good(n, g)
    BY <2>12, <2>13
  <2> QED
    BY <2>3, <2>10, <2>15
<1>3. PICK g \in [0 .. Len(s) -> Seq(T)] : Good(Len(s), g)
  <2> DEFINE Extends(n) == \E g \in [0 .. n -> Seq(T)] : Good(n, g)
  <2>1. \A n \in 0 .. Len(s) : Extends(n)
    BY <1>2
  <2>2. Len(s) \in 0 .. Len(s)
    BY <1>1
  <2>3. Extends(Len(s))
    <3> HIDE DEF Extends
    <3> QED
      BY <2>1, <2>2
  <2> QED
    BY <2>3
<1>4. g = [i \in 0 .. Len(s) |->
             IF i = 0 THEN <<>>
             ELSE IF s[i] \in S THEN Append(g[i - 1], s[i]) ELSE g[i - 1]]
  <2>1. \A i \in 0 .. Len(s) :
           g[i] = IF i = 0 THEN <<>>
                  ELSE IF s[i] \in S THEN Append(g[i - 1], s[i]) ELSE g[i - 1]
    <3> TAKE i \in 0 .. Len(s)
    <3>1. i # 0 => i \in 1 .. Len(s)
      BY <1>1
    <3> QED
      BY <1>3, <3>1
  <2> QED
    BY <1>3, <2>1
<1> QED
  BY <1>4

\* A selection has exactly the elements of the list that are in the set.
LEMMA ElementsOfSelectIn ==
    ASSUME NEW T, NEW s \in Seq(T), NEW S
    PROVE  SelectIn(s, S) \in Seq(T) /\ ToSet(SelectIn(s, S)) = ToSet(s) \cap S
<1> DEFINE Recursive(h) ==
              h = [i \in 0 .. Len(s) |->
                     IF i = 0 THEN <<>>
                     ELSE IF s[i] \in S THEN Append(h[i - 1], s[i]) ELSE h[i - 1]]
           g == CHOOSE h : Recursive(h)
           Upto(n) == {s[j] : j \in 1 .. n}
           Bad == {n \in 0 .. Len(s) : ~ (g[n] \in Seq(T) /\ ToSet(g[n]) = Upto(n) \cap S)}
<1>1. SelectIn(s, S) = g[Len(s)]
  BY DEF SelectIn
<1>2. Recursive(g)
  <2>1. \E h : Recursive(h)
    BY SelectionExists
  <2> HIDE DEF Recursive
  <2> QED
    BY <2>1
<1>3. /\ g[0] = <<>>
      /\ \A i \in 1 .. Len(s) :
            g[i] = IF s[i] \in S THEN Append(g[i - 1], s[i]) ELSE g[i - 1]
  <2>1. /\ Len(s) \in Nat /\ 0 \in 0 .. Len(s)
        /\ \A i \in 1 .. Len(s) : i \in 0 .. Len(s) /\ i # 0
    OBVIOUS
  <2> HIDE DEF g
  <2> QED
    BY <1>2, <2>1
<1>4. Len(s) \in Nat /\ ToSet(s) = Upto(Len(s)) /\ \A i \in 1 .. Len(s) : s[i] \in T
  BY DEF ToSet
<1> HIDE DEF g, Recursive
<1>5. Bad = {}
  <2> SUFFICES ASSUME Bad # {} PROVE FALSE
    OBVIOUS
  <2>1. Bad \in SUBSET Nat
    BY <1>4
  <2> DEFINE n == Min(Bad)
  <2>2. n \in Bad /\ \A m \in Bad : n <= m
    <3> HIDE DEF Bad
    <3> QED
      BY <2>1, LeastIndex
  <2> HIDE DEF n
  <2>3. n \in 0 .. Len(s) /\ ~ (g[n] \in Seq(T) /\ ToSet(g[n]) = Upto(n) \cap S)
    BY <2>2
  <2>4. n # 0
    <3>1. Upto(0) = {}
      OBVIOUS
    <3>2. g[0] \in Seq(T) /\ ToSet(g[0]) = {}
      BY <1>3, ElementsOfEmpty
    <3> HIDE DEF Upto
    <3> QED
      BY <2>3, <3>1, <3>2
  <2>5. n - 1 \in 0 .. Len(s) /\ n \in 1 .. Len(s) /\ n - 1 < n
    BY <1>4, <2>3, <2>4
  <2>6. g[n - 1] \in Seq(T) /\ ToSet(g[n - 1]) = Upto(n - 1) \cap S
    <3>1. n - 1 \notin Bad
      <4> HIDE DEF Bad
      <4> QED
        BY <2>1, <2>2, <2>5
    <3> HIDE DEF Upto
    <3> QED
      BY <2>5, <3>1
  <2>7. Upto(n) = Upto(n - 1) \cup {s[n]}
    BY <2>5
  <2>8. s[n] \in T
    BY <1>4, <2>5
  <2>9. CASE s[n] \in S
    <3>1. g[n] = Append(g[n - 1], s[n])
      BY <1>3, <2>5, <2>9
    <3>2. g[n] \in Seq(T) /\ ToSet(g[n]) = ToSet(g[n - 1]) \cup {s[n]}
      BY <2>6, <2>8, <3>1, ElementsOfAppend
    <3> HIDE DEF Upto
    <3> QED
      BY <2>3, <2>6, <2>7, <2>9, <3>2
  <2>10. CASE s[n] \notin S
    <3>1. g[n] = g[n - 1]
      BY <1>3, <2>5, <2>10
    <3> HIDE DEF Upto
    <3> QED
      BY <2>3, <2>6, <2>7, <2>10, <3>1
  <2> QED
    BY <2>9, <2>10
<1>6. g[Len(s)] \in Seq(T) /\ ToSet(g[Len(s)]) = Upto(Len(s)) \cap S
  <2> HIDE DEF Upto
  <2> QED
    BY <1>4, <1>5
<1> QED
  BY <1>1, <1>4, <1>6

\* The elements of t are elements of s, at indices in the same order.
TakenInOrder(t, s) ==
    /\ \A i \in 1..Len(t) : \E k \in 1..Len(s) : t[i] = s[k]
    /\ \A i, j \in 1..Len(t) :
          i < j => \E k, l \in 1..Len(s) : k < l /\ t[i] = s[k] /\ t[j] = s[l]

\* A selection keeps the elements in the order of the list.
LEMMA OrderOfSelectIn ==
    ASSUME NEW T, NEW s \in Seq(T), NEW S
    PROVE  TakenInOrder(SelectIn(s, S), s)
<1> DEFINE Recursive(h) ==
              h = [i \in 0 .. Len(s) |->
                     IF i = 0 THEN <<>>
                     ELSE IF s[i] \in S THEN Append(h[i - 1], s[i]) ELSE h[i - 1]]
           g == CHOOSE h : Recursive(h)
           Among(w, n) ==
              /\ \A i \in 1..Len(w) : \E k \in 1..n : w[i] = s[k]
              /\ \A i, j \in 1..Len(w) :
                    i < j => \E k, l \in 1..n : k < l /\ w[i] = s[k] /\ w[j] = s[l]
           Bad == {n \in 0 .. Len(s) : ~ (g[n] \in Seq(T) /\ Among(g[n], n))}
<1>1. SelectIn(s, S) = g[Len(s)]
  BY DEF SelectIn
<1>2. Recursive(g)
  <2>1. \E h : Recursive(h)
    BY SelectionExists
  <2> HIDE DEF Recursive
  <2> QED
    BY <2>1
<1>3. /\ g[0] = <<>>
      /\ \A i \in 1 .. Len(s) :
            g[i] = IF s[i] \in S THEN Append(g[i - 1], s[i]) ELSE g[i - 1]
  <2>1. /\ Len(s) \in Nat /\ 0 \in 0 .. Len(s)
        /\ \A i \in 1 .. Len(s) : i \in 0 .. Len(s) /\ i # 0
    OBVIOUS
  <2> HIDE DEF g
  <2> QED
    BY <1>2, <2>1
<1>4. Len(s) \in Nat /\ \A i \in 1 .. Len(s) : s[i] \in T
  OBVIOUS
<1> HIDE DEF g, Recursive
<1>5. Bad = {}
  <2> SUFFICES ASSUME Bad # {} PROVE FALSE
    OBVIOUS
  <2>1. Bad \in SUBSET Nat
    BY <1>4
  <2> DEFINE n == Min(Bad)
  <2>2. n \in Bad /\ \A m \in Bad : n <= m
    <3> HIDE DEF Bad
    <3> QED
      BY <2>1, LeastIndex
  <2> HIDE DEF n
  <2>3. n \in 0 .. Len(s) /\ ~ (g[n] \in Seq(T) /\ Among(g[n], n))
    BY <2>2
  <2>4. n # 0
    <3>1. <<>> \in Seq(T) /\ Among(<<>>, 0)
      OBVIOUS
    <3> HIDE DEF Among
    <3> QED
      BY <1>3, <2>3, <3>1
  <2>5. n - 1 \in 0 .. Len(s) /\ n \in 1 .. Len(s) /\ n - 1 < n
    BY <1>4, <2>3, <2>4
  <2>6. g[n - 1] \in Seq(T) /\ Among(g[n - 1], n - 1)
    <3>1. n - 1 \notin Bad
      <4> HIDE DEF Bad
      <4> QED
        BY <2>1, <2>2, <2>5
    <3> HIDE DEF Among
    <3> QED
      BY <2>5, <3>1
  <2> DEFINE u == g[n - 1]
             v == g[n]
  <2>7. u \in Seq(T) /\ s[n] \in T /\ Len(u) \in Nat
    BY <1>4, <2>5, <2>6
  <2>8. 1..(n - 1) \subseteq 1..n /\ n \in 1..n /\ \A k \in 1..(n - 1) : k < n
    BY <2>5
  <2>9. CASE s[n] \in S
    <3>1. v = Append(u, s[n])
      BY <1>3, <2>5, <2>9
    <3> HIDE DEF u, v
    <3>2. /\ v \in Seq(T) /\ Len(v) = Len(u) + 1 /\ v[Len(u) + 1] = s[n]
          /\ \A i \in 1..Len(u) : v[i] = u[i]
      BY <2>7, <3>1
    <3>3. ASSUME NEW i \in 1..Len(u) PROVE \E k \in 1..n : k < n /\ v[i] = s[k]
      <4>1. PICK k \in 1..(n - 1) : u[i] = s[k]
        BY <2>6 DEF u
      <4> QED
        BY <2>8, <3>2, <4>1
    <3>4. ASSUME NEW i \in 1..Len(v), NEW j \in 1..Len(v), i < j
          PROVE  \E k, l \in 1..n : k < l /\ v[i] = s[k] /\ v[j] = s[l]
      <4>1. \A k \in 1..Len(v) : k = Len(u) + 1 \/ k \in 1..Len(u)
        BY <2>7, <3>2
      <4>2. CASE i \in 1..Len(u) /\ j \in 1..Len(u)
        <5>1. PICK k \in 1..(n - 1), l \in 1..(n - 1) : k < l /\ u[i] = s[k] /\ u[j] = s[l]
          BY <2>6, <3>4, <4>2 DEF u
        <5> QED
          BY <2>8, <3>2, <4>2, <5>1
      <4>4. CASE j = Len(u) + 1
        <5>1. i \in 1..Len(u)
          BY <2>7, <3>4, <4>1, <4>4
        <5> QED
          BY <2>8, <3>2, <3>3, <4>4, <5>1
      <4>5. i \in 1..Len(u)
        BY <2>7, <3>2, <3>4
      <4> QED
        BY <4>1, <4>2, <4>4, <4>5
    <3>5. ASSUME NEW i \in 1..Len(v) PROVE \E k \in 1..n : v[i] = s[k]
      <4>1. i = Len(u) + 1 \/ i \in 1..Len(u)
        BY <2>7, <3>2
      <4> QED
        BY <2>8, <3>2, <3>3, <4>1
    <3>6. Among(v, n)
      BY <3>4, <3>5
    <3> HIDE DEF Among
    <3> QED
      BY <2>3, <3>2, <3>6 DEF v
  <2>10. CASE s[n] \notin S
    <3>1. v = u
      BY <1>3, <2>5, <2>10
    <3> HIDE DEF u, v
    <3>2. Among(u, n - 1)
      BY <2>6 DEF u
    <3>3. Among(u, n)
      <4>1. \A i \in 1..Len(u) : \E k \in 1..n : u[i] = s[k]
        BY <2>8, <3>2
      <4>2. ASSUME NEW i \in 1..Len(u), NEW j \in 1..Len(u), i < j
            PROVE  \E k, l \in 1..n : k < l /\ u[i] = s[k] /\ u[j] = s[l]
        <5>1. PICK k \in 1..(n - 1), l \in 1..(n - 1) : k < l /\ u[i] = s[k] /\ u[j] = s[l]
          BY <3>2, <4>2
        <5>2. k \in 1..n /\ l \in 1..n
          BY <2>8, <5>1
        <5> QED
          BY <5>1, <5>2
      <4> QED
        BY <4>1, <4>2
    <3> HIDE DEF Among
    <3> QED
      BY <2>3, <2>7, <3>1, <3>3 DEF v
  <2> QED
    BY <2>9, <2>10
<1>6. Among(g[Len(s)], Len(s))
  <2> HIDE DEF Among
  <2> QED
    BY <1>4, <1>5
<1>7. TakenInOrder(g[Len(s)], s)
  <2> DEFINE t == g[Len(s)]
  <2>1. Among(t, Len(s))
    <3> HIDE DEF Among
    <3> QED
      BY <1>6
  <2> HIDE DEF t
  <2>2. TakenInOrder(t, s)
    BY <2>1 DEF TakenInOrder
  <2> QED
    BY <2>2 DEF t
<1> QED
  BY <1>1, <1>7

\* A selection takes the elements of the list at different indices.
LEMMA IndicesOfSelectIn ==
    ASSUME NEW T, NEW s \in Seq(T), NEW S
    PROVE  LET t == SelectIn(s, S) IN
           /\ \A i \in 1..Len(t) : \E k \in 1..Len(s) : t[i] = s[k]
           /\ \A i, j \in 1..Len(t) :
                 i # j => \E k, l \in 1..Len(s) : k # l /\ t[i] = s[k] /\ t[j] = s[l]
<1>0. PICK t : t = SelectIn(s, S)
  OBVIOUS
<1>5. TakenInOrder(t, s)
  BY <1>0, OrderOfSelectIn
<1>1. /\ \A i \in 1..Len(t) : \E k \in 1..Len(s) : t[i] = s[k]
      /\ \A i, j \in 1..Len(t) :
            i < j => \E k, l \in 1..Len(s) : k < l /\ t[i] = s[k] /\ t[j] = s[l]
  BY <1>5 DEF TakenInOrder
<1>2. Len(s) \in Nat /\ t \in Seq(T)
  BY <1>0, ElementsOfSelectIn
<1>3. Len(t) \in Nat
  BY <1>2
<1>4. ASSUME NEW i \in 1..Len(t), NEW j \in 1..Len(t), i # j
      PROVE  \E k, l \in 1..Len(s) : k # l /\ t[i] = s[k] /\ t[j] = s[l]
  <2>1. i < j \/ j < i
    BY <1>3, <1>4
  <2>2. CASE i < j
    <3>1. PICK k \in 1..Len(s), l \in 1..Len(s) : k < l /\ t[i] = s[k] /\ t[j] = s[l]
      BY <1>1, <2>2
    <3>2. k # l
      BY <1>2, <3>1
    <3> QED
      BY <3>1, <3>2
  <2>3. CASE j < i
    <3>1. PICK k \in 1..Len(s), l \in 1..Len(s) : k < l /\ t[j] = s[k] /\ t[i] = s[l]
      BY <1>1, <2>3
    <3>2. k # l
      BY <1>2, <3>1
    <3> QED
      BY <3>1, <3>2
  <2> QED
    BY <2>1, <2>2, <2>3
<1> QED
  BY <1>0, <1>1, <1>4

\* SetToSeq lists the set, each element once.
LEMMA ElementsOfSetToSeq ==
    ASSUME NEW S, IsFiniteSet(S)
    PROVE  /\ SetToSeq(S) \in Seq(S) /\ ToSet(SetToSeq(S)) = S
           /\ IsInjective(SetToSeq(S))
<1> DEFINE n == Cardinality(S)
<1>1. n \in Nat
  BY FS_CardinalityType
<1>2. \E f \in [1 .. n -> S] : IsInjective(f)
  BY FS_CardinalityType DEF ExistsBijection, Bijection, Injection
<1> DEFINE t == SetToSeq(S)
<1>3. t \in [1 .. n -> S] /\ IsInjective(t)
  BY <1>2 DEF SetToSeq
<1>4. t \in Surjection(1 .. n, S)
  <2>1. Cardinality(1 .. n) = n /\ IsFiniteSet(1 .. n)
    BY <1>1, FS_Interval
  <2>2. t \in Injection(1 .. n, S)
    BY <1>3 DEF Injection
  <2> HIDE DEF t
  <2> QED
    BY <2>1, <2>2, FS_Injection
<1>5. \A e \in S : \E i \in 1 .. n : t[i] = e
  BY <1>4 DEF Surjection
<1> HIDE DEF t
<1>6. t \in Seq(S) /\ DOMAIN t = 1 .. n
  BY <1>1, <1>3
<1>7. ToSet(t) = S
  BY <1>3, <1>5, <1>6 DEF ToSet
<1> QED
  BY <1>3, <1>6, <1>7 DEF t
=============================================================================
