------------------------ MODULE Fragmentation_proofs ------------------------
(***************************************************************************)
(* What the two FragmentManagers and the registration do with a bundle     *)
(* that is fragmented on its way, for every payload, segment and header    *)
(* length, and whatever breaks or crashes: reassembly is exact, no pending *)
(* fragment is forgotten, no unit of the payload leaves both data stores   *)
(* before the application has it, and the application gets the bundle once *)
(* in a life of its daemon.                                                *)
(***************************************************************************)
EXTENDS Fragmentation, SequenceLemmas, SequenceTheorems

\* What a copy is: a range of the payload of its bundle.
Copies == {c \in [id : Nat, off : Nat, len : Nat \ {0}, whole : BOOLEAN] :
              /\ c.off + c.len <= Total
              /\ c.whole => c.off = 0 /\ c.len = Total}

\* The events.  Of a copy from the peer more than its header arrived, and a
\* bundle is completed by fragments that make it up.
Receptions == {e \in [type : {"received"}, copy : Copies, bytes : Nat,
                      source : {"app", "peer", "tail", "reassembled"}] :
                  e.source = "peer" => e.bytes = Formatted(e.copy) \/ e.bytes > HeaderLen}
Loads == [type : {"received"}, copy : Copies, bytes : Nat, source : {"store"}]
Reports == [type : {"transmitted"}, copy : Copies, acked : Nat]
Completions == {e \in [type : {"completed"}, copy : Copies, list : Seq(Copies),
                       data : SUBSET AllUnits] :
                   e.copy.whole /\ Covered(Range(e.list)) = AllUnits /\ e.data = AllUnits}
Notices == [type : {"expired", "delete", "delivered", "free"}, copy : Copies]
Events == (Receptions \cup Reports) \cup (Completions \cup Notices)

Types ==
    /\ pending \in [Nodes -> SUBSET Copies] /\ store \in [Nodes -> SUBSET Copies]
    /\ armed \in [Nodes -> SUBSET Copies]
    /\ \A n \in Nodes : IsFiniteSet(pending[n]) /\ IsFiniteSet(store[n])
    /\ eventq \in [Nodes -> Seq(Events)] /\ loading \in [Nodes -> Seq(Loads)]
    /\ fragments \in Seq(Copies) /\ written \subseteq AllUnits
    /\ handed \subseteq Copies /\ IsFiniteSet(handed)
    /\ cache \in BOOLEAN /\ late \in BOOLEAN
    /\ got \in Nat /\ attempts \in Nat /\ crashes \in Nat

\* The order that insert_sorted keeps.
Sorted(list) == \A i, j \in 1..Len(list) : i < j => list[i].off <= list[j].off
\* The fragments of the FragmentState: by offset, written, and not the whole.
FragmentsOK ==
    /\ Sorted(fragments)
    /\ Covered(Range(fragments)) \subseteq written
    /\ Covered(Range(fragments)) # AllUnits

Ending(R) == UNION {CopiesOf(e) : e \in {f \in R : f.type \in {"delete", "completed"}}}
Partial == {c \in pending["dst"] : ~c.whole}
\* No pending fragment is forgotten, during a restart either.
Listed ==
    /\ Range(fragments) \subseteq Partial
    /\ late \/ Partial \subseteq Range(fragments) \cup Ending(Range(eventq["dst"]))

FragInv == Types /\ FragmentsOK /\ Listed

\* The copies that an event brings: they are not stored yet.
Comes(e) == IF e.type = "received"
            THEN IF e.source = "peer" THEN Arrived(e.copy, e.bytes) ELSE {e.copy}
            ELSE IF e.type = "completed" THEN {e.copy} ELSE {}

\* The units of which the peer acknowledged that they arrived.
Acked(c, acked) ==
    IF acked >= Formatted(c) THEN Units(c)
    ELSE IF acked <= HeaderLen \/ c.len <= 1 THEN {}
    ELSE c.off .. (c.off + Least(acked - HeaderLen, c.len - 1) - 1)

-----------------------------------------------------------------------------
(* The fragments of a FragmentState.                                       *)

LEMMA CopyIs ==
    ASSUME NEW c \in Copies
    PROVE  /\ c.id \in Nat /\ c.off \in Nat /\ c.len \in Nat \ {0} /\ c.whole \in BOOLEAN
           /\ c.off + c.len <= Total /\ c.off < Total
           /\ c.whole => c.off = 0 /\ c.len = Total
<1>1. Total \in Nat
  BY SizesAssumption
<1> QED
  BY <1>1 DEF Copies

\* The units of a copy, and those of several copies.
LEMMA UnitsAre ==
    ASSUME NEW c \in Copies
    PROVE  /\ \A u : u \in Units(c) <=> u \in Nat /\ c.off <= u /\ u < c.off + c.len
           /\ Units(c) \subseteq AllUnits
           /\ c.whole => Units(c) = AllUnits
<1>1. /\ c.off \in Nat /\ c.len \in Nat \ {0} /\ c.off + c.len <= Total /\ Total \in Nat
      /\ c.whole => c.off = 0 /\ c.len = Total
  BY CopyIs, SizesAssumption
<1> DEFINE o == c.off
           l == c.len
<1>2. /\ o \in Nat /\ l \in Nat \ {0} /\ o + l <= Total /\ Total \in Nat
      /\ c.whole => o = 0 /\ l = Total
  BY <1>1
<1>3. Units(c) = o .. (o + l - 1)
  BY DEF Units
<1> HIDE DEF o, l
<1>4. \A u : u \in Units(c) <=> u \in Nat /\ o <= u /\ u < o + l
  BY <1>2, <1>3
<1>5. Units(c) \subseteq AllUnits
  BY <1>2, <1>3 DEF AllUnits
<1>6. c.whole => Units(c) = AllUnits
  BY <1>2, <1>3 DEF AllUnits
<1> QED
  BY <1>4, <1>5, <1>6 DEF o, l

LEMMA CoveredIs ==
    ASSUME NEW copies \in SUBSET Copies
    PROVE  /\ Covered(copies) \subseteq AllUnits
           /\ \A u : u \in Covered(copies) <=> \E c \in copies : u \in Units(c)
           /\ \A c \in copies : Units(c) \subseteq Covered(copies)
<1>1. \A u : u \in Covered(copies) <=> \E c \in copies : u \in Units(c)
  BY DEF Covered
<1> QED
  BY <1>1, UnitsAre

LEMMA CoveredGrows ==
    ASSUME NEW S, NEW T, S \subseteq T
    PROVE  Covered(S) \subseteq Covered(T)
BY DEF Covered

LEMMA CoveredUnion ==
    ASSUME NEW S, NEW T
    PROVE  Covered(S \cup T) = Covered(S) \cup Covered(T)
BY DEF Covered

LEMMA CoveredOne ==
    ASSUME NEW c
    PROVE  Covered({c}) = Units(c)
BY DEF Covered

LEMMA CoveredNone == Covered({}) = {} /\ Range(<<>>) = {}
BY DEF Covered, Range

LEMMA RangeIs == ASSUME NEW s PROVE Range(s) = ToSet(s)
BY DEF Range, ToSet

LEMMA SortedEmpty == Sorted(<<>>)
BY DEF Sorted

\* insert_sorted keeps the order.
LEMMA InsertSortedIs ==
    ASSUME NEW list \in Seq(Copies), Sorted(list), NEW c \in Copies
    PROVE  /\ InsertSorted(list, c) \in Seq(Copies)
           /\ Range(InsertSorted(list, c)) = Range(list) \cup {c}
           /\ Sorted(InsertSorted(list, c))
<1> DEFINE I == {i \in 1..Len(list) : list[i].off > c.off}
           k == IF I # {} THEN Min(I) ELSE Len(list) + 1
<1>1. /\ Len(list) \in Nat /\ c.off \in Nat
      /\ \A i \in 1..Len(list) : list[i] \in Copies /\ list[i].off \in Nat
  BY CopyIs
<1>2. /\ k \in 1..(Len(list) + 1)
      /\ \A i \in 1..Len(list) : i < k => list[i].off <= c.off
      /\ \A i \in 1..Len(list) : i >= k => c.off < list[i].off
  <2>1. CASE I = {}
    BY <1>1, <2>1
  <2>2. CASE I # {}
    <3>1. I \in SUBSET Nat
      BY <1>1
    <3>2. k \in I /\ \A m \in I : k <= m
      <4>1. k = Min(I)
        BY <2>2
      <4> HIDE DEF I, k
      <4> QED
        BY <2>2, <3>1, <4>1, LeastIndex
    <3> HIDE DEF k
    <3>3. k \in 1..Len(list) /\ list[k].off > c.off
      BY <3>2
    <3>4. \A i \in 1..Len(list) : i < k => list[i].off <= c.off
      BY <1>1, <3>2, <3>3
    <3>5. \A i \in 1..Len(list) : i >= k => c.off < list[i].off
      BY <1>1, <3>3 DEF Sorted
    <3> QED
      BY <1>1, <3>3, <3>4, <3>5
  <2> QED
    BY <2>1, <2>2
<1> DEFINE s == SubSeq(list, 1, k - 1)
           m == <<c>>
           t == SubSeq(list, k, Len(list))
           r == s \o m \o t
<1>3. InsertSorted(list, c) = r
  <2>1. InsertSorted(list, c) = InsertAt(list, k, c)
    <3>1. InsertSorted(list, c) =
              InsertAt(list, IF SelectInSeq(list, LAMBDA d : d.off > c.off) = 0 THEN Len(list) + 1
                             ELSE SelectInSeq(list, LAMBDA d : d.off > c.off), c)
      BY DEF InsertSorted
    <3>2. SelectInSeq(list, LAMBDA d : d.off > c.off) = IF I # {} THEN Min(I) ELSE 0
      BY DEF SelectInSeq
    <3> QED
      BY <1>2, <3>1, <3>2
  <2> QED
    BY <2>1 DEF InsertAt
<1> HIDE DEF k, I
<1>4. /\ s \in Seq(Copies) /\ Len(s) = k - 1 /\ \A i \in 1..(k - 1) : s[i] = list[i]
      /\ t \in Seq(Copies) /\ Len(t) = Len(list) - k + 1
      /\ \A i \in 1..(Len(list) - k + 1) : t[i] = list[k + i - 1]
      /\ m \in Seq(Copies) /\ Len(m) = 1 /\ m[1] = c
  BY <1>1, <1>2
<1> HIDE DEF s, t, m
<1> DEFINE u == s \o m
<1>8. /\ u \in Seq(Copies) /\ Len(u) = k /\ u[k] = c
      /\ \A i \in 1..(k - 1) : u[i] = list[i]
  <2>1. k - 1 \in Nat /\ k \in Nat
    BY <1>1, <1>2
  <2>5. /\ u \in Seq(Copies) /\ Len(u) = Len(s) + Len(m)
        /\ \A i \in 1..Len(s) : u[i] = s[i]
        /\ \A i \in (Len(s) + 1)..(Len(s) + Len(m)) : u[i] = m[i - Len(s)]
    BY <1>4, ConcatIs
  <2> HIDE DEF u
  <2>2. u \in Seq(Copies) /\ Len(u) = k
    BY <1>4, <2>1, <2>5
  <2>3. u[k] = c
    <3>1. k \in (Len(s) + 1)..(Len(s) + Len(m)) /\ k - Len(s) = 1
      BY <1>4, <2>1
    <3> QED
      BY <1>4, <2>5, <3>1
  <2>4. \A i \in 1..(k - 1) : u[i] = s[i]
    BY <1>4, <2>1, <2>5
  <2> QED
    BY <1>4, <2>2, <2>3, <2>4
<1>9. r = u \o t
  OBVIOUS
<1> HIDE DEF u, r
<1>5. /\ r \in Seq(Copies) /\ Len(r) = Len(list) + 1
      /\ \A i \in 1..(k - 1) : r[i] = list[i]
      /\ r[k] = c
      /\ \A i \in (k + 1)..(Len(list) + 1) : r[i] = list[i - 1]
  <2>1. k - 1 \in Nat /\ k \in Nat /\ Len(t) \in Nat /\ Len(list) \in Nat
    BY <1>1, <1>2, <1>4
  <2>2. /\ r \in Seq(Copies) /\ Len(r) = Len(u) + Len(t)
        /\ \A i \in 1..Len(u) : r[i] = u[i]
        /\ \A i \in (Len(u) + 1)..(Len(u) + Len(t)) : r[i] = t[i - Len(u)]
    <3>0. u \in Seq(Copies) /\ t \in Seq(Copies)
      BY <1>4, <1>8
    <3> DEFINE w == u \o t
    <3>1. /\ w \in Seq(Copies) /\ Len(w) = Len(u) + Len(t)
          /\ \A i \in 1..Len(u) : w[i] = u[i]
          /\ \A i \in (Len(u) + 1)..(Len(u) + Len(t)) : w[i] = t[i - Len(u)]
      BY <3>0, ConcatIs
    <3> QED
      BY <1>9, <3>1
  <2>3. Len(u) + Len(t) = Len(list) + 1
    BY <1>2, <1>4, <1>8, <2>1
  <2>4. ASSUME NEW i \in (k + 1)..(Len(list) + 1) PROVE r[i] = list[i - 1]
    <3>1. i - k \in 1..(Len(list) - k + 1) /\ k + (i - k) - 1 = i - 1
      BY <2>1
    <3>2. r[i] = t[i - k]
      BY <1>8, <2>2, <2>3, <2>4
    <3>3. t[i - k] = list[k + (i - k) - 1]
      BY <1>4, <3>1
    <3> QED
      BY <3>1, <3>2, <3>3
  <2>5. ASSUME NEW i \in 1..(k - 1) PROVE r[i] = list[i]
    BY <1>8, <2>1, <2>2
  <2>6. r[k] = c
    BY <1>2, <1>8, <2>1, <2>2
  <2> QED
    BY <2>2, <2>3, <2>4, <2>5, <2>6
<1>6. Range(r) = Range(list) \cup {c}
  <2>1. Range(r) \subseteq Range(list) \cup {c}
    <3> SUFFICES ASSUME NEW i \in 1..(Len(list) + 1) PROVE r[i] \in Range(list) \cup {c}
      BY <1>5 DEF Range
    <3>1. CASE i \in 1..(k - 1)
      BY <1>1, <1>2, <1>5, <3>1 DEF Range
    <3>2. CASE i = k
      BY <1>5, <3>2
    <3>3. CASE i \in (k + 1)..(Len(list) + 1)
      <4>1. i - 1 \in 1..Len(list)
        BY <1>1, <1>2, <3>3
      <4> QED
        BY <1>5, <3>3, <4>1 DEF Range
    <3> QED
      BY <1>1, <1>2, <3>1, <3>2, <3>3
  <2>2. ASSUME NEW i \in 1..Len(list) PROVE list[i] \in Range(r)
    <3>1. CASE i < k
      <4>1. i \in 1..(k - 1) /\ i \in 1..Len(r)
        BY <1>1, <1>2, <1>5, <3>1
      <4> QED
        BY <1>5, <4>1 DEF Range
    <3>2. CASE i >= k
      <4>1. i + 1 \in (k + 1)..(Len(list) + 1) /\ i + 1 \in 1..Len(r) /\ (i + 1) - 1 = i
        BY <1>1, <1>2, <1>5, <3>2
      <4> QED
        BY <1>5, <4>1 DEF Range
    <3> QED
      BY <1>2, <3>1, <3>2
  <2>3. c \in Range(r)
    BY <1>1, <1>2, <1>5 DEF Range
  <2>4. Range(list) \subseteq Range(r)
    <3>1. DOMAIN list = 1..Len(list)
      OBVIOUS
    <3> QED
      BY <2>2, <3>1 DEF Range
  <2> QED
    BY <2>1, <2>3, <2>4
<1>7. Sorted(r)
  <2> SUFFICES ASSUME NEW i \in 1..(Len(list) + 1), NEW j \in 1..(Len(list) + 1), i < j
               PROVE  r[i].off <= r[j].off
    BY <1>5 DEF Sorted
  <2>1. /\ i \in 1..(k - 1) => i \in 1..Len(list) /\ r[i] = list[i]
        /\ j \in 1..(k - 1) => j \in 1..Len(list) /\ r[j] = list[j]
        /\ i \in (k + 1)..(Len(list) + 1) => i - 1 \in 1..Len(list) /\ r[i] = list[i - 1]
        /\ j \in (k + 1)..(Len(list) + 1) => j - 1 \in 1..Len(list) /\ r[j] = list[j - 1]
    BY <1>1, <1>2, <1>5
  <2>2. CASE i \in 1..(k - 1) /\ j \in 1..(k - 1)
    BY <2>1, <2>2 DEF Sorted
  <2>3. CASE i \in 1..(k - 1) /\ j = k
    BY <1>2, <1>5, <2>1, <2>3
  <2>4. CASE i \in 1..(k - 1) /\ j \in (k + 1)..(Len(list) + 1)
    <3>1. i < j - 1
      BY <1>2, <2>4
    <3> QED
      BY <2>1, <2>4, <3>1 DEF Sorted
  <2>5. CASE i = k /\ j \in (k + 1)..(Len(list) + 1)
    <3>1. j - 1 >= k
      BY <1>2, <2>5
    <3> QED
      BY <1>1, <1>2, <1>5, <2>1, <2>5, <3>1
  <2>6. CASE i \in (k + 1)..(Len(list) + 1) /\ j \in (k + 1)..(Len(list) + 1)
    <3>1. i - 1 < j - 1
      BY <1>2, <2>6
    <3> QED
      BY <2>1, <2>6, <3>1 DEF Sorted
  <2> QED
    BY <1>1, <1>2, <2>2, <2>3, <2>4, <2>5, <2>6
<1> QED
  BY <1>3, <1>5, <1>6, <1>7

\* The recursive function of check_completed is defined.
LEMMA WalkExists ==
    ASSUME NEW list \in Seq(Copies)
    PROVE  \E g : g = [i \in 0 .. Len(list) |->
                         IF i = 0 THEN 0
                         ELSE LET c == list[i] IN
                              IF g[i - 1] < c.off \/ g[i - 1] > c.off + c.len THEN g[i - 1]
                              ELSE c.off + c.len]
<1> DEFINE Further(d, c) == IF d < c.off \/ d > c.off + c.len THEN d ELSE c.off + c.len
           Good(n, g) == g[0] = 0 /\ \A i \in 1 .. n : g[i] = Further(g[i - 1], list[i])
           Bad == {n \in 0 .. Len(list) : ~ \E g \in [0 .. n -> Nat] : Good(n, g)}
<1>1. Len(list) \in Nat /\ \A i \in 1 .. Len(list) : list[i] \in Copies
  OBVIOUS
<1>0. \A d \in Nat : \A c \in Copies : Further(d, c) \in Nat
  BY CopyIs
<1> HIDE DEF Further
<1>2. Bad = {}
  <2> SUFFICES ASSUME Bad # {} PROVE FALSE
    OBVIOUS
  <2>1. Bad \in SUBSET Nat
    BY <1>1
  <2> DEFINE n == Min(Bad)
  <2>2. n \in Bad /\ \A m \in Bad : n <= m
    <3> HIDE DEF Bad
    <3> QED
      BY <2>1, LeastIndex
  <2>3. n \in 0 .. Len(list) /\ ~ \E g \in [0 .. n -> Nat] : Good(n, g)
    BY <2>2
  <2> HIDE DEF n
  <2>4. n # 0
    <3> DEFINE g == [i \in 0 .. 0 |-> 0]
    <3>1. g \in [0 .. 0 -> Nat] /\ g[0] = 0
      OBVIOUS
    <3>2. Good(0, g)
      BY <3>1
    <3> QED
      BY <2>3, <3>1, <3>2
  <2>5. n - 1 \in 0 .. Len(list) /\ n \in 1 .. Len(list)
    BY <1>1, <2>3, <2>4
  <2>6. PICK f \in [0 .. (n - 1) -> Nat] : Good(n - 1, f)
    <3>1. n - 1 \notin Bad
      <4> HIDE DEF Bad
      <4> QED
        BY <2>1, <2>2, <2>5
    <3> QED
      BY <2>5, <3>1
  <2> DEFINE last == Further(f[n - 1], list[n])
             g == [i \in 0 .. n |-> IF i = n THEN last ELSE f[i]]
  <2>7. list[n] \in Copies /\ f[n - 1] \in Nat
    BY <1>1, <2>5
  <2>8. last \in Nat
    BY <1>0, <2>7
  <2> HIDE DEF last
  <2>10. g \in [0 .. n -> Nat]
    BY <2>5, <2>6, <2>8
  <2>11. /\ g[n] = last
         /\ \A i \in 0 .. (n - 1) : i \in 0 .. n /\ i # n /\ g[i] = f[i]
    BY <2>5
  <2>12. g[0] = 0
    BY <2>5, <2>6, <2>11
  <2> HIDE DEF g
  <2>13. ASSUME NEW i \in 1 .. n PROVE g[i] = Further(g[i - 1], list[i])
    <3>1. CASE i = n
      <4>1. n - 1 \in 0 .. (n - 1)
        BY <2>5
      <4> QED
        BY <2>11, <3>1, <4>1 DEF last
    <3>2. CASE i # n
      <4>1. i \in 1 .. (n - 1) /\ i \in 0 .. (n - 1) /\ i - 1 \in 0 .. (n - 1)
        BY <2>5, <3>2
      <4>2. f[i] = Further(f[i - 1], list[i])
        BY <2>6, <4>1
      <4> QED
        BY <2>11, <4>1, <4>2
    <3> QED
      BY <3>1, <3>2
  <2>15. Good(n, g)
    BY <2>12, <2>13
  <2> QED
    BY <2>3, <2>10, <2>15
<1>3. PICK g \in [0 .. Len(list) -> Nat] : Good(Len(list), g)
  <2> DEFINE Extends(n) == \E g \in [0 .. n -> Nat] : Good(n, g)
  <2>1. \A n \in 0 .. Len(list) : Extends(n)
    BY <1>2
  <2>2. Len(list) \in 0 .. Len(list)
    BY <1>1
  <2>3. Extends(Len(list))
    <3> HIDE DEF Extends
    <3> QED
      BY <2>1, <2>2
  <2> QED
    BY <2>3
<1>4. g = [i \in 0 .. Len(list) |-> IF i = 0 THEN 0 ELSE Further(g[i - 1], list[i])]
  <2>1. \A i \in 0 .. Len(list) : g[i] = IF i = 0 THEN 0 ELSE Further(g[i - 1], list[i])
    <3> TAKE i \in 0 .. Len(list)
    <3>1. i # 0 => i \in 1 .. Len(list)
      BY <1>1
    <3> QED
      BY <1>3, <3>1
  <2> QED
    BY <1>3, <2>1
<1> QED
  BY <1>4 DEF Further

\* What a step of the walk does to done_up_to.
Further(d, c) == IF d < c.off \/ d > c.off + c.len THEN d ELSE c.off + c.len

LEMMA WalkIs ==
    ASSUME NEW list \in Seq(Copies)
    PROVE  /\ Walk(list)[0] = 0
           /\ \A i \in 1 .. Len(list) : Walk(list)[i] = Further(Walk(list)[i - 1], list[i])
           /\ \A i \in 0 .. Len(list) : Walk(list)[i] \in 0 .. Total
<1> DEFINE Recursive(h) ==
              h = [i \in 0 .. Len(list) |->
                         IF i = 0 THEN 0
                         ELSE LET c == list[i] IN
                              IF h[i - 1] < c.off \/ h[i - 1] > c.off + c.len THEN h[i - 1]
                              ELSE c.off + c.len]
           g == CHOOSE h : Recursive(h)
           Bad == {n \in 0 .. Len(list) : g[n] \notin 0 .. Total}
<1>1. Walk(list) = g
  BY DEF Walk
<1>2. Recursive(g)
  <2>1. \E h : Recursive(h)
    BY WalkExists
  <2> HIDE DEF Recursive
  <2> QED
    BY <2>1
<1>3. /\ g[0] = 0
      /\ \A i \in 1 .. Len(list) : g[i] = Further(g[i - 1], list[i])
  <2>1. /\ Len(list) \in Nat /\ 0 \in 0 .. Len(list)
        /\ \A i \in 1 .. Len(list) : i \in 0 .. Len(list) /\ i # 0
    OBVIOUS
  <2> HIDE DEF g
  <2> QED
    BY <1>2, <2>1 DEF Further
<1>4. /\ Len(list) \in Nat /\ Total \in Nat
      /\ \A i \in 1 .. Len(list) : list[i] \in Copies
  BY SizesAssumption
<1> HIDE DEF g, Recursive
<1>5. Bad = {}
  <2> SUFFICES ASSUME Bad # {} PROVE FALSE
    OBVIOUS
  <2>1. Bad \in SUBSET Nat
    BY <1>4
  <2> DEFINE n == Min(Bad)
  <2>2. n \in Bad /\ \A m \in Bad : n <= m
    <3> HIDE DEF Bad
    <3> QED
      BY <2>1, LeastIndex
  <2> HIDE DEF n
  <2>3. n \in 0 .. Len(list) /\ g[n] \notin 0 .. Total
    BY <2>2
  <2>4. n # 0
    BY <1>3, <1>4, <2>3
  <2>5. n - 1 \in 0 .. Len(list) /\ n \in 1 .. Len(list) /\ n - 1 < n
    BY <1>4, <2>3, <2>4
  <2>6. g[n - 1] \in 0 .. Total
    <3>1. n - 1 \notin Bad
      <4> HIDE DEF Bad
      <4> QED
        BY <2>1, <2>2, <2>5
    <3> QED
      BY <2>5, <3>1
  <2>7. g[n] = Further(g[n - 1], list[n]) /\ list[n] \in Copies
    BY <1>3, <1>4, <2>5
  <2>8. \A c \in Copies : \A d \in 0 .. Total : Further(d, c) \in 0 .. Total
    BY <1>4, CopyIs DEF Further
  <2> QED
    BY <2>3, <2>6, <2>7, <2>8
<1> QED
  BY <1>1, <1>3, <1>5

\* Without a hole, all units before done_up_to are covered.
LEMMA WalkCovers ==
    ASSUME NEW list \in Seq(Copies), NEW w, w = Walk(list),
           \A i \in 1 .. Len(list) : w[i - 1] >= list[i].off
    PROVE  \A n \in 0 .. Len(list) : \A u \in Nat : u < w[n] => u \in Covered(Range(list))
<1> DEFINE Reached(n) == \A u \in Nat : u < w[n] => u \in Covered(Range(list))
           Bad == {n \in 0 .. Len(list) : ~Reached(n)}
<1>1. /\ Len(list) \in Nat /\ Total \in Nat
      /\ \A i \in 1 .. Len(list) : list[i] \in Copies /\ list[i] \in Range(list)
      /\ Range(list) \subseteq Copies
  BY SizesAssumption DEF Range
<1>2. /\ w[0] = 0 /\ \A i \in 0 .. Len(list) : w[i] \in 0 .. Total
      /\ \A i \in 1 .. Len(list) : w[i] = Further(w[i - 1], list[i])
  BY WalkIs
<1>3. Bad = {}
  <2> SUFFICES ASSUME Bad # {} PROVE FALSE
    OBVIOUS
  <2>1. Bad \in SUBSET Nat
    BY <1>1
  <2> DEFINE n == Min(Bad)
  <2>2. n \in Bad /\ \A m \in Bad : n <= m
    <3> HIDE DEF Bad
    <3> QED
      BY <2>1, LeastIndex
  <2> HIDE DEF n
  <2>3. n \in 0 .. Len(list) /\ ~Reached(n)
    BY <2>2
  <2>4. n # 0
    BY <1>2, <2>3
  <2>5. n - 1 \in 0 .. Len(list) /\ n \in 1 .. Len(list) /\ n - 1 < n
    BY <1>1, <2>3, <2>4
  <2>6. Reached(n - 1)
    <3>1. n - 1 \notin Bad
      <4> HIDE DEF Bad
      <4> QED
        BY <2>1, <2>2, <2>5
    <3> HIDE DEF Reached
    <3> QED
      BY <2>5, <3>1
  <2>7. PICK c \in Copies : c = list[n]
    BY <1>1, <2>5
  <2>8. /\ w[n] = Further(w[n - 1], c) /\ w[n - 1] \in Nat /\ w[n] \in Nat /\ w[n - 1] >= c.off
        /\ c.off \in Nat /\ c.len \in Nat
    BY <1>1, <1>2, <2>5, <2>7, CopyIs
  <2>9. ASSUME NEW u \in Nat, u < w[n] PROVE u \in Covered(Range(list))
    <3>1. CASE u < w[n - 1]
      BY <2>6, <3>1
    <3>2. CASE u >= w[n - 1]
      <4>1. w[n] = c.off + c.len
        BY <2>8, <2>9, <3>2 DEF Further
      <4>2. u \in Units(c)
        BY <2>8, <2>9, <3>2, <4>1, UnitsAre
      <4>3. c \in Range(list)
        BY <1>1, <2>5, <2>7
      <4> QED
        BY <1>1, <4>2, <4>3, CoveredIs
    <3> QED
      BY <2>8, <3>1, <3>2
  <2> QED
    BY <2>3, <2>9
<1> QED
  BY <1>3

\* Of fragments that cover the payload, the first ones have no hole, and
\* done_up_to has passed each of them.
LEMMA WalkPasses ==
    ASSUME NEW list \in Seq(Copies), Sorted(list), Covered(Range(list)) = AllUnits,
           NEW w, w = Walk(list)
    PROVE  /\ \A i \in 1 .. Len(list) : w[i - 1] >= list[i].off
           /\ \A j \in 1 .. Len(list) : w[Len(list)] >= list[j].off + list[j].len
<1> DEFINE Passed(n) == /\ \A i \in 1 .. n : w[i - 1] >= list[i].off
                        /\ \A j \in 1 .. n : w[n] >= list[j].off + list[j].len
           Bad == {n \in 0 .. Len(list) : ~Passed(n)}
<1>1. /\ Len(list) \in Nat /\ Total \in Nat
      /\ \A i \in 1 .. Len(list) : list[i] \in Copies /\ list[i] \in Range(list)
      /\ Range(list) \subseteq Copies
  BY SizesAssumption DEF Range
<1>0. /\ \A i \in 1 .. Len(list) :
            list[i].off \in Nat /\ list[i].len \in Nat \ {0} /\ list[i].off + list[i].len <= Total
  BY <1>1, CopyIs
<1>2. /\ w[0] = 0 /\ \A i \in 0 .. Len(list) : w[i] \in 0 .. Total
      /\ \A i \in 1 .. Len(list) : w[i] = Further(w[i - 1], list[i])
  BY WalkIs
<1>3. Bad = {}
  <2> SUFFICES ASSUME Bad # {} PROVE FALSE
    OBVIOUS
  <2>1. Bad \in SUBSET Nat
    BY <1>1
  <2> DEFINE n == Min(Bad)
  <2>2. n \in Bad /\ \A m \in Bad : n <= m
    <3> HIDE DEF Bad
    <3> QED
      BY <2>1, LeastIndex
  <2> HIDE DEF n
  <2>3. n \in 0 .. Len(list) /\ ~Passed(n)
    BY <2>2
  <2>4. n # 0
    BY <2>3
  <2>5. n - 1 \in 0 .. Len(list) /\ n \in 1 .. Len(list) /\ n - 1 < n
    BY <1>1, <2>3, <2>4
  <2>6. Passed(n - 1)
    <3>1. n - 1 \notin Bad
      <4> HIDE DEF Bad
      <4> QED
        BY <2>1, <2>2, <2>5
    <3> HIDE DEF Passed
    <3> QED
      BY <2>5, <3>1
  <2> DEFINE d == w[n - 1]
             o == list[n].off
             l == list[n].len
  <2>7. /\ d \in Nat /\ o \in Nat /\ l \in Nat \ {0} /\ o + l <= Total
        /\ w[n] = Further(d, list[n])
        /\ w[n] = IF d < o \/ d > o + l THEN d ELSE o + l
    BY <1>0, <1>1, <1>2, <2>5 DEF Further
  <2>8. \A j \in 1 .. (n - 1) : d >= list[j].off + list[j].len
    BY <2>6
  <2> HIDE DEF d, o, l
  <2>9. d >= o
    <3> SUFFICES ASSUME d < o PROVE FALSE
      BY <2>7
    <3>1. d \in AllUnits
      BY <1>1, <2>7 DEF AllUnits
    <3>2. PICK c \in Range(list) : d \in Units(c)
      BY <1>1, <3>1, CoveredIs
    <3>3. PICK j \in 1 .. Len(list) : c = list[j]
      BY <3>2 DEF Range
    <3>4. c.off <= d /\ d < c.off + c.len
      BY <1>1, <3>2, UnitsAre
    <3>5. j < n
      <4> SUFFICES ASSUME j >= n PROVE FALSE
        BY <2>5
      <4>1. o <= c.off
        BY <1>0, <2>5, <3>3 DEF Sorted, o
      <4> QED
        BY <1>0, <2>7, <3>3, <3>4, <4>1
    <3>6. d >= c.off + c.len
      BY <2>5, <2>8, <3>3, <3>5
    <3> QED
      BY <1>0, <2>7, <3>3, <3>4, <3>6
  <2>10. w[n] >= o + l /\ w[n] >= d /\ w[n] \in Nat
    BY <2>7, <2>9
  <2>11. ASSUME NEW i \in 1 .. n PROVE w[i - 1] >= list[i].off
    <3>1. CASE i = n
      BY <2>9, <3>1 DEF d, o
    <3>2. CASE i # n
      BY <2>5, <2>6, <3>2
    <3> QED
      BY <3>1, <3>2
  <2>12. ASSUME NEW j \in 1 .. n PROVE w[n] >= list[j].off + list[j].len
    <3>1. CASE j = n
      BY <2>10, <3>1 DEF o, l
    <3>2. CASE j # n
      <4>1. d >= list[j].off + list[j].len
        BY <2>5, <2>8, <3>2
      <4>2. list[j].off + list[j].len \in Nat
        BY <1>0, <2>5
      <4> QED
        BY <2>7, <2>10, <4>1, <4>2
    <3> QED
      BY <3>1, <3>2
  <2> QED
    BY <2>3, <2>11, <2>12
<1> QED
  <2>1. Len(list) \in 0 .. Len(list)
    BY <1>1
  <2>2. Passed(Len(list))
    <3> HIDE DEF Passed
    <3> QED
      BY <1>3, <2>1
  <2> QED
    BY <2>2

\* check_completed tells exactly whether the fragments make up the bundle.
LEMMA CheckCompletedIs ==
    ASSUME NEW list \in Seq(Copies), Sorted(list)
    PROVE  CheckCompleted(list) <=> Covered(Range(list)) = AllUnits
<1> DEFINE w == Walk(list)
<1>1. /\ Len(list) \in Nat /\ Total \in Nat \ {0} /\ DOMAIN list = 1..Len(list)
      /\ \A i \in 1 .. Len(list) : list[i] \in Copies /\ list[i].off \in Nat
      /\ Range(list) \subseteq Copies
  BY SizesAssumption, CopyIs DEF Range
<1>2. w[0] = 0 /\ \A i \in 0 .. Len(list) : w[i] \in 0 .. Total
  BY WalkIs
<1>3. DoneUpTo(list) = IF \E i \in 1..Len(list) : w[i - 1] < list[i].off THEN 0
                       ELSE w[Len(list)]
  BY <1>1 DEF DoneUpTo
<1>4. Len(list) \in 0 .. Len(list) /\ \A i \in 1..Len(list) : i - 1 \in 0 .. Len(list)
  BY <1>1
<1>5. PICK v : v = w
  OBVIOUS
<1> HIDE DEF w
<1>6. ASSUME CheckCompleted(list) PROVE Covered(Range(list)) = AllUnits
  <2>1. /\ \A i \in 1..Len(list) : ~(w[i - 1] < list[i].off)
        /\ w[Len(list)] = Total
    BY <1>1, <1>3, <1>6 DEF CheckCompleted
  <2>2. \A i \in 1..Len(list) : v[i - 1] >= list[i].off
    BY <1>1, <1>2, <1>4, <1>5, <2>1
  <2>3. \A u \in Nat : u < v[Len(list)] => u \in Covered(Range(list))
    BY <1>4, <1>5, <2>2, WalkCovers DEF w
  <2>4. AllUnits \subseteq Covered(Range(list))
    BY <1>1, <1>5, <2>1, <2>3 DEF AllUnits
  <2> QED
    BY <1>1, <2>4, CoveredIs
<1>7. ASSUME Covered(Range(list)) = AllUnits PROVE CheckCompleted(list)
  <2>1. /\ \A i \in 1 .. Len(list) : v[i - 1] >= list[i].off
        /\ \A j \in 1 .. Len(list) : v[Len(list)] >= list[j].off + list[j].len
    BY <1>5, <1>7, WalkPasses DEF w
  <2>2. Total - 1 \in AllUnits
    BY <1>1 DEF AllUnits
  <2>3. PICK c \in Range(list) : Total - 1 \in Units(c)
    BY <1>1, <1>7, <2>2, CoveredIs
  <2>4. PICK j \in 1..Len(list) : c = list[j]
    BY <1>1, <2>3 DEF Range
  <2>5. Total - 1 < c.off + c.len /\ c.off \in Nat /\ c.len \in Nat
    BY <1>1, <2>3, UnitsAre, CopyIs
  <2>6. v[Len(list)] >= c.off + c.len
    BY <2>1, <2>4
  <2>7. v[Len(list)] = Total
    BY <1>1, <1>2, <1>4, <1>5, <2>5, <2>6
  <2>8. \A i \in 1..Len(list) : ~(w[i - 1] < list[i].off)
    BY <1>1, <1>2, <1>4, <1>5, <2>1
  <2> QED
    BY <1>3, <1>5, <2>7, <2>8 DEF CheckCompleted
<1> QED
  BY <1>6, <1>7

-----------------------------------------------------------------------------
(* Copies and events.                                                      *)

LEMMA MakeCopies ==
    /\ \A id \in Nat : Whole(id) \in Copies /\ Whole(id).id = id /\ Whole(id).whole
    /\ \A id \in Nat, off \in Nat, len \in Nat \ {0} :
          off + len <= Total =>
              /\ Fragment(id, off, len) \in Copies /\ Fragment(id, off, len).id = id
              /\ ~Fragment(id, off, len).whole
              /\ Fragment(id, off, len).off = off /\ Fragment(id, off, len).len = len
<1>1. Total \in Nat \ {0}
  BY SizesAssumption
<1>2. ASSUME NEW id \in Nat
      PROVE  Whole(id) \in Copies /\ Whole(id).id = id /\ Whole(id).whole
  BY <1>1 DEF Whole, Copies
<1>3. ASSUME NEW id \in Nat, NEW off \in Nat, NEW len \in Nat \ {0}, off + len <= Total
      PROVE  /\ Fragment(id, off, len) \in Copies /\ Fragment(id, off, len).id = id
             /\ ~Fragment(id, off, len).whole
             /\ Fragment(id, off, len).off = off /\ Fragment(id, off, len).len = len
  BY <1>3 DEF Fragment, Copies
<1> QED
  BY <1>2, <1>3

LEMMA FormattedIs ==
    ASSUME NEW c \in Copies
    PROVE  Formatted(c) \in Nat /\ Formatted(c) > HeaderLen /\ HeaderLen \in Nat \ {0}
<1>1. c.len \in Nat \ {0} /\ HeaderLen \in Nat \ {0} /\ TrailerLen \in Nat
  BY CopyIs, SizesAssumption
<1> QED
  BY <1>1 DEF Formatted

\* What arrived of a copy.
LEMMA ArrivedIs ==
    ASSUME NEW c \in Copies, NEW bytes \in Nat, bytes = Formatted(c) \/ bytes > HeaderLen
    PROVE  \/ Arrived(c, bytes) = {}
           \/ \E d \in Copies : /\ Arrived(c, bytes) = {d} /\ d.id = c.id
                                /\ Units(d) \subseteq Units(c)
<1>1. CASE bytes = Formatted(c)
  BY <1>1 DEF Arrived
<1>2. CASE bytes # Formatted(c) /\ c.len <= 1
  BY <1>2 DEF Arrived
<1>3. CASE bytes # Formatted(c) /\ ~(c.len <= 1)
  <2> DEFINE o == c.off
             k == Least(bytes - HeaderLen, c.len - 1)
             d == Fragment(c.id, o, k)
  <2>1. /\ c.id \in Nat /\ o \in Nat /\ c.len \in Nat /\ c.len > 1 /\ o + c.len <= Total
        /\ Total \in Nat /\ HeaderLen \in Nat /\ bytes > HeaderLen
    BY <1>3, CopyIs, SizesAssumption
  <2>2. k \in Nat \ {0} /\ k < c.len
    BY <2>1 DEF Least
  <2>3. Arrived(c, bytes) = {d}
    BY <1>3 DEF Arrived
  <2> HIDE DEF o, k
  <2>4. d \in Copies /\ d.id = c.id /\ d.off = o /\ d.len = k
    BY <2>1, <2>2, MakeCopies
  <2> HIDE DEF d
  <2>5. Units(d) \subseteq Units(c)
    <3>1. \A u : u \in Units(d) => u \in Nat /\ o <= u /\ u < o + k
      BY <2>4, UnitsAre
    <3>2. \A u : u \in Nat /\ o <= u /\ u < o + c.len => u \in Units(c)
      BY UnitsAre DEF o
    <3> QED
      BY <2>1, <2>2, <3>1, <3>2
  <2> QED
    BY <2>3, <2>4, <2>5
<1> QED
  BY <1>1, <1>2, <1>3

\* What is left of a copy whose transmission was acknowledged in part.
LEMMA TailsAre ==
    ASSUME NEW c \in Copies, NEW acked \in Nat, NEW id \in Nat
    PROVE  \/ Tails(c, acked, id) = {}
           \/ \E t \in Copies : /\ Tails(c, acked, id) = {t} /\ t.id = id
                                /\ Units(t) \subseteq Units(c)
                                /\ Units(c) \subseteq Acked(c, acked) \cup Units(t)
<1>1. CASE acked <= HeaderLen \/ acked >= Formatted(c) \/ c.len <= 1
  BY <1>1 DEF Tails
<1>2. CASE ~(acked <= HeaderLen \/ acked >= Formatted(c) \/ c.len <= 1)
  <2> DEFINE o == c.off
             l == c.len
             k == Least(acked - HeaderLen, l - 1)
             t == Fragment(id, o + k, l - k)
  <2>1. /\ o \in Nat /\ l \in Nat /\ l > 1 /\ o + l <= Total
        /\ Total \in Nat /\ HeaderLen \in Nat /\ acked > HeaderLen
    BY <1>2, CopyIs, SizesAssumption
  <2>2. Tails(c, acked, id) = {t}
    BY <1>2 DEF Tails
  <2>3. Acked(c, acked) = o .. (o + k - 1)
    BY <1>2 DEF Acked
  <2>4. \A u : u \in Units(c) <=> u \in Nat /\ o <= u /\ u < o + l
    BY UnitsAre
  <2> HIDE DEF o, l
  <2>5. k \in Nat \ {0} /\ k < l
    BY <2>1 DEF Least
  <2> HIDE DEF k
  <2>6. o + k \in Nat /\ l - k \in Nat \ {0} /\ (o + k) + (l - k) <= Total
    BY <2>1, <2>5
  <2>7. t \in Copies /\ t.id = id /\ t.off = o + k /\ t.len = l - k
    BY <2>6, MakeCopies
  <2> HIDE DEF t
  <2>8. \A u : u \in Units(t) <=> u \in Nat /\ o + k <= u /\ u < (o + k) + (l - k)
    BY <2>7, UnitsAre
  <2>9. Units(t) \subseteq Units(c)
    BY <2>1, <2>4, <2>5, <2>8
  <2>10. Units(c) \subseteq Acked(c, acked) \cup Units(t)
    BY <2>1, <2>3, <2>4, <2>5, <2>8
  <2> QED
    BY <2>2, <2>7, <2>9, <2>10
<1> QED
  BY <1>1, <1>2

LEMMA EventIs ==
    ASSUME NEW e \in Events
    PROVE  /\ e.copy \in Copies /\ e.copy \in CopiesOf(e) /\ CopiesOf(e) \subseteq Copies
           /\ e.type = "received" => e \in Receptions
           /\ e.type = "transmitted" => e \in Reports
           /\ e.type = "completed" => e \in Completions
           /\ e.type # "completed" => CopiesOf(e) = {e.copy}
<1>1. /\ e \in Receptions => e.type = "received" /\ e.copy \in Copies
      /\ e \in Reports => e.type = "transmitted" /\ e.copy \in Copies
      /\ e \in Completions => e.type = "completed" /\ e.copy \in Copies /\ e.list \in Seq(Copies)
      /\ e \in Notices => /\ e.type \notin {"received", "transmitted", "completed"}
                          /\ e.copy \in Copies
  BY DEF Receptions, Reports, Completions, Notices
<1>2. \/ e \in Receptions \/ e \in Reports \/ e \in Completions \/ e \in Notices
  BY DEF Events
<1>3. e.copy \in CopiesOf(e) /\ (e.type # "completed" => CopiesOf(e) = {e.copy})
  BY DEF CopiesOf
<1>4. e.type = "completed" => CopiesOf(e) \subseteq Copies
  <2> SUFFICES ASSUME e.type = "completed" PROVE CopiesOf(e) \subseteq Copies
    OBVIOUS
  <2>1. e.copy \in Copies /\ e.list \in Seq(Copies)
    BY <1>1, <1>2
  <2>2. Range(e.list) \subseteq Copies
    BY <2>1, ElementsOf, RangeIs
  <2> QED
    BY <2>1, <2>2 DEF CopiesOf
<1> QED
  BY <1>1, <1>2, <1>3, <1>4

LEMMA LoadIs ==
    ASSUME NEW e \in Loads
    PROVE  /\ e.type = "received" /\ e.source = "store" /\ e.copy \in Copies
           /\ CopiesOf(e) = {e.copy}
BY DEF Loads, CopiesOf

LEMMA ReceptionIs ==
    ASSUME NEW e \in Receptions
    PROVE  /\ e \in Events /\ e.type = "received" /\ e.copy \in Copies /\ e.bytes \in Nat
           /\ e.source \in {"app", "peer", "tail", "reassembled"}
           /\ e.source = "peer" => e.bytes = Formatted(e.copy) \/ e.bytes > HeaderLen
BY DEF Receptions, Events

LEMMA CompletionIs ==
    ASSUME NEW e \in Completions
    PROVE  /\ e \in Events /\ e.type = "completed" /\ e.copy \in Copies /\ e.copy.whole
           /\ e.list \in Seq(Copies) /\ Range(e.list) \subseteq Copies
           /\ Covered(Range(e.list)) = AllUnits /\ e.data = AllUnits
<1>1. /\ e \in Events /\ e.type = "completed" /\ e.copy \in Copies /\ e.copy.whole
      /\ e.list \in Seq(Copies)
      /\ Covered(Range(e.list)) = AllUnits /\ e.data = AllUnits
  BY DEF Completions, Events
<1> QED
  BY <1>1, ElementsOf, RangeIs

LEMMA ReportIs ==
    ASSUME NEW e \in Reports
    PROVE  e \in Events /\ e.type = "transmitted" /\ e.copy \in Copies /\ e.acked \in Nat
BY DEF Reports, Events

LEMMA NoticeIs ==
    ASSUME NEW e \in Notices
    PROVE  /\ e \in Events /\ e.copy \in Copies
           /\ e.type \in {"expired", "delete", "delivered", "free"} /\ CopiesOf(e) = {e.copy}
BY DEF Notices, Events, CopiesOf

LEMMA MakeNotice ==
    ASSUME NEW c \in Copies, NEW type \in {"expired", "delete", "delivered", "free"}
    PROVE  /\ About(type, c) \in Notices /\ About(type, c).type = type
           /\ About(type, c).copy = c
BY DEF About, Notices

LEMMA MakeReception ==
    ASSUME NEW c \in Copies, NEW bytes \in Nat,
           NEW source \in {"app", "peer", "tail", "reassembled"},
           source = "peer" => bytes = Formatted(c) \/ bytes > HeaderLen
    PROVE  /\ Received(c, bytes, source) \in Receptions
           /\ Received(c, bytes, source).type = "received"
           /\ Received(c, bytes, source).copy = c
           /\ Received(c, bytes, source).bytes = bytes
           /\ Received(c, bytes, source).source = source
BY DEF Received, Receptions

LEMMA MakeReport ==
    ASSUME NEW c \in Copies, NEW acked \in Nat
    PROVE  /\ Transmitted(c, acked) \in Reports /\ Transmitted(c, acked).type = "transmitted"
           /\ Transmitted(c, acked).copy = c /\ Transmitted(c, acked).acked = acked
BY DEF Transmitted, Reports

LEMMA MakeCompletion ==
    ASSUME NEW c \in Copies, c.whole, NEW list \in Seq(Copies),
           NEW data, data = AllUnits, Covered(Range(list)) = AllUnits
    PROVE  /\ Completed(c, list, data) \in Completions
           /\ Completed(c, list, data).type = "completed"
           /\ Completed(c, list, data).copy = c /\ Completed(c, list, data).list = list
BY DEF Completed, Completions

\* What a received event brings, if anything, has the id of its copy.
LEMMA ComesIs ==
    ASSUME NEW e \in Events \cup Loads, e.type = "received"
    PROVE  \/ Comes(e) = {}
           \/ \E d \in Copies : /\ Comes(e) = {d} /\ d.id = e.copy.id
                                /\ Units(d) \subseteq Units(e.copy)
<1>1. CASE e \in Loads
  BY <1>1, LoadIs DEF Comes
<1>2. CASE e \in Events
  <2>1. e \in Receptions
    BY <1>2, EventIs
  <2>2. CASE e.source = "peer"
    <3>1. Comes(e) = Arrived(e.copy, e.bytes)
      BY <2>2 DEF Comes
    <3> QED
      BY <2>1, <2>2, <3>1, ReceptionIs, ArrivedIs
  <2>3. CASE e.source # "peer"
    <3>1. Comes(e) = {e.copy}
      BY <2>3 DEF Comes
    <3> QED
      BY <2>1, <3>1, ReceptionIs
  <2> QED
    BY <2>2, <2>3
<1> QED
  BY <1>1, <1>2

-----------------------------------------------------------------------------
(* The queues.                                                             *)

LEMMA FiniteRange ==
    ASSUME NEW S, NEW q \in Seq(S)
    PROVE  IsFiniteSet(Range(q))
<1> DEFINE R == Range(q)
<1>1. Len(q) \in Nat /\ q \in [1..Len(q) -> R] /\ \A e \in R : \E i \in 1..Len(q) : q[i] = e
  BY DEF Range
<1> HIDE DEF R
<1>2. q \in Surjection(1..Len(q), R)
  BY <1>1 DEF Surjection
<1>3. IsFiniteSet(1..Len(q))
  BY <1>1, FS_Interval
<1> QED
  BY <1>2, <1>3, FS_Surjection DEF R

LEMMA QueuedIs ==
    ASSUME NEW q \in Seq(Events \cup Loads)
    PROVE  /\ Queued(q) \subseteq Copies /\ IsFiniteSet(Queued(q))
           /\ \A e \in Range(q) : CopiesOf(e) \subseteq Queued(q)
<1> DEFINE S == {CopiesOf(e) : e \in Range(q)}
           f == [e \in Range(q) |-> CopiesOf(e)]
<1>1. Range(q) \subseteq Events \cup Loads
  BY ElementsOf, RangeIs
<1>2. \A e \in Range(q) : CopiesOf(e) \subseteq Copies
  BY <1>1, EventIs, LoadIs
<1>3. \A e \in Range(q) : IsFiniteSet(CopiesOf(e))
  <2> SUFFICES ASSUME NEW e \in Range(q) PROVE IsFiniteSet(CopiesOf(e))
    OBVIOUS
  <2>1. IsFiniteSet({e.copy})
    BY FS_Singleton
  <2>2. CASE e.type = "completed"
    <3>1. e.list \in Seq(Copies)
      <4>1. e \in Events
        BY <1>1, <2>2, LoadIs
      <4> QED
        BY <2>2, <4>1, EventIs, CompletionIs
    <3>2. IsFiniteSet(Range(e.list))
      BY <3>1, FiniteRange
    <3>3. CopiesOf(e) = {e.copy} \cup Range(e.list)
      BY <2>2 DEF CopiesOf
    <3> QED
      BY <2>1, <3>2, <3>3, FS_Union
  <2>3. CASE e.type # "completed"
    <3>1. CopiesOf(e) = {e.copy}
      BY <2>3 DEF CopiesOf
    <3> QED
      BY <2>1, <3>1
  <2> QED
    BY <2>2, <2>3
<1>4. IsFiniteSet(S)
  <2>1. f \in Surjection(Range(q), S)
    BY DEF Surjection
  <2>2. IsFiniteSet(Range(q))
    BY FiniteRange
  <2> HIDE DEF f, S
  <2> QED
    BY <2>1, <2>2, FS_Surjection
<1>5. IsFiniteSet(UNION S)
  <2>1. \A T \in S : IsFiniteSet(T)
    BY <1>3
  <2> HIDE DEF S
  <2> QED
    BY <1>4, <2>1, FS_UNION
<1>6. Queued(q) = UNION S
  BY DEF Queued
<1> QED
  BY <1>2, <1>5, <1>6

\* An id that is not in use can be chosen.
LEMMA Fresh ==
    ASSUME NEW used, IsFiniteSet(used)
    PROVE  LET i == CHOOSE j \in 1..(Cardinality(used) + 1) : j \notin used
           IN  i \in Nat /\ i \notin used
<1> DEFINE k == Cardinality(used)
<1>1. k \in Nat
  BY FS_CardinalityType
<1>2. \E j \in 1..(k + 1) : j \notin used
  <2> SUFFICES ASSUME 1..(k + 1) \subseteq used PROVE FALSE
    OBVIOUS
  <2>1. Cardinality(1..(k + 1)) <= k
    BY FS_Subset
  <2>2. Cardinality(1..(k + 1)) = k + 1
    <3> HIDE DEF k
    <3>1. Cardinality(1..(k + 1)) = IF 1 > k + 1 THEN 0 ELSE (k + 1) - 1 + 1
      BY <1>1, FS_Interval
    <3> QED
      BY <1>1, <3>1
  <2> HIDE DEF k
  <2> QED
    BY <1>1, <2>1, <2>2
<1> HIDE DEF k
<1>3. (CHOOSE j \in 1..(k + 1) : j \notin used) \in 1..(k + 1)
  BY <1>2
<1>4. (CHOOSE j \in 1..(k + 1) : j \notin used) \notin used
  BY <1>2
<1> QED
  BY <1>1, <1>3, <1>4 DEF k

\* The copies that node n knows of, and the id that it gives to the next one.
Known(n) == pending[n] \cup store[n] \cup Queued(eventq[n]) \cup Queued(loading[n]) \cup handed

LEMMA FreshIs ==
    ASSUME Types, NEW n \in Nodes
    PROVE  /\ FreshId(n) \in Nat
           /\ \A c \in Known(n) : c.id # FreshId(n)
<1> DEFINE K == Known(n)
           used == {c.id : c \in K}
           f == [c \in K |-> c.id]
<1>1. eventq[n] \in Seq(Events \cup Loads) /\ loading[n] \in Seq(Events \cup Loads)
  <2>1. eventq[n] \in Seq(Events) /\ loading[n] \in Seq(Loads)
    BY DEF Types
  <2> DEFINE q == eventq[n]
             l == loading[n]
  <2>2. q \in [1..Len(q) -> Events] /\ l \in [1..Len(l) -> Loads] /\ Len(q) \in Nat /\ Len(l) \in Nat
    BY <2>1
  <2> HIDE DEF q, l
  <2>3. q \in [1..Len(q) -> Events \cup Loads] /\ l \in [1..Len(l) -> Events \cup Loads]
    BY <2>2
  <2>4. q \in Seq(Events \cup Loads) /\ l \in Seq(Events \cup Loads)
    BY <2>2, <2>3, SeqDef
  <2> QED
    BY <2>4 DEF q, l
<1>2. IsFiniteSet(K)
  <2>1. IsFiniteSet(pending[n]) /\ IsFiniteSet(store[n]) /\ IsFiniteSet(handed)
    BY DEF Types
  <2>2. IsFiniteSet(Queued(eventq[n])) /\ IsFiniteSet(Queued(loading[n]))
    BY <1>1, QueuedIs
  <2>3. IsFiniteSet(pending[n] \cup store[n])
    BY <2>1, FS_Union
  <2>4. IsFiniteSet(pending[n] \cup store[n] \cup Queued(eventq[n]))
    BY <2>2, <2>3, FS_Union
  <2>5. IsFiniteSet(pending[n] \cup store[n] \cup Queued(eventq[n]) \cup Queued(loading[n]))
    BY <2>2, <2>4, FS_Union
  <2> QED
    BY <2>1, <2>5, FS_Union DEF Known
<1>3. IsFiniteSet(used)
  <2>1. f \in Surjection(K, used)
    BY DEF Surjection
  <2> HIDE DEF f, used, K
  <2> QED
    BY <1>2, <2>1, FS_Surjection
<1>4. FreshId(n) = CHOOSE j \in 1..(Cardinality(used) + 1) : j \notin used
  BY DEF FreshId, Known
<1>5. FreshId(n) \in Nat /\ FreshId(n) \notin used
  <2> HIDE DEF used
  <2> QED
    BY <1>3, <1>4, Fresh
<1> QED
  BY <1>5

\* The copies that a list by id lists.
LEMMA ByIdIs ==
    ASSUME NEW copies \in SUBSET Copies, IsFiniteSet(copies), NEW q \in ById(copies)
    PROVE  /\ q \in Seq(Copies) /\ Range(q) = copies /\ DOMAIN q = 1..Len(q)
           /\ \A i \in 1..Len(q) : q[i] \in copies
<1>1. Cardinality(copies) \in Nat
  BY FS_CardinalityType
<1>2. q \in [1 .. Cardinality(copies) -> copies] /\ Range(q) = copies
  BY DEF ById
<1>3. q \in Seq(copies) /\ q \in Seq(Copies)
  BY <1>1, <1>2, SeqDef
<1>4. DOMAIN q = 1..Len(q) /\ \A i \in 1..Len(q) : q[i] \in copies
  BY <1>3
<1> QED
  BY <1>2, <1>3, <1>4

\* The BundleFreeEvents that a step which leaves the queue q posts.
Frees(n, q) == {About("free", c) : c \in Freed(n, q)}

LEMMA Freeing ==
    ASSUME NEW n \in Nodes, NEW q \in Seq(Events), NEW p \in WithFrees(n, q),
           store'[n] \in SUBSET Copies, IsFiniteSet(store'[n])
    PROVE  /\ p \in Seq(Events) /\ Range(p) = Range(q) \cup Frees(n, q)
           /\ \E f \in Seq(Notices) : p = q \o f /\ Range(f) = Frees(n, q)
<1> DEFINE S == Freed(n, q)
<1>1. S \in SUBSET store'[n] /\ S \in SUBSET Copies
  BY DEF Freed
<1>2. IsFiniteSet(S)
  <2> HIDE DEF S
  <2> QED
    BY <1>1, FS_Subset
<1>3. PICK freed \in ById(S) : p = q \o [i \in DOMAIN freed |-> About("free", freed[i])]
  BY DEF WithFrees
<1> HIDE DEF S
<1>4. /\ freed \in Seq(Copies) /\ Range(freed) = S /\ DOMAIN freed = 1..Len(freed)
      /\ \A i \in 1..Len(freed) : freed[i] \in Copies
  BY <1>1, <1>2, ByIdIs
<1> DEFINE f == [i \in DOMAIN freed |-> About("free", freed[i])]
<1>5. f \in Seq(Notices)
  <2>1. \A c \in Copies : About("free", c) \in Notices
    BY MakeNotice
  <2> QED
    BY <1>4, <2>1
<1>6. Range(f) = {About("free", c) : c \in S}
  BY <1>4 DEF Range
<1> HIDE DEF f
<1>7. f \in Seq(Events)
  <2>1. Notices \subseteq Events
    BY DEF Events
  <2>2. f \in [1..Len(f) -> Events] /\ Len(f) \in Nat
    BY <1>5, <2>1
  <2> QED
    BY <2>2, SeqDef
<1>8. p = q \o f
  BY <1>3 DEF f
<1>9. p \in Seq(Events) /\ ToSet(p) = ToSet(q) \cup ToSet(f)
  BY <1>7, <1>8, ElementsOfConcat
<1> QED
  BY <1>5, <1>6, <1>8, <1>9, RangeIs DEF Frees, S

\* What a step posts.
LEMMA Posting ==
    ASSUME Types, NEW n \in Nodes, NEW q \in Seq(Events), Post(n, q),
           store'[n] \in SUBSET Copies, IsFiniteSet(store'[n])
    PROVE  /\ eventq' \in [Nodes -> Seq(Events)]
           /\ \A m \in Nodes : m # n => eventq'[m] = eventq[m]
           /\ Range(eventq'[n]) = Range(q) \cup Frees(n, q)
           /\ \E f \in Seq(Notices) : eventq'[n] = q \o f /\ Range(f) = Frees(n, q)
<1>1. PICK p \in WithFrees(n, q) : eventq' = [eventq EXCEPT ![n] = p]
  BY DEF Post
<1>2. /\ p \in Seq(Events) /\ Range(p) = Range(q) \cup Frees(n, q)
      /\ \E f \in Seq(Notices) : p = q \o f /\ Range(f) = Frees(n, q)
  BY Freeing
<1>3. eventq \in [Nodes -> Seq(Events)]
  BY DEF Types
<1>4. eventq'[n] = p
  BY <1>1, <1>3
<1> QED
  BY <1>1, <1>2, <1>3, <1>4

\* The event that node n handles next, and what is left.
LEMMA Taking ==
    ASSUME Types, NEW n \in Nodes, NEW type, Current(n, type)
    PROVE  /\ Event(n) \in Events \cup Loads /\ Event(n).type = type
           /\ Rest(n) \in Seq(Events) /\ loading' \in [Nodes -> Seq(Loads)]
           /\ \A m \in Nodes : m # n => loading'[m] = loading[m]
           /\ \/ /\ loading[n] = <<>> /\ loading' = loading /\ Event(n) \in Events
                 /\ eventq[n] # <<>> /\ Event(n) = Head(eventq[n]) /\ Rest(n) = Tail(eventq[n])
                 /\ Range(eventq[n]) = {Event(n)} \cup Range(Rest(n))
              \/ /\ Rest(n) = eventq[n] /\ Event(n) \in Loads
                 /\ Range(loading[n]) = {Event(n)} \cup Range(loading'[n])
<1>1. /\ eventq[n] \in Seq(Events) /\ loading[n] \in Seq(Loads)
      /\ loading \in [Nodes -> Seq(Loads)]
  BY DEF Types
<1>2. /\ loading[n] # <<>> \/ eventq[n] # <<>>
      /\ Event(n).type = type
      /\ loading' = [loading EXCEPT ![n] = IF @ = <<>> THEN @ ELSE Tail(@)]
  BY DEF Current
<1>3. CASE loading[n] = <<>>
  <2>1. Event(n) = Head(eventq[n]) /\ Rest(n) = Tail(eventq[n])
    BY <1>3 DEF Event, Rest
  <2>2. loading' = loading
    BY <1>1, <1>2, <1>3
  <2>3. /\ Head(eventq[n]) \in Events /\ Tail(eventq[n]) \in Seq(Events)
        /\ ToSet(eventq[n]) = {Head(eventq[n])} \cup ToSet(Tail(eventq[n]))
    BY <1>1, <1>2, <1>3, ElementsOfTail
  <2> QED
    BY <1>1, <1>2, <1>3, <2>1, <2>2, <2>3, RangeIs
<1>4. CASE loading[n] # <<>>
  <2>1. Event(n) = Head(loading[n]) /\ Rest(n) = eventq[n]
    BY <1>4 DEF Event, Rest
  <2>2. /\ Head(loading[n]) \in Loads /\ Tail(loading[n]) \in Seq(Loads)
        /\ ToSet(loading[n]) = {Head(loading[n])} \cup ToSet(Tail(loading[n]))
    BY <1>1, <1>4, ElementsOfTail
  <2>3. loading' = [loading EXCEPT ![n] = Tail(@)]
    BY <1>2, <1>4
  <2>4. /\ loading'[n] = Tail(loading[n]) /\ loading' \in [Nodes -> Seq(Loads)]
        /\ \A m \in Nodes : m # n => loading'[m] = loading[m]
    BY <1>1, <2>2, <2>3
  <2> QED
    BY <1>1, <1>2, <2>1, <2>2, <2>4, RangeIs
<1> QED
  BY <1>3, <1>4

-----------------------------------------------------------------------------
(* What the FragmentState knows of.                                        *)

LEMMA EndingIs ==
    /\ \A R : \A S : R \subseteq S => Ending(R) \subseteq Ending(S)
    /\ \A R : \A e : e.type \notin {"delete", "completed"} => Ending({e} \cup R) = Ending(R)
    /\ \A R : \A e : Ending({e} \cup R) \subseteq CopiesOf(e) \cup Ending(R)
    /\ \A R : \A e \in R : e.type \in {"delete", "completed"} => CopiesOf(e) \subseteq Ending(R)
BY DEF Ending

LEMMA AllUnitsNonempty == AllUnits # {} /\ 0 \in AllUnits
BY SizesAssumption DEF AllUnits

\* The queue of a node after a step that posts no more than BundleFreeEvents.
LEMMA TakenAndPosted ==
    ASSUME Types, NEW n \in Nodes, NEW type, Current(n, type), NEW q \in Seq(Events), Post(n, q),
           Range(Rest(n)) \subseteq Range(q), store' \in [Nodes -> SUBSET Copies],
           IsFiniteSet(store'[n])
    PROVE  /\ eventq' \in [Nodes -> Seq(Events)] /\ loading' \in [Nodes -> Seq(Loads)]
           /\ Range(eventq[n]) \subseteq {Event(n)} \cup Range(eventq'[n])
           /\ Range(q) \subseteq Range(eventq'[n])
           /\ \A m \in Nodes : m # n => eventq'[m] = eventq[m]
<1>1. /\ eventq' \in [Nodes -> Seq(Events)]
      /\ \A m \in Nodes : m # n => eventq'[m] = eventq[m]
      /\ Range(eventq'[n]) = Range(q) \cup Frees(n, q)
  BY Posting
<1>2. /\ loading' \in [Nodes -> Seq(Loads)]
      /\ \/ Range(eventq[n]) = {Event(n)} \cup Range(Rest(n))
         \/ Rest(n) = eventq[n]
  BY Taking
<1> QED
  BY <1>1, <1>2

\* A fragment that is pending stays listed if the FragmentState, the pending
\* bundles and the events that end them do not change.
LEMMA StaysListed ==
    ASSUME Listed, fragments' = fragments, pending'["dst"] = pending["dst"], late => late',
           Ending(Range(eventq["dst"])) \subseteq Ending(Range(eventq'["dst"]))
    PROVE  Listed'
BY DEF Listed, Partial

LEMMA FragmentsStay ==
    ASSUME FragmentsOK, UNCHANGED reassembly
    PROVE  FragmentsOK'
BY DEF FragmentsOK, reassembly

LEMMA FragmentsNone ==
    ASSUME fragments' = <<>>
    PROVE  FragmentsOK'
<1>1. Covered(Range(<<>>)) = {} /\ Sorted(<<>>)
  BY CoveredNone, SortedEmpty
<1> QED
  BY <1>1, AllUnitsNonempty DEF FragmentsOK

LEMMA Ignoring ==
    ASSUME FragInv, NEW n \in Nodes, NEW type, Current(n, type), Ignore(n), UNCHANGED bounds,
           type \notin {"delete", "completed"}
    PROVE  FragInv'
<1>0. Types /\ FragmentsOK /\ Listed
  BY DEF FragInv
<1>1. /\ UNCHANGED <<pending, store, armed, reassembly, delivery>>
      /\ Post(n, Rest(n))
  BY DEF Ignore
<1>2. Rest(n) \in Seq(Events) /\ Event(n).type = type
  BY <1>0, Taking
<1>3. store' \in [Nodes -> SUBSET Copies] /\ IsFiniteSet(store'[n])
  BY <1>0, <1>1 DEF Types
<1>4. /\ eventq' \in [Nodes -> Seq(Events)] /\ loading' \in [Nodes -> Seq(Loads)]
      /\ Range(eventq[n]) \subseteq {Event(n)} \cup Range(eventq'[n])
      /\ \A m \in Nodes : m # n => eventq'[m] = eventq[m]
  BY <1>0, <1>1, <1>2, <1>3, TakenAndPosted
<1>5. Types'
  BY <1>0, <1>1, <1>4 DEF Types, reassembly, delivery, bounds
<1>6. Ending(Range(eventq["dst"])) \subseteq Ending(Range(eventq'["dst"]))
  <2>1. CASE n = "dst"
    <3>1. Ending(Range(eventq["dst"])) \subseteq Ending({Event(n)} \cup Range(eventq'["dst"]))
      BY <1>4, <2>1, EndingIs
    <3> QED
      BY <1>2, <3>1, EndingIs
  <2>2. CASE n # "dst"
    BY <1>4, <2>2 DEF Nodes
  <2> QED
    BY <2>1, <2>2
<1>7. FragmentsOK'
  BY <1>0, <1>1, FragmentsStay
<1>8. Listed'
  BY <1>0, <1>1, <1>6, StaysListed DEF reassembly, bounds
<1> QED
  BY <1>5, <1>7, <1>8 DEF FragInv

LEMMA Adding ==
    ASSUME Types, NEW n \in Nodes, NEW c \in Copies, AddToPending(n, c)
    PROVE  /\ pending' \in [Nodes -> SUBSET Copies] /\ store' \in [Nodes -> SUBSET Copies]
           /\ armed' \in [Nodes -> SUBSET Copies]
           /\ \A m \in Nodes : IsFiniteSet(pending'[m]) /\ IsFiniteSet(store'[m])
           /\ pending'[n] = pending[n] \cup {c} /\ store'[n] = store[n] \cup {c}
           /\ \A m \in Nodes : m # n => pending'[m] = pending[m] /\ store'[m] = store[m]
<1>1. /\ pending \in [Nodes -> SUBSET Copies] /\ store \in [Nodes -> SUBSET Copies]
      /\ armed \in [Nodes -> SUBSET Copies]
      /\ \A m \in Nodes : IsFiniteSet(pending[m]) /\ IsFiniteSet(store[m])
  BY DEF Types
<1>2. /\ pending' = [pending EXCEPT ![n] = @ \cup {c}]
      /\ armed' = [armed EXCEPT ![n] = @ \cup {c}]
      /\ store' = [store EXCEPT ![n] = @ \cup {c}]
  BY DEF AddToPending
<1>3. IsFiniteSet(pending[n] \cup {c}) /\ IsFiniteSet(store[n] \cup {c})
  BY <1>1, FS_AddElement
<1>4. /\ pending'[n] = pending[n] \cup {c} /\ store'[n] = store[n] \cup {c}
      /\ \A m \in Nodes : m # n => pending'[m] = pending[m] /\ store'[m] = store[m]
  BY <1>1, <1>2
<1>5. \A m \in Nodes : IsFiniteSet(pending'[m]) /\ IsFiniteSet(store'[m])
  <2> TAKE m \in Nodes
  <2>1. CASE m = n
    BY <1>3, <1>4, <2>1
  <2>2. CASE m # n
    BY <1>1, <1>4, <2>2
  <2> QED
    BY <2>1, <2>2
<1> QED
  BY <1>1, <1>2, <1>4, <1>5

LEMMA Accepting ==
    ASSUME FragInv, NEW n \in Nodes, NEW c \in Copies, Current(n, "received"), Accept(n, c),
           UNCHANGED bounds, late \/ n = "src"
    PROVE  FragInv'
<1>0. Types /\ FragmentsOK /\ Listed
  BY DEF FragInv
<1>1. /\ AddToPending(n, c)
      /\ UNCHANGED <<reassembly, delivery>>
      /\ Post(n, Rest(n))
  BY DEF Accept
<1>2. Rest(n) \in Seq(Events) /\ Event(n).type = "received"
  BY <1>0, Taking
<1>3. /\ pending' \in [Nodes -> SUBSET Copies] /\ store' \in [Nodes -> SUBSET Copies]
      /\ armed' \in [Nodes -> SUBSET Copies]
      /\ \A m \in Nodes : IsFiniteSet(pending'[m]) /\ IsFiniteSet(store'[m])
      /\ pending'[n] = pending[n] \cup {c}
      /\ \A m \in Nodes : m # n => pending'[m] = pending[m]
  BY <1>0, <1>1, Adding
<1>4. /\ eventq' \in [Nodes -> Seq(Events)] /\ loading' \in [Nodes -> Seq(Loads)]
      /\ \A m \in Nodes : m # n => eventq'[m] = eventq[m]
  BY <1>0, <1>1, <1>2, <1>3, TakenAndPosted
<1>5. Types'
  BY <1>0, <1>1, <1>3, <1>4 DEF Types, reassembly, delivery, bounds
<1>7. FragmentsOK'
  BY <1>0, <1>1, FragmentsStay
<1>8. Listed'
  <2>1. CASE n = "src"
    BY <1>0, <1>1, <1>3, <1>4, <2>1, StaysListed DEF reassembly, bounds, Nodes
  <2>2. CASE n # "src"
    <3>1. late' /\ n = "dst"
      BY <2>2 DEF bounds, Nodes
    <3>2. fragments' = fragments /\ pending["dst"] \subseteq pending'["dst"]
      BY <1>1, <1>3, <3>1 DEF reassembly
    <3> QED
      BY <1>0, <3>1, <3>2 DEF Listed, Partial
  <2> QED
    BY <2>1, <2>2
<1> QED
  BY <1>5, <1>7, <1>8 DEF FragInv

\* The requests to delete the fragments of a bundle that came whole.
LEMMA Requests ==
    ASSUME NEW list \in Seq(Copies), NEW r,
           r = Reverse([i \in DOMAIN list |-> About("delete", list[i])])
    PROVE  /\ r \in Seq(Notices) /\ r \in Seq(Events)
           /\ Range(r) = {About("delete", c) : c \in Range(list)}
<1> DEFINE f == [i \in DOMAIN list |-> About("delete", list[i])]
<1>1. /\ Len(list) \in Nat /\ DOMAIN list = 1..Len(list)
      /\ \A i \in 1..Len(list) : list[i] \in Copies
  OBVIOUS
<1>2. f \in Seq(Notices) /\ Len(f) = Len(list)
  <2>1. \A c \in Copies : About("delete", c) \in Notices
    BY MakeNotice
  <2> QED
    BY <1>1, <2>1
<1>3. \A i \in 1..Len(list) : f[i] = About("delete", list[i])
  BY <1>1
<1> HIDE DEF f
<1>4. r = [i \in 1..Len(list) |-> f[(Len(list) - i) + 1]]
  BY <1>2 DEF Reverse, f
<1>5. \A i \in 1..Len(list) : (Len(list) - i) + 1 \in 1..Len(list)
  BY <1>1
<1>6. /\ DOMAIN r = 1..Len(list)
      /\ \A i \in 1..Len(list) : /\ r[i] = About("delete", list[(Len(list) - i) + 1])
                                 /\ r[i] \in Notices
  <2>1. \A i \in 1..Len(list) : f[i] \in Notices
    BY <1>2
  <2> QED
    BY <1>3, <1>4, <1>5, <2>1
<1>7. r \in [1..Len(list) -> Notices] /\ r \in [1..Len(list) -> Events]
  <2>1. Notices \subseteq Events
    BY DEF Events
  <2> QED
    BY <1>4, <1>6, <2>1
<1>8. r \in Seq(Notices) /\ r \in Seq(Events)
  BY <1>1, <1>7, SeqDef
<1>9. Range(r) = {About("delete", c) : c \in Range(list)}
  <2>1. \A i \in 1..Len(list) : r[i] \in {About("delete", c) : c \in Range(list)}
    BY <1>1, <1>5, <1>6 DEF Range
  <2>2. ASSUME NEW i \in 1..Len(list) PROVE About("delete", list[i]) \in Range(r)
    <3> DEFINE j == (Len(list) - i) + 1
    <3>1. j \in 1..Len(list) /\ (Len(list) - j) + 1 = i
      BY <1>1
    <3> HIDE DEF j
    <3>2. r[j] = About("delete", list[i])
      BY <1>6, <3>1
    <3> QED
      BY <1>6, <3>1, <3>2 DEF Range
  <2>3. Range(r) \subseteq {About("delete", c) : c \in Range(list)}
    BY <1>6, <2>1 DEF Range
  <2>4. \A c \in Range(list) : \E i \in 1..Len(list) : c = list[i]
    BY <1>1 DEF Range
  <2> QED
    BY <2>2, <2>3, <2>4
<1> QED
  BY <1>8, <1>9

LEMMA Delivering ==
    ASSUME FragInv, NEW c \in Copies, Current("dst", "received"), DeliverWhole("dst", c),
           UNCHANGED bounds, c.whole
    PROVE  /\ FragInv'
           /\ \E r \in Seq(Notices) :
                 /\ Range(r) = {About("delete", d) : d \in Range(fragments)}
                 /\ r \in Seq(Events) /\ Post("dst", Rest("dst") \o r)
<1> DEFINE n == "dst"
           r == Reverse([i \in DOMAIN fragments |-> About("delete", fragments[i])])
<1>0. Types /\ FragmentsOK /\ Listed /\ n \in Nodes
  BY DEF FragInv, Nodes
<1>1. /\ fragments' = <<>> /\ written' = {}
      /\ store' = [store EXCEPT ![n] = @ \cup {c}]
      /\ \/ /\ pending' = [pending EXCEPT ![n] = @ \cup {c}]
            /\ armed' = [armed EXCEPT ![n] = @ \cup {c}]
            /\ UNCHANGED <<handed, cache>>
         \/ /\ handed' = handed \cup {c} /\ cache' = TRUE
            /\ UNCHANGED <<pending, armed>>
      /\ UNCHANGED got
      /\ Post(n, Rest(n) \o r)
  BY DEF DeliverWhole
<1>2. Rest(n) \in Seq(Events) /\ Event(n).type = "received"
  BY <1>0, Taking
<1>3. fragments \in Seq(Copies)
  BY <1>0 DEF Types
<1>4. /\ r \in Seq(Notices) /\ r \in Seq(Events)
      /\ Range(r) = {About("delete", d) : d \in Range(fragments)}
  BY <1>3, Requests
<1> HIDE DEF r
<1>5. /\ Rest(n) \o r \in Seq(Events) /\ Range(Rest(n) \o r) = Range(Rest(n)) \cup Range(r)
  BY <1>2, <1>4, ElementsOfConcat, RangeIs
<1>6. /\ pending \in [Nodes -> SUBSET Copies] /\ store \in [Nodes -> SUBSET Copies]
      /\ armed \in [Nodes -> SUBSET Copies] /\ handed \subseteq Copies /\ IsFiniteSet(handed)
      /\ \A m \in Nodes : IsFiniteSet(pending[m]) /\ IsFiniteSet(store[m])
  BY <1>0 DEF Types
<1>7. /\ IsFiniteSet(pending[n] \cup {c}) /\ IsFiniteSet(store[n] \cup {c})
      /\ IsFiniteSet(handed \cup {c})
  BY <1>0, <1>6, FS_AddElement
<1>8. /\ store' \in [Nodes -> SUBSET Copies] /\ store'[n] = store[n] \cup {c}
      /\ \A m \in Nodes : IsFiniteSet(store'[m])
  <2>1. /\ store' \in [Nodes -> SUBSET Copies] /\ store'[n] = store[n] \cup {c}
        /\ \A m \in Nodes : m # n => store'[m] = store[m]
    BY <1>0, <1>1, <1>6
  <2> QED
    BY <1>6, <1>7, <2>1
<1>9. /\ pending' \in [Nodes -> SUBSET Copies] /\ armed' \in [Nodes -> SUBSET Copies]
      /\ pending'[n] = pending[n] \/ pending'[n] = pending[n] \cup {c}
      /\ \A m \in Nodes : IsFiniteSet(pending'[m])
      /\ handed' \subseteq Copies /\ IsFiniteSet(handed')
  <2>1. CASE UNCHANGED <<pending, armed>> /\ handed' = handed \cup {c}
    BY <1>6, <1>7, <2>1
  <2>2. CASE /\ pending' = [pending EXCEPT ![n] = @ \cup {c}]
             /\ armed' = [armed EXCEPT ![n] = @ \cup {c}]
             /\ UNCHANGED handed
    <3>1. /\ pending' \in [Nodes -> SUBSET Copies] /\ armed' \in [Nodes -> SUBSET Copies]
          /\ pending'[n] = pending[n] \cup {c}
          /\ \A m \in Nodes : m # n => pending'[m] = pending[m]
      BY <1>0, <1>6, <2>2
    <3>2. \A m \in Nodes : IsFiniteSet(pending'[m])
      BY <1>6, <1>7, <3>1
    <3> QED
      BY <1>6, <2>2, <3>1, <3>2
  <2> QED
    BY <1>1, <2>1, <2>2
<1>10. /\ eventq' \in [Nodes -> Seq(Events)] /\ loading' \in [Nodes -> Seq(Loads)]
       /\ Range(eventq[n]) \subseteq {Event(n)} \cup Range(eventq'[n])
       /\ Range(r) \subseteq Range(eventq'[n])
  <2>1. Range(Rest(n)) \subseteq Range(Rest(n) \o r) /\ Range(r) \subseteq Range(Rest(n) \o r)
    BY <1>5
  <2>2. /\ eventq' \in [Nodes -> Seq(Events)] /\ loading' \in [Nodes -> Seq(Loads)]
        /\ Range(eventq[n]) \subseteq {Event(n)} \cup Range(eventq'[n])
        /\ Range(Rest(n) \o r) \subseteq Range(eventq'[n])
    BY <1>0, <1>1, <1>5, <1>8, <2>1, TakenAndPosted
  <2> QED
    BY <2>1, <2>2
<1>11. Types'
  <2>1. fragments' \in Seq(Copies) /\ written' \subseteq AllUnits
    BY <1>1
  <2>3. cache' = cache \/ cache' = TRUE
    BY <1>1
  <2>4. cache' \in BOOLEAN
    BY <1>0, <2>3, Zenon DEF Types
  <2>2. /\ late' \in BOOLEAN
        /\ got' \in Nat /\ attempts' \in Nat /\ crashes' \in Nat
    BY <1>0, <1>1 DEF Types, bounds
  <2> QED
    BY <1>8, <1>9, <1>10, <2>1, <2>2, <2>4 DEF Types
<1>12. FragmentsOK'
  BY <1>1, FragmentsNone
<1>13. Listed'
  <2>1. Range(fragments') = {}
    BY <1>1, CoveredNone
  <2>2. Partial' = Partial
    BY <1>9 DEF Partial
  <2>3. Ending(Range(eventq[n])) \subseteq Ending(Range(eventq'[n]))
    <3>1. Ending(Range(eventq[n])) \subseteq Ending({Event(n)} \cup Range(eventq'[n]))
      BY <1>10, EndingIs
    <3> QED
      BY <1>2, <3>1, EndingIs
  <2>4. Range(fragments) \subseteq Ending(Range(eventq'[n]))
    <3> SUFFICES ASSUME NEW d \in Range(fragments) PROVE d \in Ending(Range(eventq'[n]))
      OBVIOUS
    <3>1. d \in Copies
      BY <1>3, ElementsOf, RangeIs
    <3>2. /\ About("delete", d) \in Range(eventq'[n])
          /\ About("delete", d).type = "delete" /\ About("delete", d).copy = d
      BY <1>4, <1>10, <3>1, MakeNotice
    <3>3. d \in CopiesOf(About("delete", d))
      BY <3>2 DEF CopiesOf
    <3> QED
      BY <3>2, <3>3, EndingIs
  <2> QED
    BY <1>0, <2>1, <2>2, <2>3, <2>4 DEF Listed, bounds
<1> QED
  BY <1>1, <1>4, <1>11, <1>12, <1>13 DEF FragInv

\* What process_for_reassembly finds.
LEMMA Completing ==
    ASSUME Types, FragmentsOK, NEW c \in Copies,
           NEW list, list = InsertSorted(fragments, c)
    PROVE  /\ list \in Seq(Copies) /\ Range(list) = Range(fragments) \cup {c} /\ Sorted(list)
           /\ Covered(Range(list)) \subseteq written \cup Units(c)
           /\ written \cup Units(c) \subseteq AllUnits
           /\ CheckCompleted(list) => Covered(Range(list)) = AllUnits /\ written \cup Units(c) = AllUnits
           /\ ~CheckCompleted(list) => Covered(Range(list)) # AllUnits
<1>1. fragments \in Seq(Copies) /\ Sorted(fragments) /\ written \subseteq AllUnits
  BY DEF Types, FragmentsOK
<1>2. list \in Seq(Copies) /\ Range(list) = Range(fragments) \cup {c} /\ Sorted(list)
  BY <1>1, InsertSortedIs
<1>3. CheckCompleted(list) <=> Covered(Range(list)) = AllUnits
  BY <1>2, CheckCompletedIs
<1>4. Covered(Range(list)) = Covered(Range(fragments)) \cup Units(c)
  <2>1. Covered(Range(fragments) \cup {c}) = Covered(Range(fragments)) \cup Covered({c})
    BY CoveredUnion
  <2>2. Covered({c}) = Units(c)
    BY CoveredOne
  <2> QED
    BY <1>2, <2>1, <2>2
<1>5. Covered(Range(fragments)) \subseteq written
  BY DEF FragmentsOK
<1>6. Units(c) \subseteq AllUnits
  BY UnitsAre
<1> QED
  BY <1>1, <1>2, <1>3, <1>4, <1>5, <1>6

LEMMA Reassembling ==
    ASSUME FragInv, NEW c \in Copies, Current("dst", "received"), Reassemble("dst", c),
           UNCHANGED bounds, ~c.whole
    PROVE  /\ FragInv'
           /\ \/ /\ Post("dst", Rest("dst"))
                 /\ fragments' = InsertSorted(fragments, c)
              \/ \E e \in Completions :
                    /\ e.copy.id = FreshId("dst") /\ Range(e.list) = Range(fragments) \cup {c}
                    /\ fragments' = <<>>
                    /\ Post("dst", <<e>> \o Rest("dst"))
<1> DEFINE n == "dst"
           list == InsertSorted(fragments, c)
           whole == Whole(FreshId(n))
           e == Completed(whole, list, written \cup Units(c))
<1>0. Types /\ FragmentsOK /\ Listed /\ n \in Nodes
  BY DEF FragInv, Nodes
<1>1. /\ AddToPending(n, c)
      /\ UNCHANGED delivery
      /\ \/ /\ CheckCompleted(list)
            /\ fragments' = <<>> /\ written' = {}
            /\ Post(n, <<e>> \o Rest(n))
         \/ /\ ~CheckCompleted(list)
            /\ fragments' = list /\ written' = written \cup Units(c)
            /\ Post(n, Rest(n))
  BY DEF Reassemble
<1>2. Rest(n) \in Seq(Events) /\ Event(n).type = "received"
  BY <1>0, Taking
<1>3. /\ pending' \in [Nodes -> SUBSET Copies] /\ store' \in [Nodes -> SUBSET Copies]
      /\ armed' \in [Nodes -> SUBSET Copies]
      /\ \A m \in Nodes : IsFiniteSet(pending'[m]) /\ IsFiniteSet(store'[m])
      /\ pending'[n] = pending[n] \cup {c}
  BY <1>0, <1>1, Adding
<1>4. /\ list \in Seq(Copies) /\ Range(list) = Range(fragments) \cup {c} /\ Sorted(list)
      /\ Covered(Range(list)) \subseteq written \cup Units(c)
      /\ written \cup Units(c) \subseteq AllUnits
      /\ CheckCompleted(list) => Covered(Range(list)) = AllUnits /\ written \cup Units(c) = AllUnits
      /\ ~CheckCompleted(list) => Covered(Range(list)) # AllUnits
  BY <1>0, Completing
<1>5. whole \in Copies /\ whole.whole /\ whole.id = FreshId(n)
  <2>1. FreshId(n) \in Nat
    BY <1>0, FreshIs
  <2> QED
    BY <2>1, MakeCopies
<1>6. Partial' = Partial \cup {c}
  BY <1>3 DEF Partial
<1> HIDE DEF list, whole
<1>7. CASE CheckCompleted(list)
  <2>1. fragments' = <<>> /\ written' = {} /\ Post(n, <<e>> \o Rest(n))
    BY <1>1, <1>7
  <2>2. e \in Completions /\ e.type = "completed" /\ e.copy = whole /\ e.list = list
    <3> DEFINE data == written \cup Units(c)
    <3>1. data = AllUnits /\ Covered(Range(list)) = AllUnits
      BY <1>4, <1>7
    <3>2. e = Completed(whole, list, data)
      OBVIOUS
    <3> HIDE DEF data, e
    <3>3. list \in Seq(Copies) /\ whole \in Copies /\ whole.whole
      BY <1>4, <1>5
    <3>4. Completed(whole, list, data) \in Completions
      BY <3>1, <3>3, MakeCompletion
    <3>5. /\ Completed(whole, list, data).type = "completed"
          /\ Completed(whole, list, data).copy = whole
          /\ Completed(whole, list, data).list = list
      BY DEF Completed
    <3> QED
      BY <3>2, <3>4, <3>5
  <2> HIDE DEF e
  <2>3. e \in Events
    BY <2>2, CompletionIs
  <2>4. <<e>> \o Rest(n) \in Seq(Events) /\ Range(<<e>> \o Rest(n)) = Range(Rest(n)) \cup {e}
    BY <1>2, <2>3, ElementsOfPrepend, RangeIs
  <2>5. /\ eventq' \in [Nodes -> Seq(Events)] /\ loading' \in [Nodes -> Seq(Loads)]
        /\ Range(eventq[n]) \subseteq {Event(n)} \cup Range(eventq'[n])
        /\ e \in Range(eventq'[n])
    <3>1. Range(Rest(n)) \subseteq Range(<<e>> \o Rest(n)) /\ e \in Range(<<e>> \o Rest(n))
      BY <2>4
    <3>2. /\ eventq' \in [Nodes -> Seq(Events)] /\ loading' \in [Nodes -> Seq(Loads)]
          /\ Range(eventq[n]) \subseteq {Event(n)} \cup Range(eventq'[n])
          /\ Range(<<e>> \o Rest(n)) \subseteq Range(eventq'[n])
      BY <1>0, <1>3, <2>1, <2>4, <3>1, TakenAndPosted
    <3> QED
      BY <3>1, <3>2
  <2>6. Types'
    <3>1. fragments' \in Seq(Copies) /\ written' \subseteq AllUnits
      BY <2>1
    <3>2. /\ handed' \subseteq Copies /\ IsFiniteSet(handed') /\ cache' \in BOOLEAN
          /\ late' \in BOOLEAN /\ got' \in Nat /\ attempts' \in Nat /\ crashes' \in Nat
      BY <1>0, <1>1 DEF Types, delivery, bounds
    <3> QED
      BY <1>3, <2>5, <3>1, <3>2 DEF Types
  <2>7. FragmentsOK'
    BY <2>1, FragmentsNone
  <2>8. Listed'
    <3>1. Range(fragments') = {}
      BY <2>1, CoveredNone
    <3>2. Ending(Range(eventq[n])) \subseteq Ending(Range(eventq'[n]))
      <4>1. Ending(Range(eventq[n])) \subseteq Ending({Event(n)} \cup Range(eventq'[n]))
        BY <2>5, EndingIs
      <4> QED
        BY <1>2, <4>1, EndingIs
    <3>3. Range(fragments) \cup {c} \subseteq Ending(Range(eventq'[n]))
      <4>1. Range(list) \subseteq CopiesOf(e)
        BY <2>2 DEF CopiesOf
      <4> QED
        BY <1>4, <2>2, <2>5, <4>1, EndingIs
    <3> QED
      BY <1>0, <1>6, <3>1, <3>2, <3>3 DEF Listed, bounds
  <2> QED
    BY <1>4, <1>5, <2>1, <2>2, <2>6, <2>7, <2>8 DEF FragInv
<1>8. CASE ~CheckCompleted(list)
  <2>1. fragments' = list /\ written' = written \cup Units(c) /\ Post(n, Rest(n))
    BY <1>1, <1>8
  <2>5. /\ eventq' \in [Nodes -> Seq(Events)] /\ loading' \in [Nodes -> Seq(Loads)]
        /\ Range(eventq[n]) \subseteq {Event(n)} \cup Range(eventq'[n])
    BY <1>0, <1>2, <1>3, <2>1, TakenAndPosted
  <2>6. Types'
    <3>1. fragments' \in Seq(Copies) /\ written' \subseteq AllUnits
      BY <1>4, <2>1
    <3>2. /\ handed' \subseteq Copies /\ IsFiniteSet(handed') /\ cache' \in BOOLEAN
          /\ late' \in BOOLEAN /\ got' \in Nat /\ attempts' \in Nat /\ crashes' \in Nat
      BY <1>0, <1>1 DEF Types, delivery, bounds
    <3> QED
      BY <1>3, <2>5, <3>1, <3>2 DEF Types
  <2>7. FragmentsOK'
    BY <1>4, <1>8, <2>1 DEF FragmentsOK
  <2>8. Listed'
    <3>2. Ending(Range(eventq[n])) \subseteq Ending(Range(eventq'[n]))
      <4>1. Ending(Range(eventq[n])) \subseteq Ending({Event(n)} \cup Range(eventq'[n]))
        BY <2>5, EndingIs
      <4> QED
        BY <1>2, <4>1, EndingIs
    <3> QED
      BY <1>0, <1>4, <1>6, <2>1, <3>2 DEF Listed, bounds
  <2> QED
    BY <2>1, <2>6, <2>7, <2>8 DEF FragInv, list
<1> QED
  BY <1>7, <1>8

\* The fragments that a deletion leaves are in the order that they had.
LEMMA SelectionSorted ==
    ASSUME NEW list \in Seq(Copies), Sorted(list), NEW S
    PROVE  Sorted(SelectIn(list, S))
<1>1. PICK t : t = SelectIn(list, S)
  OBVIOUS
<1>2. TakenInOrder(t, list)
  BY <1>1, OrderOfSelectIn
<1>3. ASSUME NEW i \in 1..Len(t), NEW j \in 1..Len(t), i < j PROVE t[i].off <= t[j].off
  <2>1. PICK k \in 1..Len(list), l \in 1..Len(list) :
            k < l /\ t[i] = list[k] /\ t[j] = list[l]
    BY <1>2, <1>3 DEF TakenInOrder
  <2>2. list[k].off <= list[l].off
    BY <2>1 DEF Sorted
  <2> QED
    BY <2>1, <2>2
<1> QED
  BY <1>1, <1>3 DEF Sorted

\* delete_bundle, of copies of which the queue of the node may hold the end.
LEMMA Deleting ==
    ASSUME Types, FragmentsOK, NEW n \in Nodes, NEW copies, Delete(n, copies)
    PROVE  /\ pending' \in [Nodes -> SUBSET Copies] /\ armed' \in [Nodes -> SUBSET Copies]
           /\ \A m \in Nodes : IsFiniteSet(pending'[m])
           /\ pending'[n] = pending[n] \ copies
           /\ \A m \in Nodes : m # n => pending'[m] = pending[m]
           /\ fragments' \in Seq(Copies) /\ written' \subseteq AllUnits /\ FragmentsOK'
           /\ n = "dst" => Range(fragments') = Range(fragments) \ copies
           /\ n # "dst" => fragments' = fragments
<1>1. /\ pending \in [Nodes -> SUBSET Copies] /\ armed \in [Nodes -> SUBSET Copies]
      /\ \A m \in Nodes : IsFiniteSet(pending[m])
      /\ fragments \in Seq(Copies) /\ written \subseteq AllUnits
  BY DEF Types
<1>2. /\ pending' = [pending EXCEPT ![n] = @ \ copies]
      /\ armed' = [armed EXCEPT ![n] = @ \ copies]
  BY DEF Delete
<1>3. /\ pending' \in [Nodes -> SUBSET Copies] /\ armed' \in [Nodes -> SUBSET Copies]
      /\ pending'[n] = pending[n] \ copies
      /\ \A m \in Nodes : m # n => pending'[m] = pending[m]
  BY <1>1, <1>2
<1>4. \A m \in Nodes : IsFiniteSet(pending'[m])
  <2> TAKE m \in Nodes
  <2>1. pending'[m] \in SUBSET pending[m]
    BY <1>3
  <2> QED
    BY <1>1, <2>1, FS_Subset
<1> DEFINE S == Range(fragments) \ copies
           left == SelectIn(fragments, S)
<1>5. CASE n = "dst"
  <2>1. fragments' = left /\ written' = IF left = <<>> THEN {} ELSE written
    BY <1>5 DEF Delete
  <2>2. left \in Seq(Copies) /\ ToSet(left) = ToSet(fragments) \cap S
    BY <1>1, ElementsOfSelectIn
  <2>3. Range(left) = Range(fragments) \ copies
    BY <2>2, RangeIs
  <2>4. Sorted(left)
    <3>1. Sorted(fragments)
      BY DEF FragmentsOK
    <3> HIDE DEF S
    <3> QED
      BY <1>1, <3>1, SelectionSorted
  <2> HIDE DEF left
  <2>5. Covered(Range(left)) \subseteq Covered(Range(fragments))
    BY <2>3, CoveredGrows
  <2>6. Covered(Range(fragments)) \subseteq AllUnits
    BY <1>1, CoveredIs, ElementsOf, RangeIs
  <2>7. left = <<>> => Covered(Range(left)) = {}
    BY CoveredNone
  <2>8. Covered(Range(left)) \subseteq written'
    BY <2>1, <2>5, <2>7 DEF FragmentsOK
  <2>9. Covered(Range(left)) # AllUnits
    BY <2>5, <2>6 DEF FragmentsOK
  <2>10. written' \subseteq AllUnits
    BY <1>1, <2>1
  <2>11. FragmentsOK'
    BY <2>1, <2>4, <2>8, <2>9 DEF FragmentsOK
  <2> QED
    BY <1>3, <1>4, <1>5, <2>1, <2>2, <2>3, <2>10, <2>11
<1>6. CASE n # "dst"
  <2>1. UNCHANGED reassembly
    BY <1>6 DEF Delete
  <2> QED
    BY <1>1, <1>3, <1>4, <1>6, <2>1, FragmentsStay DEF reassembly
<1> QED
  BY <1>5, <1>6

\* A handler that deletes copies and posts the queue q.
LEMMA DeletingStep ==
    ASSUME FragInv, NEW n \in Nodes, NEW type, Current(n, type), NEW copies, Delete(n, copies),
           UNCHANGED <<store, delivery, bounds>>,
           eventq' \in [Nodes -> Seq(Events)], \A m \in Nodes : m # n => eventq'[m] = eventq[m],
           Range(Rest(n)) \subseteq Range(eventq'[n]),
           type \in {"delete", "completed"} => CopiesOf(Event(n)) \subseteq copies \cup {Event(n).copy},
           type = "delete" => Event(n).copy \in copies,
           type = "completed" => Event(n).copy.whole
    PROVE  FragInv'
<1>0. Types /\ FragmentsOK /\ Listed
  BY DEF FragInv
<1>1. /\ pending' \in [Nodes -> SUBSET Copies] /\ armed' \in [Nodes -> SUBSET Copies]
      /\ \A m \in Nodes : IsFiniteSet(pending'[m])
      /\ pending'[n] = pending[n] \ copies
      /\ \A m \in Nodes : m # n => pending'[m] = pending[m]
      /\ fragments' \in Seq(Copies) /\ written' \subseteq AllUnits /\ FragmentsOK'
      /\ n = "dst" => Range(fragments') = Range(fragments) \ copies
      /\ n # "dst" => fragments' = fragments
  BY <1>0, Deleting
<1>2. /\ Event(n).type = type /\ loading' \in [Nodes -> Seq(Loads)]
      /\ Range(eventq[n]) \subseteq {Event(n)} \cup Range(eventq'[n])
  BY <1>0, Taking
<1>3. Types'
  BY <1>0, <1>1, <1>2 DEF Types, delivery, bounds
<1>4. Listed'
  <2>1. CASE n = "dst"
    <3>1. Partial' = Partial \ copies
      BY <1>1, <2>1 DEF Partial
    <3>2. Ending(Range(eventq[n])) \subseteq Ending({Event(n)} \cup Range(eventq'[n]))
      BY <1>2, EndingIs
    <3>3. /\ type \notin {"delete", "completed"} =>
                Ending(Range(eventq[n])) \subseteq Ending(Range(eventq'[n]))
          /\ Ending(Range(eventq[n])) \subseteq CopiesOf(Event(n)) \cup Ending(Range(eventq'[n]))
      BY <1>2, <3>2, EndingIs
    <3>4. \/ Ending(Range(eventq[n])) \subseteq copies \cup Ending(Range(eventq'[n]))
          \/ /\ Event(n).copy.whole
             /\ Ending(Range(eventq[n]))
                   \subseteq copies \cup {Event(n).copy} \cup Ending(Range(eventq'[n]))
      <4>1. CASE type \notin {"delete", "completed"}
        BY <3>3, <4>1
      <4>2. CASE type = "delete"
        BY <3>3, <4>2
      <4>3. CASE type = "completed"
        BY <3>3, <4>3
      <4> QED
        BY <4>1, <4>2, <4>3
    <3>5. \A c \in Partial : ~c.whole
      BY DEF Partial
    <3> QED
      BY <1>0, <1>1, <2>1, <3>1, <3>4, <3>5 DEF Listed, bounds
  <2>2. CASE n # "dst"
    BY <1>0, <1>1, <2>2, StaysListed DEF Nodes, bounds
  <2> QED
    BY <2>1, <2>2
<1> QED
  BY <1>1, <1>3, <1>4 DEF FragInv

LEMMA TransmittedFrag ==
    ASSUME FragInv, NEW n \in Nodes, HandleTransmitted(n)
    PROVE  FragInv'
<1> DEFINE e == Event(n)
           tails == Tails(e.copy, e.acked, FreshId(n))
<1>0. Types
  BY DEF FragInv
<1>1. /\ Current(n, "transmitted") /\ Delete(n, {e.copy})
      /\ UNCHANGED <<store, delivery, bounds>>
      /\ \/ Post(n, Rest(n))
         \/ \E t \in tails : Post(n, PostedFirst(Received(t, 0, "tail"), Rest(n)))
  BY DEF HandleTransmitted
<1>2. e \in Reports /\ Rest(n) \in Seq(Events)
  BY <1>0, <1>1, Taking, EventIs, LoadIs
<1>3. tails \subseteq Copies
  <2>1. e.copy \in Copies /\ e.acked \in Nat /\ FreshId(n) \in Nat
    BY <1>0, <1>2, ReportIs, FreshIs
  <2> HIDE DEF e
  <2> QED
    BY <2>1, TailsAre
<1>4. store' \in [Nodes -> SUBSET Copies] /\ IsFiniteSet(store'[n])
  BY <1>0, <1>1 DEF Types
<1>5. /\ eventq' \in [Nodes -> Seq(Events)] /\ \A m \in Nodes : m # n => eventq'[m] = eventq[m]
      /\ Range(Rest(n)) \subseteq Range(eventq'[n])
  <2>1. CASE Post(n, Rest(n))
    BY <1>0, <1>1, <1>2, <1>4, <2>1, TakenAndPosted
  <2>2. ASSUME NEW t \in tails, Post(n, PostedFirst(Received(t, 0, "tail"), Rest(n)))
        PROVE  /\ eventq' \in [Nodes -> Seq(Events)]
               /\ \A m \in Nodes : m # n => eventq'[m] = eventq[m]
               /\ Range(Rest(n)) \subseteq Range(eventq'[n])
    <3>1. Received(t, 0, "tail") \in Events
      BY <1>3, MakeReception, ReceptionIs
    <3> DEFINE r == Received(t, 0, "tail")
               q == <<r>> \o Rest(n)
    <3>2. q \in Seq(Events) /\ Range(q) = Range(Rest(n)) \cup {r}
      <4> HIDE DEF r
      <4> QED
        BY <1>2, <3>1, ElementsOfPrepend, RangeIs DEF r
    <3>3. Post(n, q)
      BY <2>2 DEF PostedFirst
    <3> HIDE DEF q
    <3>4. Range(Rest(n)) \subseteq Range(q)
      BY <3>2
    <3> QED
      BY <1>0, <1>1, <1>4, <3>2, <3>3, <3>4, TakenAndPosted
  <2> QED
    BY <1>1, <2>1, <2>2
<1> QED
  BY <1>1, <1>5, DeletingStep

LEMMA CompletedFrag ==
    ASSUME FragInv, NEW n \in Nodes, HandleCompleted(n)
    PROVE  FragInv'
<1> DEFINE e == Event(n)
           r == Received(e.copy, 0, "reassembled")
<1>0. Types
  BY DEF FragInv
<1>1. /\ Current(n, "completed") /\ Delete(n, Range(e.list))
      /\ UNCHANGED <<store, delivery, bounds>>
      /\ \E q \in WithFrees(n, Rest(n)) : eventq' = [eventq EXCEPT ![n] = <<r>> \o q]
  BY DEF HandleCompleted, PostedFirst
<1>2. e \in Completions /\ e.type = "completed" /\ Rest(n) \in Seq(Events)
  BY <1>0, <1>1, Taking, EventIs, LoadIs
<1>3. e.copy \in Copies /\ e.copy.whole /\ CopiesOf(e) = {e.copy} \cup Range(e.list)
  BY <1>2, CompletionIs DEF CopiesOf
<1>4. r \in Events
  BY <1>3, MakeReception, ReceptionIs
<1> HIDE DEF r, e
<1>5. store' \in [Nodes -> SUBSET Copies] /\ IsFiniteSet(store'[n])
  BY <1>0, <1>1 DEF Types
<1>6. PICK q \in WithFrees(n, Rest(n)) : eventq' = [eventq EXCEPT ![n] = <<r>> \o q]
  BY <1>1
<1>7. q \in Seq(Events) /\ Range(q) = Range(Rest(n)) \cup Frees(n, Rest(n))
  BY <1>2, <1>5, Freeing
<1>8. <<r>> \o q \in Seq(Events) /\ Range(<<r>> \o q) = Range(q) \cup {r}
  BY <1>4, <1>7, ElementsOfPrepend, RangeIs
<1>9. /\ eventq' \in [Nodes -> Seq(Events)] /\ eventq'[n] = <<r>> \o q
      /\ \A m \in Nodes : m # n => eventq'[m] = eventq[m]
  <2>1. eventq \in [Nodes -> Seq(Events)]
    BY <1>0 DEF Types
  <2> DEFINE p == <<r>> \o q
  <2>2. p \in Seq(Events) /\ eventq' = [eventq EXCEPT ![n] = p]
    BY <1>6, <1>8
  <2> HIDE DEF p
  <2>3. /\ eventq' \in [Nodes -> Seq(Events)] /\ eventq'[n] = p
        /\ \A m \in Nodes : m # n => eventq'[m] = eventq[m]
    BY <2>1, <2>2
  <2> QED
    BY <2>3 DEF p
<1>10. Range(Rest(n)) \subseteq Range(eventq'[n])
  BY <1>7, <1>8, <1>9
<1> QED
  BY <1>1, <1>3, <1>9, <1>10, DeletingStep DEF e

LEMMA DeleteFrag ==
    ASSUME FragInv, NEW n \in Nodes, NEW type \in {"expired", "delete"}, HandleDelete(n, type)
    PROVE  FragInv'
<1>0. Types
  BY DEF FragInv
<1>1. /\ Current(n, type) /\ Delete(n, {Event(n).copy})
      /\ UNCHANGED <<store, delivery, bounds>>
      /\ Post(n, Rest(n))
  BY DEF HandleDelete
<1>2. Rest(n) \in Seq(Events) /\ Event(n).type = type
  BY <1>0, <1>1, Taking
<1>3. CopiesOf(Event(n)) = {Event(n).copy}
  BY <1>2 DEF CopiesOf
<1>4. store' \in [Nodes -> SUBSET Copies] /\ IsFiniteSet(store'[n])
  BY <1>0, <1>1 DEF Types
<1>5. /\ eventq' \in [Nodes -> Seq(Events)] /\ \A m \in Nodes : m # n => eventq'[m] = eventq[m]
      /\ Range(Rest(n)) \subseteq Range(eventq'[n])
  BY <1>0, <1>1, <1>2, <1>4, TakenAndPosted
<1> QED
  BY <1>1, <1>3, <1>5, DeletingStep

LEMMA FreeFrag ==
    ASSUME FragInv, NEW n \in Nodes, HandleFree(n)
    PROVE  FragInv'
<1>0. Types /\ FragmentsOK /\ Listed
  BY DEF FragInv
<1>1. /\ Current(n, "free") /\ store' = [store EXCEPT ![n] = @ \ {Event(n).copy}]
      /\ UNCHANGED <<pending, armed, reassembly, delivery, bounds>>
      /\ Post(n, Rest(n))
  BY DEF HandleFree
<1>2. Rest(n) \in Seq(Events) /\ Event(n).type = "free"
  BY <1>0, <1>1, Taking
<1>3. /\ store' \in [Nodes -> SUBSET Copies] /\ \A m \in Nodes : store'[m] \subseteq store[m]
  BY <1>0, <1>1 DEF Types
<1>4. \A m \in Nodes : IsFiniteSet(store'[m])
  <2>1. \A m \in Nodes : store'[m] \in SUBSET store[m] /\ IsFiniteSet(store[m])
    BY <1>0, <1>3 DEF Types
  <2> QED
    BY <2>1, FS_Subset
<1>5. /\ eventq' \in [Nodes -> Seq(Events)] /\ loading' \in [Nodes -> Seq(Loads)]
      /\ Range(eventq[n]) \subseteq {Event(n)} \cup Range(eventq'[n])
      /\ \A m \in Nodes : m # n => eventq'[m] = eventq[m]
  BY <1>0, <1>1, <1>2, <1>3, <1>4, TakenAndPosted
<1>6. Types'
  BY <1>0, <1>1, <1>3, <1>4, <1>5 DEF Types, reassembly, delivery, bounds
<1>7. Ending(Range(eventq["dst"])) \subseteq Ending(Range(eventq'["dst"]))
  <2>1. CASE n = "dst"
    <3>1. Ending(Range(eventq["dst"])) \subseteq Ending({Event(n)} \cup Range(eventq'["dst"]))
      BY <1>5, <2>1, EndingIs
    <3> QED
      BY <1>2, <3>1, EndingIs
  <2>2. CASE n # "dst"
    BY <1>5, <2>2 DEF Nodes
  <2> QED
    BY <2>1, <2>2
<1>8. FragmentsOK'
  BY <1>0, <1>1, FragmentsStay
<1>9. Listed'
  BY <1>0, <1>1, <1>7, StaysListed DEF reassembly, bounds
<1> QED
  BY <1>6, <1>8, <1>9 DEF FragInv

\* What handle_bundle_received does with what came.
LEMMA ReceivedCases ==
    ASSUME Types, NEW n \in Nodes, HandleReceived(n)
    PROVE  /\ Current(n, "received") /\ UNCHANGED <<bounds, lost>>
           /\ \/ /\ Ignore(n)
                 /\ \/ Comes(Event(n)) = {}
                    \/ \E c \in Copies : Comes(Event(n)) = {c} /\ Duplicate(n, c)
              \/ \E c \in Copies :
                    /\ Comes(Event(n)) = {c} /\ c.id = Event(n).copy.id
                    /\ \/ Accept(n, c) /\ (late \/ n = "src")
                       \/ DeliverWhole(n, c) /\ c.whole /\ n = "dst" /\ ~late
                       \/ Reassemble(n, c) /\ ~c.whole /\ n = "dst" /\ ~late
<1> DEFINE e == Event(n)
<1>1. Current(n, "received") /\ UNCHANGED <<bounds, lost>>
  BY DEF HandleReceived
<1>2. e \in Events \cup Loads /\ e.type = "received"
  BY <1>1, Taking
<1>3. Comes(e) = IF e.source = "peer" THEN Arrived(e.copy, e.bytes) ELSE {e.copy}
  BY <1>2 DEF Comes
<1>4. \/ Comes(e) = {}
      \/ \E d \in Copies : Comes(e) = {d} /\ d.id = e.copy.id
  BY <1>2, ComesIs
<1>5. \/ Comes(e) = {} /\ Ignore(n)
      \/ \E c \in Comes(e) :
             \/ Duplicate(n, c) /\ Ignore(n)
             \/ (late \/ n = "src") /\ Accept(n, c)
             \/ ~late /\ n = "dst" /\ c.whole /\ DeliverWhole(n, c)
             \/ ~late /\ n = "dst" /\ ~c.whole /\ Reassemble(n, c)
  <2>1. \/ /\ e.source = "peer" /\ Arrived(e.copy, e.bytes) = {}
           /\ Ignore(n)
        \/ \E c \in IF e.source = "peer" THEN Arrived(e.copy, e.bytes) ELSE {e.copy} :
             \/ Duplicate(n, c) /\ Ignore(n)
             \/ /\ ~Duplicate(n, c) /\ (late \/ n = "src")
                /\ Accept(n, c)
             \/ /\ ~Duplicate(n, c) /\ ~late /\ n = "dst" /\ c.whole
                /\ DeliverWhole(n, c)
             \/ /\ ~Duplicate(n, c) /\ ~late /\ n = "dst" /\ ~c.whole
                /\ Reassemble(n, c)
    BY DEF HandleReceived
  <2> HIDE DEF e
  <2> QED
    BY <1>3, <2>1
<1> HIDE DEF e
<1>6. CASE Comes(e) = {} /\ Ignore(n)
  BY <1>1, <1>6 DEF e
<1>7. ASSUME NEW c \in Comes(e),
             \/ Duplicate(n, c) /\ Ignore(n)
             \/ (late \/ n = "src") /\ Accept(n, c)
             \/ ~late /\ n = "dst" /\ c.whole /\ DeliverWhole(n, c)
             \/ ~late /\ n = "dst" /\ ~c.whole /\ Reassemble(n, c)
      PROVE  \/ /\ Ignore(n)
                /\ \E d \in Copies : Comes(e) = {d} /\ Duplicate(n, d)
             \/ \E d \in Copies :
                    /\ Comes(e) = {d} /\ d.id = e.copy.id
                    /\ \/ Accept(n, d) /\ (late \/ n = "src")
                       \/ DeliverWhole(n, d) /\ d.whole /\ n = "dst" /\ ~late
                       \/ Reassemble(n, d) /\ ~d.whole /\ n = "dst" /\ ~late
  <2>1. c \in Copies /\ Comes(e) = {c} /\ c.id = e.copy.id
    BY <1>4
  <2> QED
    BY <1>7, <2>1
<1> QED
  BY <1>1, <1>5, <1>6, <1>7 DEF e

LEMMA ReceivedFrag ==
    ASSUME FragInv, NEW n \in Nodes, HandleReceived(n)
    PROVE  FragInv'
<1>1. Types
  BY DEF FragInv
<1>2. /\ Current(n, "received") /\ UNCHANGED bounds
      /\ \/ Ignore(n)
         \/ \E c \in Copies :
               \/ Accept(n, c) /\ (late \/ n = "src")
               \/ DeliverWhole(n, c) /\ c.whole /\ n = "dst"
               \/ Reassemble(n, c) /\ ~c.whole /\ n = "dst"
  BY <1>1, ReceivedCases
<1>3. CASE Ignore(n)
  BY <1>2, <1>3, Ignoring
<1>4. ASSUME NEW c \in Copies, Accept(n, c), late \/ n = "src" PROVE FragInv'
  BY <1>2, <1>4, Accepting
<1>5. ASSUME NEW c \in Copies, DeliverWhole(n, c), c.whole, n = "dst" PROVE FragInv'
  BY <1>2, <1>5, Delivering
<1>6. ASSUME NEW c \in Copies, Reassemble(n, c), ~c.whole, n = "dst" PROVE FragInv'
  BY <1>2, <1>6, Reassembling
<1> QED
  BY <1>2, <1>3, <1>4, <1>5, <1>6

LEMMA DaemonFrag ==
    ASSUME FragInv, NEW n \in Nodes, Daemon(n)
    PROVE  FragInv'
<1>1. ASSUME HandleDelivered(n) PROVE FragInv'
  <2>1. Current(n, "delivered") /\ Ignore(n) /\ UNCHANGED bounds
    BY <1>1 DEF HandleDelivered
  <2> QED
    BY <2>1, Ignoring
<1>2. ASSUME HandleDelete(n, "expired") \/ HandleDelete(n, "delete") PROVE FragInv'
  BY <1>2, DeleteFrag
<1> QED
  BY <1>1, <1>2, ReceivedFrag, TransmittedFrag, CompletedFrag, FreeFrag DEF Daemon

\* A transmission, the units that arrived and what close_contact hands over.
LEMMA Transmitting ==
    ASSUME Types, NEW c \in pending["src"], Transmit(c)
    PROVE  /\ UNCHANGED <<pending, store, armed, loading, reassembly, delivery, late, crashes>>
           /\ attempts' \in Nat /\ c \in Copies
           /\ \A e \in Range(eventq["src"]) : e.type = "transmitted" => e.copy # c
           /\ \E acked \in Nat, bytes \in Nat, d \in Copies :
                 /\ acked <= bytes /\ bytes <= Formatted(c)
                 /\ d = [c EXCEPT !.id = FreshId("dst")] /\ d.id = FreshId("dst")
                 /\ d.off = c.off /\ d.len = c.len /\ d.whole = c.whole
                 /\ \/ eventq'["src"] = eventq["src"]
                    \/ eventq'["src"] = Append(eventq["src"], Transmitted(c, acked))
                 /\ \/ /\ bytes = Formatted(c) \/ bytes > HeaderLen
                       /\ eventq'["dst"] = Append(eventq["dst"], Received(d, bytes, "peer"))
                       /\ lost' = lost
                    \/ /\ bytes # Formatted(c) /\ eventq'["dst"] = eventq["dst"]
                       /\ \/ acked <= HeaderLen /\ lost' = lost
                          \/ lost' = lost \cup Units([c EXCEPT !.len = Least(@, acked - HeaderLen)])
           /\ eventq' \in [Nodes -> Seq(Events)]
<1>1. /\ c \in Copies /\ eventq["src"] \in Seq(Events) /\ eventq["dst"] \in Seq(Events)
      /\ attempts \in Nat /\ "dst" \in Nodes
  BY DEF Types, Nodes
<1>2. FreshId("dst") \in Nat
  BY <1>1, FreshIs
<1>3. Formatted(c) \in Nat /\ Formatted(c) > HeaderLen /\ HeaderLen \in Nat \ {0}
  BY <1>1, FormattedIs
<1>4. SegmentEnds(c) \subseteq Nat
  BY <1>3, SizesAssumption DEF SegmentEnds
<1>5. /\ UNCHANGED <<pending, store, armed, loading, reassembly, delivery, late, crashes>>
      /\ attempts' = attempts + 1
      /\ \A e \in Range(eventq["src"]) : e.type = "transmitted" => e.copy # c
  BY DEF Transmit
<1> DEFINE d == [c EXCEPT !.id = FreshId("dst")]
<1>6. PICK acked \in SegmentEnds(c), bytes \in 0 .. Formatted(c), begun \in BOOLEAN :
          LET handsOver == bytes = Formatted(c) \/ (bytes > HeaderLen /\ ~begun)
          IN  /\ acked <= bytes
              /\ begun \in {bytes > LastStart(c), bytes >= LastStart(c)}
              /\ eventq' = [src |-> IF acked = 0 THEN eventq["src"]
                                    ELSE Append(eventq["src"], Transmitted(c, acked)),
                            dst |-> IF handsOver
                                    THEN Append(eventq["dst"], Received(d, bytes, "peer"))
                                    ELSE eventq["dst"]]
              /\ lost' = IF handsOver \/ acked <= HeaderLen THEN lost
                         ELSE lost \cup Units([c EXCEPT !.len = Least(@, acked - HeaderLen)])
  BY Zenon DEF Transmit
<1>7. /\ d \in Copies /\ d.id = FreshId("dst")
      /\ d.off = c.off /\ d.len = c.len /\ d.whole = c.whole
  BY <1>1, <1>2 DEF Copies
<1>8. Formatted(d) = Formatted(c)
  BY <1>7 DEF Formatted
<1> DEFINE handsOver == bytes = Formatted(c) \/ (bytes > HeaderLen /\ ~begun)
           lose == Units([c EXCEPT !.len = Least(@, acked - HeaderLen)])
           s == Append(eventq["src"], Transmitted(c, acked))
           t == Append(eventq["dst"], Received(d, bytes, "peer"))
<1>9. /\ acked \in Nat /\ bytes \in Nat /\ acked <= bytes /\ bytes <= Formatted(c)
  BY <1>3, <1>4, <1>6
<1>10. /\ eventq' = [src |-> IF acked = 0 THEN eventq["src"] ELSE s,
                     dst |-> IF handsOver THEN t ELSE eventq["dst"]]
       /\ lost' = IF handsOver \/ acked <= HeaderLen THEN lost ELSE lost \cup lose
  BY <1>6, Zenon
<1> HIDE DEF d
<1>11. s \in Seq(Events)
  <2>1. Transmitted(c, acked) \in Events
    BY <1>1, <1>9, MakeReport, ReportIs
  <2> QED
    BY <1>1, <2>1
<1>12. handsOver => t \in Seq(Events)
  <2> SUFFICES ASSUME handsOver PROVE t \in Seq(Events)
    OBVIOUS
  <2>1. Received(d, bytes, "peer") \in Events
    BY <1>7, <1>8, <1>9, MakeReception, ReceptionIs
  <2> QED
    BY <1>1, <2>1
<1> HIDE DEF s, t, lose
<1>13. /\ eventq'["src"] = IF acked = 0 THEN eventq["src"] ELSE s
       /\ eventq'["dst"] = IF handsOver THEN t ELSE eventq["dst"]
       /\ DOMAIN eventq' = Nodes
  <2> HIDE DEF handsOver
  <2> QED
    BY <1>10 DEF Nodes
<1>14. eventq' \in [Nodes -> Seq(Events)]
  <2>1. eventq'["src"] \in Seq(Events) /\ eventq'["dst"] \in Seq(Events)
    BY <1>1, <1>11, <1>12, <1>13
  <2>2. eventq' = [n \in Nodes |-> eventq'[n]]
    <3> DEFINE u == IF acked = 0 THEN eventq["src"] ELSE s
               v == IF handsOver THEN t ELSE eventq["dst"]
    <3>1. eventq' = [src |-> u, dst |-> v]
      BY <1>10
    <3> HIDE DEF u, v
    <3> QED
      BY <3>1 DEF Nodes
  <2> QED
    BY <2>1, <2>2 DEF Nodes
<1>15. attempts' \in Nat
  BY <1>1, <1>5
<1>16. CASE handsOver
  <2>1. eventq'["dst"] = t /\ lost' = lost /\ (bytes = Formatted(c) \/ bytes > HeaderLen)
    BY <1>10, <1>13, <1>16
  <2> QED
    BY <1>1, <1>5, <1>7, <1>9, <1>13, <1>14, <1>15, <2>1, Zenon DEF d, s, t
<1>17. CASE ~handsOver
  <2>1. /\ eventq'["dst"] = eventq["dst"] /\ bytes # Formatted(c)
        /\ \/ acked <= HeaderLen /\ lost' = lost
           \/ lost' = lost \cup lose
    BY <1>10, <1>13, <1>17
  <2> QED
    BY <1>1, <1>5, <1>7, <1>9, <1>13, <1>14, <1>15, <2>1, Zenon DEF d, s, t, lose
<1> QED
  BY <1>16, <1>17

LEMMA EnvironmentFrag ==
    ASSUME FragInv,
           \/ \E c \in pending["src"] : Transmit(c)
           \/ LifetimeEnds
           \/ \E n \in Nodes : \E c \in armed[n] : ExpirationTimeout(n, c)
           \/ \E c \in handed : AppReceives(c)
           \/ UNCHANGED vars
    PROVE  FragInv'
<1>0. Types /\ FragmentsOK /\ Listed /\ "dst" \in Nodes /\ "src" \in Nodes
  BY DEF FragInv, Nodes
<1>1. ASSUME NEW c \in pending["src"], Transmit(c) PROVE FragInv'
  <2>1. /\ UNCHANGED <<pending, store, armed, loading, reassembly, delivery, late, crashes>>
        /\ attempts' \in Nat /\ eventq' \in [Nodes -> Seq(Events)]
        /\ \/ eventq'["dst"] = eventq["dst"]
           \/ \E d \in Copies, bytes \in Nat :
                 /\ bytes = Formatted(c) \/ bytes > HeaderLen
                 /\ Formatted(d) = Formatted(c)
                 /\ eventq'["dst"] = Append(eventq["dst"], Received(d, bytes, "peer"))
    BY <1>0, <1>1, Transmitting DEF Formatted
  <2>2. Types'
    BY <1>0, <2>1 DEF Types, reassembly, delivery
  <2>3. Range(eventq["dst"]) \subseteq Range(eventq'["dst"])
    <3>1. ASSUME NEW d \in Copies, NEW bytes \in Nat, bytes = Formatted(c) \/ bytes > HeaderLen,
                 Formatted(d) = Formatted(c),
                 eventq'["dst"] = Append(eventq["dst"], Received(d, bytes, "peer"))
          PROVE  Range(eventq["dst"]) \subseteq Range(eventq'["dst"])
      <4>1. eventq["dst"] \in Seq(Events) /\ Received(d, bytes, "peer") \in Events
        BY <1>0, <3>1, MakeReception, ReceptionIs DEF Types
      <4> QED
        BY <3>1, <4>1, ElementsOfAppend, RangeIs
    <3> QED
      BY <2>1, <3>1
  <2>4. Listed'
    BY <1>0, <2>1, <2>3, StaysListed, EndingIs DEF reassembly
  <2> QED
    BY <1>0, <2>1, <2>2, <2>4, FragmentsStay DEF FragInv
<1>2. CASE LifetimeEnds
  <2>1. late' = TRUE /\ UNCHANGED <<node, reassembly, delivery, attempts, crashes>>
    BY <1>2 DEF LifetimeEnds
  <2>2. Types'
    <3>1. late' \in BOOLEAN
      BY <2>1
    <3> QED
      BY <1>0, <2>1, <3>1, Zenon DEF Types, node, reassembly, delivery
  <2>3. Listed'
    BY <1>0, <2>1, StaysListed DEF reassembly, node
  <2> QED
    BY <1>0, <2>1, <2>2, <2>3, FragmentsStay DEF FragInv
<1>3. ASSUME NEW n \in Nodes, NEW c \in armed[n], ExpirationTimeout(n, c) PROVE FragInv'
  <2> DEFINE e == About("expired", c)
             q == <<e>> \o eventq[n]
  <2>1. /\ armed' = [armed EXCEPT ![n] = @ \ {c}]
        /\ eventq' = [eventq EXCEPT ![n] = q]
        /\ UNCHANGED <<pending, store, loading, reassembly, delivery, bounds>>
    BY <1>3 DEF ExpirationTimeout, PostedFirst
  <2>2. c \in Copies /\ eventq[n] \in Seq(Events)
    BY <1>0 DEF Types
  <2>3. e \in Events
    BY <2>2, MakeNotice, NoticeIs
  <2> HIDE DEF e
  <2>4. q \in Seq(Events) /\ Range(eventq[n]) \subseteq Range(q)
    BY <2>2, <2>3, ElementsOfPrepend, RangeIs
  <2> HIDE DEF q
  <2>5. /\ eventq' \in [Nodes -> Seq(Events)] /\ armed' \in [Nodes -> SUBSET Copies]
        /\ \A m \in Nodes : Range(eventq[m]) \subseteq Range(eventq'[m])
    BY <1>0, <2>1, <2>4 DEF Types
  <2>6. Types'
    BY <1>0, <2>1, <2>5 DEF Types, reassembly, delivery, bounds
  <2>7. Listed'
    BY <1>0, <2>1, <2>5, StaysListed, EndingIs DEF reassembly, bounds
  <2> QED
    BY <1>0, <2>1, <2>6, <2>7, FragmentsStay DEF FragInv
<1>4. ASSUME NEW c \in handed, AppReceives(c) PROVE FragInv'
  <2> DEFINE n == "dst"
             e == About("delivered", c)
             q == Append(eventq[n], e)
  <2>1. /\ handed' = handed \ {c} /\ got' = got + 1
        /\ eventq' = [eventq EXCEPT ![n] = q]
        /\ UNCHANGED <<pending, store, armed, loading, reassembly, cache, bounds>>
    BY <1>4 DEF AppReceives
  <2>2. c \in Copies /\ eventq[n] \in Seq(Events)
    BY <1>0 DEF Types
  <2>3. e \in Events
    BY <2>2, MakeNotice, NoticeIs
  <2> HIDE DEF e
  <2>4. q \in Seq(Events) /\ Range(eventq[n]) \subseteq Range(q)
    BY <2>2, <2>3, ElementsOfAppend, RangeIs
  <2> HIDE DEF q
  <2>5. /\ eventq' \in [Nodes -> Seq(Events)]
        /\ Range(eventq[n]) \subseteq Range(eventq'[n])
    BY <1>0, <2>1, <2>4 DEF Types
  <2>6. handed' \subseteq Copies /\ IsFiniteSet(handed') /\ got' \in Nat
    <3>1. handed' \in SUBSET handed
      BY <2>1
    <3> QED
      BY <1>0, <2>1, <3>1, FS_Subset DEF Types
  <2>7. Types'
    BY <1>0, <2>1, <2>5, <2>6 DEF Types, reassembly, bounds
  <2>8. Listed'
    BY <1>0, <2>1, <2>5, StaysListed, EndingIs DEF reassembly, bounds
  <2> QED
    BY <1>0, <2>1, <2>7, <2>8, FragmentsStay DEF FragInv
<1>5. CASE UNCHANGED vars
  <2>1. Types'
    BY <1>0, <1>5 DEF Types, vars, node, reassembly, delivery, bounds
  <2>2. Listed'
    BY <1>0, <1>5 DEF Listed, Partial, vars, node, reassembly, delivery, bounds
  <2> QED
    BY <1>0, <1>5, <2>1, <2>2, FragmentsStay DEF FragInv, vars
<1> QED
  BY <1>1, <1>2, <1>3, <1>4, <1>5

\* What a crash leaves: the stored copies, of which load_bundles makes events.
LEMMA Crashing ==
    ASSUME Types, NEW n \in Nodes, Crash(n)
    PROVE  /\ loading' \in [Nodes -> Seq(Loads)]
           /\ \A m \in Nodes : m # n => loading'[m] = loading[m] /\ eventq'[m] = eventq[m]
                                        /\ pending'[m] = pending[m]
           /\ {e.copy : e \in Range(loading'[n])} = store[n]
           /\ pending'[n] = {} /\ eventq'[n] = <<>> /\ store' = store
           /\ pending' \in [Nodes -> SUBSET Copies] /\ armed' \in [Nodes -> SUBSET Copies]
           /\ eventq' \in [Nodes -> Seq(Events)]
<1>1. /\ pending \in [Nodes -> SUBSET Copies] /\ store \in [Nodes -> SUBSET Copies]
      /\ armed \in [Nodes -> SUBSET Copies] /\ IsFiniteSet(store[n])
      /\ eventq \in [Nodes -> Seq(Events)] /\ loading \in [Nodes -> Seq(Loads)]
  BY DEF Types
<1>2. /\ \E stored \in ById(store[n]) :
            loading' = [loading EXCEPT ![n] =
                           [i \in DOMAIN stored |-> Received(stored[i], 0, "store")]]
      /\ pending' = [pending EXCEPT ![n] = {}]
      /\ armed' = [armed EXCEPT ![n] = {}]
      /\ eventq' = [eventq EXCEPT ![n] = <<>>]
      /\ store' = store
  BY Zenon DEF Crash
<1>3. PICK stored \in ById(store[n]) :
          loading' = [loading EXCEPT ![n] =
                         [i \in DOMAIN stored |-> Received(stored[i], 0, "store")]]
  BY <1>2
<1>4. /\ stored \in Seq(Copies) /\ Range(stored) = store[n] /\ DOMAIN stored = 1..Len(stored)
      /\ \A i \in 1..Len(stored) : stored[i] \in Copies
  <2>1. store[n] \in SUBSET Copies
    BY <1>1
  <2> QED
    BY <1>1, <2>1, ByIdIs
<1> DEFINE l == [i \in DOMAIN stored |-> Received(stored[i], 0, "store")]
<1>5. \A c : Received(c, 0, "store").copy = c
  BY DEF Received
<1>6. \A c \in Copies : Received(c, 0, "store") \in Loads
  BY DEF Received, Loads
<1>7. l \in Seq(Loads) /\ DOMAIN l = 1..Len(stored)
      /\ \A i \in 1..Len(stored) : l[i].copy = stored[i]
  BY <1>4, <1>5, <1>6
<1> HIDE DEF l
<1>8. /\ loading' = [loading EXCEPT ![n] = l]
  BY <1>3 DEF l
<1>9. {e.copy : e \in Range(l)} = store[n]
  <2>1. \A e \in Range(l) : \E i \in 1..Len(stored) : e = l[i]
    BY <1>7 DEF Range
  <2>2. \A i \in 1..Len(stored) : l[i] \in Range(l)
    BY <1>7 DEF Range
  <2>3. \A c \in store[n] : \E i \in 1..Len(stored) : c = stored[i]
    BY <1>4 DEF Range
  <2>4. \A i \in 1..Len(stored) : stored[i] \in store[n]
    BY <1>4 DEF Range
  <2>5. \A e \in Range(l) : e.copy \in store[n]
    BY <1>7, <2>1, <2>4
  <2>6. \A c \in store[n] : \E e \in Range(l) : c = e.copy
    BY <1>7, <2>2, <2>3
  <2> QED
    BY <2>5, <2>6
<1>10. loading' \in [Nodes -> Seq(Loads)] /\ loading'[n] = l
       /\ \A m \in Nodes : m # n => loading'[m] = loading[m]
  BY <1>1, <1>7, <1>8
<1>11. /\ pending' \in [Nodes -> SUBSET Copies] /\ armed' \in [Nodes -> SUBSET Copies]
       /\ pending'[n] = {} /\ \A m \in Nodes : m # n => pending'[m] = pending[m]
  BY <1>1, <1>2
<1>12. /\ eventq' \in [Nodes -> Seq(Events)] /\ eventq'[n] = <<>>
       /\ \A m \in Nodes : m # n => eventq'[m] = eventq[m]
  <2> DEFINE q == <<>>
  <2>1. q \in Seq(Events) /\ eventq' = [eventq EXCEPT ![n] = q]
    BY <1>2
  <2> HIDE DEF q
  <2>2. /\ eventq' \in [Nodes -> Seq(Events)] /\ eventq'[n] = q
        /\ \A m \in Nodes : m # n => eventq'[m] = eventq[m]
    BY <1>1, <2>1
  <2> QED
    BY <2>2 DEF q
<1> QED
  BY <1>2, <1>9, <1>10, <1>11, <1>12

LEMMA CrashFrag ==
    ASSUME FragInv, NEW n \in Nodes, Crash(n)
    PROVE  FragInv'
<1>0. Types /\ FragmentsOK /\ Listed
  BY DEF FragInv
<1>1. /\ loading' \in [Nodes -> Seq(Loads)]
      /\ \A m \in Nodes : m # n => loading'[m] = loading[m] /\ eventq'[m] = eventq[m]
                                   /\ pending'[m] = pending[m]
      /\ pending'[n] = {} /\ eventq'[n] = <<>> /\ store' = store
      /\ pending' \in [Nodes -> SUBSET Copies] /\ armed' \in [Nodes -> SUBSET Copies]
      /\ eventq' \in [Nodes -> Seq(Events)]
  BY <1>0, Crashing
<1>2. crashes' = crashes + 1 /\ UNCHANGED <<store, got, late, attempts>>
  BY Zenon DEF Crash
<1>3. IF n = "dst" THEN /\ fragments' = <<>> /\ written' = {}
                        /\ handed' = {} /\ cache' = FALSE
                   ELSE UNCHANGED <<reassembly, handed, cache>>
  BY Zenon DEF Crash
<1>4. /\ fragments' \in Seq(Copies) /\ written' \subseteq AllUnits
      /\ handed' \subseteq Copies /\ IsFiniteSet(handed') /\ cache' \in BOOLEAN
  <2>1. CASE n = "dst"
    <3>1. /\ fragments' = <<>> /\ written' = {}
          /\ handed' = {} /\ cache' = FALSE
      BY <1>3, <2>1, Zenon
    <3>2. cache' \in BOOLEAN
      BY <3>1, Zenon
    <3>3. /\ fragments' \in Seq(Copies) /\ written' \subseteq AllUnits
          /\ handed' \subseteq Copies /\ IsFiniteSet(handed')
      BY <3>1, FS_EmptySet
    <3> QED
      BY <3>2, <3>3
  <2>2. CASE n # "dst"
    BY <1>0, <1>3, <2>2 DEF Types, reassembly
  <2> QED
    BY <2>1, <2>2
<1>5. \A m \in Nodes : IsFiniteSet(pending'[m]) /\ IsFiniteSet(store'[m])
  BY <1>0, <1>1, FS_EmptySet DEF Types
<1>6. Types'
  <2>1. crashes' \in Nat /\ got' \in Nat /\ late' \in BOOLEAN /\ attempts' \in Nat
    BY <1>0, <1>2 DEF Types
  <2>2. store' \in [Nodes -> SUBSET Copies]
    BY <1>0, <1>1 DEF Types
  <2> QED
    BY <1>1, <1>4, <1>5, <2>1, <2>2, Zenon DEF Types
<1>7. FragmentsOK'
  <2>1. CASE n = "dst"
    BY <1>3, <2>1, FragmentsNone
  <2>2. CASE n # "dst"
    BY <1>0, <1>3, <2>2, FragmentsStay
  <2> QED
    BY <2>1, <2>2
<1>8. Listed'
  <2>1. CASE n = "dst"
    <3>1. Range(fragments') = {} /\ Partial' = {}
      BY <1>1, <1>3, <2>1, CoveredNone DEF Partial
    <3> QED
      BY <3>1 DEF Listed
  <2>2. CASE n # "dst"
    BY <1>0, <1>1, <1>2, <1>3, <2>2, StaysListed DEF reassembly, Nodes
  <2> QED
    BY <2>1, <2>2
<1> QED
  BY <1>6, <1>7, <1>8 DEF FragInv

LEMMA FragStep == FragInv /\ [Next]_vars => FragInv'
BY DaemonFrag, CrashFrag, EnvironmentFrag DEF Next

LEMMA FragInit == Init => FragInv
<1> SUFFICES ASSUME Init PROVE FragInv
  OBVIOUS
<1>1. /\ pending = [n \in Nodes |-> {}] /\ store = [n \in Nodes |-> {}]
      /\ armed = [n \in Nodes |-> {}] /\ loading = [n \in Nodes |-> <<>>]
      /\ eventq = [n \in Nodes |-> IF n = "src"
                       THEN <<Received(Whole(1), Formatted(Whole(1)), "app")>> ELSE <<>>]
      /\ fragments = <<>> /\ written = {} /\ handed = {} /\ cache = FALSE /\ got = 0
      /\ late = FALSE /\ attempts = 0 /\ crashes = 0
  BY DEF Init
<1> DEFINE e == Received(Whole(1), Formatted(Whole(1)), "app")
<1>2. e \in Events
  <2>1. Whole(1) \in Copies
    BY MakeCopies
  <2> DEFINE c == Whole(1)
  <2> HIDE DEF c
  <2>2. Formatted(c) \in Nat /\ c \in Copies
    BY <2>1, FormattedIs DEF c
  <2>3. Received(c, Formatted(c), "app") \in Events
    BY <2>2, MakeReception, ReceptionIs
  <2> QED
    BY <2>3 DEF c
<1> HIDE DEF e
<1>3. eventq \in [Nodes -> Seq(Events)]
  <2> DEFINE q == <<e>>
             r == <<>>
  <2>1. q \in Seq(Events) /\ r \in Seq(Events)
    BY <1>2
  <2>2. eventq = [n \in Nodes |-> IF n = "src" THEN q ELSE r]
    BY <1>1 DEF e
  <2> HIDE DEF q, r
  <2> QED
    BY <2>1, <2>2
<1>4. FragmentsOK
  <2>1. Covered(Range(<<>>)) = {} /\ Sorted(<<>>)
    BY CoveredNone, SortedEmpty
  <2> QED
    BY <1>1, <2>1, AllUnitsNonempty DEF FragmentsOK
<1>5. Types
  <2>1. /\ pending \in [Nodes -> SUBSET Copies] /\ store \in [Nodes -> SUBSET Copies]
        /\ armed \in [Nodes -> SUBSET Copies] /\ loading \in [Nodes -> Seq(Loads)]
        /\ fragments \in Seq(Copies) /\ written \subseteq AllUnits /\ handed \subseteq Copies
        /\ got \in Nat /\ attempts \in Nat /\ crashes \in Nat
    BY <1>1
  <2>2. cache \in BOOLEAN /\ late \in BOOLEAN
    BY <1>1, Zenon
  <2>3. IsFiniteSet(handed) /\ \A n \in Nodes : IsFiniteSet(pending[n]) /\ IsFiniteSet(store[n])
    BY <1>1, FS_EmptySet
  <2> QED
    BY <1>3, <2>1, <2>2, <2>3, Zenon DEF Types
<1>6. Listed
  <2>1. Range(fragments) = {} /\ Partial = {}
    BY <1>1, CoveredNone DEF Partial, Nodes
  <2> QED
    BY <2>1 DEF Listed
<1> QED
  BY <1>4, <1>5, <1>6 DEF FragInv

LEMMA FragInvariant == Spec => []FragInv
BY FragInit, FragStep, PTL DEF Spec

\* No fragment reaches past the end of its bundle, and reassembly completes a
\* bundle exactly when its fragments have every unit of the payload: in whatever
\* order they come and however they overlap, for every payload and segment
\* length (FragmentState::check_completed, process_for_reassembly).
THEOREM ReassemblyIsExact == Spec => []ReassemblyExact
<1>1. FragInv => ReassemblyExact
  <2> SUFFICES ASSUME FragInv PROVE ReassemblyExact
    OBVIOUS
  <2>0. Types /\ FragmentsOK
    BY DEF FragInv
  <2>1. \A n \in Nodes : \A c \in pending[n] \cup store[n] : c.off + c.len <= Total
    BY <2>0, CopyIs DEF Types
  <2>2. \A e \in Range(eventq["dst"]) :
          e.type = "completed" => Covered(Range(e.list)) = AllUnits /\ e.data = AllUnits
    <3>1. eventq["dst"] \in Seq(Events)
      BY <2>0 DEF Types, Nodes
    <3>2. Range(eventq["dst"]) \subseteq Events
      BY <3>1, ElementsOf, RangeIs
    <3> QED
      BY <3>2, EventIs, CompletionIs
  <2> QED
    BY <2>0, <2>1, <2>2 DEF ReassemblyExact, FragmentsOK
<1> QED
  BY <1>1, FragInvariant, PTL

\* No pending fragment of a bundle at its destination is forgotten by the
\* FragmentManager and none that was deleted still counts: it takes part in the
\* reassembly or its end is queued, after a restart of the daemon as well.
THEOREM PendingFragmentsAreListed == Spec => []PendingAreListed
<1>1. FragInv => PendingAreListed
  BY DEF FragInv, Listed, Partial, Ending, PendingAreListed
<1> QED
  BY <1>1, FragInvariant, PTL

-----------------------------------------------------------------------------
(* Where the units of the payload are.                                     *)

\* The stored copies that something refers to.
Loaded(n) == {e.copy : e \in Range(loading[n])}
ToDeliver(n) == IF n = "dst" THEN handed ELSE {}
Live(n) == pending[n] \cup Loaded(n) \cup ToDeliver(n)
Brought(R) == UNION {Comes(e) : e \in R}
Has(n) == Covered(Live(n) \cup Brought(Range(eventq[n])))

Brings(e) == e.type \in {"received", "completed"}
\* What the daemon posts at the head of its queue to replace copies it has.
Urgent(e) == \/ e.type = "received" /\ e.source \in {"tail", "reassembled"}
             \/ e.type = "completed"

\* Bundle ids: two of these events are not of the same bundle.
Clash(e, f) == Brings(e) /\ (Brings(f) \/ f.type = "free") /\ e.copy.id = f.copy.id
Apart(q) == \A i, j \in 1..Len(q) : i # j => ~Clash(q[i], q[j])

\* A queue of a node that stores S and refers to the copies in L: what comes
\* gets an id that no stored copy has, a copy that is transmitted stays stored
\* until that is handled, and one that is to be freed is not referred to.
KeptQueue(q, S, L) ==
    /\ Apart(q)
    /\ \A e \in Range(q) :
          /\ e.type = "transmitted" => e.copy \in S
          /\ Brings(e) => \A c \in S : c.id # e.copy.id
          /\ e.type = "free" =>
                /\ e.copy \notin L
                /\ \A f \in Range(q) : f.type = "transmitted" => f.copy # e.copy

\* What replaces stored copies comes before everything that could free them.
UrgentQueue(q, S) ==
    /\ \A i, j \in 1..Len(q) : i < j /\ Urgent(q[j]) => Urgent(q[i])
    /\ \A e \in Range(q) : Urgent(e) => Units(e.copy) \subseteq Covered(S)

NodeOK(n) == /\ Live(n) \subseteq store[n]
             /\ KeptQueue(eventq[n], store[n], Live(n))
             /\ late \/ UrgentQueue(eventq[n], store[n])

\* The application got the bundle, will get it, or will not any more.
Done == late \/ got > 0

\* Which node has which events, and why.
Proper(n, e) ==
    /\ n = "src" => e.type \notin {"completed", "delete"}
    /\ n = "dst" => e.type # "transmitted" /\ (e.type = "delete" => Done \/ handed # {})
    /\ e.type = "expired" => late
Kinds == /\ \A n \in Nodes : \A e \in Range(eventq[n]) : Proper(n, e)
         /\ cache => Done \/ handed # {}
         /\ \A c \in handed : c.whole

\* What the peer acknowledged did arrive, and no unit has left both nodes.
Reported == Done \/ \A e \in Range(eventq["src"]) :
    e.type = "transmitted" => Acked(e.copy, e.acked) \subseteq lost \cup Has("dst")
Everywhere == Done \/ AllUnits \subseteq lost \cup Has("src") \cup Has("dst")

KeepInv == /\ \A n \in Nodes : NodeOK(n)
           /\ Kinds /\ Reported /\ Everywhere


\* A step by which the units that node n has stay somewhere.
Moved(n) == Done' \/ Has(n) \subseteq lost' \cup Has(n)' \cup Has("dst")'

\* Two queues after each other.
LEMMA KeptConcat ==
    ASSUME NEW s \in Seq(Events), NEW t \in Seq(Events), NEW S, NEW L,
           KeptQueue(s, S, L), KeptQueue(t, S, L),
           \A e \in Range(s) : \A f \in Range(t) :
              /\ ~Clash(e, f) /\ ~Clash(f, e)
              /\ e.type = "free" /\ f.type = "transmitted" => f.copy # e.copy
              /\ e.type = "transmitted" /\ f.type = "free" => f.copy # e.copy
    PROVE  s \o t \in Seq(Events) /\ KeptQueue(s \o t, S, L)
<1> DEFINE u == s \o t
<1>1. u \in Seq(Events) /\ Range(u) = Range(s) \cup Range(t)
  BY ElementsOfConcat, RangeIs
<1>2. /\ Len(u) = Len(s) + Len(t) /\ Len(s) \in Nat /\ Len(t) \in Nat
      /\ \A i \in 1..Len(s) : u[i] = s[i]
      /\ \A i \in (Len(s) + 1)..(Len(s) + Len(t)) :
            u[i] = t[i - Len(s)] /\ i - Len(s) \in 1..Len(t)
  BY ConcatIs
<1> HIDE DEF u
<1>3. /\ \A i \in 1..Len(s) : s[i] \in Range(s)
      /\ \A i \in 1..Len(t) : t[i] \in Range(t)
  BY ElementsOf, RangeIs
<1>4. Apart(u)
  <2> SUFFICES ASSUME NEW i \in 1..Len(u), NEW j \in 1..Len(u), i # j
               PROVE  ~Clash(u[i], u[j])
    BY DEF Apart
  <2>0. Apart(s) /\ Apart(t)
    BY DEF KeptQueue
  <2>1. /\ i \in 1..Len(s) \/ i \in (Len(s) + 1)..(Len(s) + Len(t))
        /\ j \in 1..Len(s) \/ j \in (Len(s) + 1)..(Len(s) + Len(t))
    BY <1>2
  <2>2. CASE i \in 1..Len(s) /\ j \in 1..Len(s)
    BY <1>2, <2>0, <2>2 DEF Apart
  <2>3. CASE i \in 1..Len(s) /\ j \in (Len(s) + 1)..(Len(s) + Len(t))
    <3>1. u[i] \in Range(s) /\ u[j] \in Range(t)
      BY <1>2, <1>3, <2>3
    <3> QED
      BY <3>1
  <2>4. CASE i \in (Len(s) + 1)..(Len(s) + Len(t)) /\ j \in 1..Len(s)
    <3>1. u[i] \in Range(t) /\ u[j] \in Range(s)
      BY <1>2, <1>3, <2>4
    <3> QED
      BY <3>1
  <2>5. CASE i \in (Len(s) + 1)..(Len(s) + Len(t)) /\ j \in (Len(s) + 1)..(Len(s) + Len(t))
    <3>1. /\ u[i] = t[i - Len(s)] /\ i - Len(s) \in 1..Len(t)
          /\ u[j] = t[j - Len(s)] /\ j - Len(s) \in 1..Len(t)
          /\ i - Len(s) # j - Len(s)
      BY <1>2, <2>5
    <3> QED
      BY <2>0, <3>1 DEF Apart
  <2> QED
    BY <2>1, <2>2, <2>3, <2>4, <2>5
<1>5. ASSUME NEW e \in Range(u)
      PROVE  /\ e.type = "transmitted" => e.copy \in S
             /\ Brings(e) => \A c \in S : c.id # e.copy.id
             /\ e.type = "free" =>
                   /\ e.copy \notin L
                   /\ \A f \in Range(u) : f.type = "transmitted" => f.copy # e.copy
  <2>1. CASE e \in Range(s)
    BY <1>1, <2>1 DEF KeptQueue
  <2>2. CASE e \in Range(t)
    BY <1>1, <2>2 DEF KeptQueue
  <2> QED
    BY <1>1, <2>1, <2>2
<1> QED
  BY <1>1, <1>4, <1>5 DEF KeptQueue, u

LEMMA KeptEmpty ==
    ASSUME NEW S, NEW L
    PROVE  KeptQueue(<<>>, S, L) /\ UrgentQueue(<<>>, S)
BY CoveredNone DEF KeptQueue, Apart, UrgentQueue

\* Events that bring nothing and are of copies that may be freed.
LEMMA KeptNotices ==
    ASSUME NEW f \in Seq(Notices), NEW S, NEW L,
           \A e \in Range(f) : e.type = "free" => e.copy \notin L
    PROVE  f \in Seq(Events) /\ KeptQueue(f, S, L) /\ Brought(Range(f)) = {}
<1>1. \A e \in Range(f) : e \in Notices
  BY ElementsOf, RangeIs
<1>2. \A e \in Range(f) : e.type \notin {"transmitted", "received", "completed"}
  BY <1>1, NoticeIs
<1>3. \A i \in 1..Len(f) : f[i] \in Range(f)
  BY ElementsOf, RangeIs
<1>4. KeptQueue(f, S, L)
  BY <1>2, <1>3 DEF KeptQueue, Apart, Clash, Brings
<1>5. Brought(Range(f)) = {}
  BY <1>2 DEF Brought, Comes
<1>6. f \in Seq(Events)
  <2>1. Notices \subseteq Events
    BY DEF Events
  <2>2. f \in [1..Len(f) -> Events] /\ Len(f) \in Nat
    BY <2>1
  <2> QED
    BY <2>2, SeqDef
<1> QED
  BY <1>4, <1>5, <1>6

LEMMA KeptOne ==
    ASSUME NEW e \in Events, NEW S, NEW L,
           /\ e.type = "transmitted" => e.copy \in S
           /\ Brings(e) => \A c \in S : c.id # e.copy.id
           /\ e.type = "free" => e.copy \notin L
    PROVE  <<e>> \in Seq(Events) /\ KeptQueue(<<e>>, S, L)
<1> DEFINE q == <<e>>
<1>1. q \in Seq(Events) /\ Len(q) = 1 /\ q[1] = e /\ Range(q) = {e}
  BY ElementsOfOne, RangeIs
<1> HIDE DEF q
<1>2. Apart(q)
  BY <1>1 DEF Apart
<1> QED
  BY <1>1, <1>2 DEF KeptQueue, q

LEMMA KeptTail ==
    ASSUME NEW q \in Seq(Events), q # <<>>, NEW S, NEW L, KeptQueue(q, S, L)
    PROVE  /\ Tail(q) \in Seq(Events) /\ KeptQueue(Tail(q), S, L)
           /\ \A e \in Range(Tail(q)) : ~Clash(Head(q), e) /\ ~Clash(e, Head(q))
<1> DEFINE t == Tail(q)
<1>1. /\ Len(t) = Len(q) - 1 /\ Len(q) \in Nat /\ Len(q) >= 1
      /\ \A i \in 1..Len(t) : t[i] = q[i + 1]
      /\ Head(q) = q[1] /\ t \in Seq(Events) /\ DOMAIN t = 1..Len(t)
  OBVIOUS
<1>2. Range(q) = {Head(q)} \cup Range(t)
  BY ElementsOfTail, RangeIs
<1> HIDE DEF t
<1>3. \A i \in 1..Len(t) : i + 1 \in 1..Len(q) /\ 1 \in 1..Len(q) /\ i + 1 # 1
  BY <1>1
<1>4. Apart(t)
  <2> SUFFICES ASSUME NEW i \in 1..Len(t), NEW j \in 1..Len(t), i # j PROVE ~Clash(t[i], t[j])
    BY DEF Apart
  <2>1. i + 1 # j + 1
    BY <1>1
  <2> QED
    BY <1>1, <1>3, <2>1 DEF KeptQueue, Apart
<1>5. \A e \in Range(t) : ~Clash(Head(q), e) /\ ~Clash(e, Head(q))
  <2> SUFFICES ASSUME NEW i \in 1..Len(t) PROVE ~Clash(q[1], t[i]) /\ ~Clash(t[i], q[1])
    BY <1>1 DEF Range
  <2> QED
    BY <1>1, <1>3 DEF KeptQueue, Apart
<1> QED
  BY <1>1, <1>2, <1>4, <1>5 DEF KeptQueue, t

\* An event that brings a copy, posted at the head.
LEMMA KeptPrepend ==
    ASSUME NEW q \in Seq(Events), NEW e \in Events, NEW S, NEW L, KeptQueue(q, S, L), Brings(e),
           \A c \in S : c.id # e.copy.id,
           \A f \in Range(q) : ~Clash(e, f) /\ ~Clash(f, e)
    PROVE  KeptQueue(<<e>> \o q, S, L)
<1>0. e.type # "free" /\ e.type # "transmitted"
  BY DEF Brings
<1>1. <<e>> \in Seq(Events) /\ KeptQueue(<<e>>, S, L)
  BY <1>0, KeptOne
<1>2. Range(<<e>>) = {e}
  BY ElementsOfOne, RangeIs
<1>3. \A d \in Range(<<e>>) : \A f \in Range(q) :
         /\ ~Clash(d, f) /\ ~Clash(f, d)
         /\ d.type = "free" /\ f.type = "transmitted" => f.copy # d.copy
         /\ d.type = "transmitted" /\ f.type = "free" => f.copy # d.copy
  BY <1>0, <1>2
<1> QED
  BY <1>1, <1>3, KeptConcat

\* One copy more, or one less, that is stored.
LEMMA KeptStored ==
    ASSUME NEW q \in Seq(Events), NEW S, NEW L, KeptQueue(q, S, L), NEW c,
           \A e \in Range(q) : /\ Brings(e) => e.copy.id # c.id
                               /\ e.type = "free" => e.copy # c
    PROVE  KeptQueue(q, S \cup {c}, L \cup {c})
BY DEF KeptQueue

LEMMA KeptFreed ==
    ASSUME NEW q \in Seq(Events), NEW S, NEW L, KeptQueue(q, S, L), NEW c,
           \A e \in Range(q) : e.type = "transmitted" => e.copy # c
    PROVE  KeptQueue(q, S \ {c}, L)
BY DEF KeptQueue

LEMMA KeptLess ==
    ASSUME NEW q \in Seq(Events), NEW S, NEW L, KeptQueue(q, S, L), NEW T, NEW M,
           T = S, M \subseteq L
    PROVE  KeptQueue(q, T, M)
BY DEF KeptQueue

-----------------------------------------------------------------------------
(* The events that replace stored copies.                                  *)

LEMMA UrgentConcat ==
    ASSUME NEW s \in Seq(Events), NEW t \in Seq(Events), NEW S, UrgentQueue(s, S),
           \A e \in Range(t) : ~Urgent(e)
    PROVE  UrgentQueue(s \o t, S)
<1> DEFINE u == s \o t
<1>1. u \in Seq(Events) /\ Range(u) = Range(s) \cup Range(t)
  BY ElementsOfConcat, RangeIs
<1>2. /\ Len(u) = Len(s) + Len(t) /\ Len(s) \in Nat /\ Len(t) \in Nat
      /\ \A i \in 1..Len(s) : u[i] = s[i]
      /\ \A i \in (Len(s) + 1)..(Len(s) + Len(t)) :
            u[i] = t[i - Len(s)] /\ i - Len(s) \in 1..Len(t)
  BY ConcatIs
<1> HIDE DEF u
<1>3. \A i \in 1..Len(t) : t[i] \in Range(t)
  BY ElementsOf, RangeIs
<1>4. ASSUME NEW i \in 1..Len(u), NEW j \in 1..Len(u), i < j, Urgent(u[j]) PROVE Urgent(u[i])
  <2>1. j \in 1..Len(s)
    <3> SUFFICES ASSUME j \notin 1..Len(s) PROVE FALSE
      OBVIOUS
    <3>1. j \in (Len(s) + 1)..(Len(s) + Len(t))
      BY <1>2
    <3>2. u[j] \in Range(t)
      BY <1>2, <1>3, <3>1
    <3> QED
      BY <1>4, <3>2
  <2>2. i \in 1..Len(s)
    BY <1>2, <1>4, <2>1
  <2> QED
    BY <1>2, <1>4, <2>1, <2>2 DEF UrgentQueue
<1>5. \A e \in Range(u) : Urgent(e) => Units(e.copy) \subseteq Covered(S)
  BY <1>1 DEF UrgentQueue
<1> QED
  BY <1>4, <1>5 DEF UrgentQueue, u

LEMMA UrgentPrepend ==
    ASSUME NEW q \in Seq(Events), NEW e \in Events, NEW S, UrgentQueue(q, S),
           Urgent(e), Units(e.copy) \subseteq Covered(S)
    PROVE  UrgentQueue(<<e>> \o q, S)
<1> DEFINE m == <<e>>
           u == m \o q
<1>0. m \in Seq(Events) /\ Len(m) = 1 /\ m[1] = e
  OBVIOUS
<1>1. u \in Seq(Events) /\ Range(u) = Range(q) \cup {e}
  BY ElementsOfPrepend, RangeIs
<1> HIDE DEF m
<1>2. /\ Len(u) = Len(m) + Len(q) /\ Len(q) \in Nat
      /\ \A i \in 1..Len(m) : u[i] = m[i]
      /\ \A i \in (Len(m) + 1)..(Len(m) + Len(q)) :
            u[i] = q[i - Len(m)] /\ i - Len(m) \in 1..Len(q)
  BY <1>0, ConcatIs
<1> HIDE DEF u
<1>3. u[1] = e /\ \A i \in 2..Len(u) : u[i] = q[i - 1] /\ i - 1 \in 1..Len(q)
  BY <1>0, <1>2
<1>4. ASSUME NEW i \in 1..Len(u), NEW j \in 1..Len(u), i < j, Urgent(u[j]) PROVE Urgent(u[i])
  <2>1. CASE i = 1
    BY <1>3, <2>1
  <2>2. CASE i # 1
    <3>1. /\ i \in 2..Len(u) /\ j \in 2..Len(u)
          /\ i - 1 < j - 1
      BY <1>0, <1>2, <1>4, <2>2
    <3> QED
      BY <1>3, <1>4, <3>1 DEF UrgentQueue
  <2> QED
    BY <2>1, <2>2
<1>5. \A f \in Range(u) : Urgent(f) => Units(f.copy) \subseteq Covered(S)
  BY <1>1 DEF UrgentQueue
<1> QED
  BY <1>4, <1>5 DEF UrgentQueue, u, m

LEMMA UrgentTail ==
    ASSUME NEW q \in Seq(Events), q # <<>>, NEW S, UrgentQueue(q, S)
    PROVE  /\ UrgentQueue(Tail(q), S)
           /\ ~Urgent(Head(q)) => \A e \in Range(Tail(q)) : ~Urgent(e)
<1> DEFINE t == Tail(q)
<1>1. /\ Len(t) = Len(q) - 1 /\ Len(q) \in Nat /\ Len(q) >= 1
      /\ \A i \in 1..Len(t) : t[i] = q[i + 1]
      /\ Head(q) = q[1] /\ t \in Seq(Events) /\ DOMAIN t = 1..Len(t)
  OBVIOUS
<1>2. Range(q) = {Head(q)} \cup Range(t)
  BY ElementsOfTail, RangeIs
<1> HIDE DEF t
<1>3. \A i \in 1..Len(t) : i + 1 \in 1..Len(q) /\ 1 \in 1..Len(q) /\ 1 < i + 1
  BY <1>1
<1>4. ASSUME NEW i \in 1..Len(t), NEW j \in 1..Len(t), i < j, Urgent(t[j]) PROVE Urgent(t[i])
  <2>1. i + 1 < j + 1
    BY <1>1, <1>4
  <2> QED
    BY <1>1, <1>3, <1>4, <2>1 DEF UrgentQueue
<1>5. ~Urgent(Head(q)) => \A e \in Range(t) : ~Urgent(e)
  <2> SUFFICES ASSUME ~Urgent(q[1]), NEW i \in 1..Len(t) PROVE ~Urgent(t[i])
    BY <1>1 DEF Range
  <2> QED
    BY <1>1, <1>3 DEF UrgentQueue
<1> QED
  BY <1>2, <1>4, <1>5 DEF UrgentQueue, t

LEMMA UrgentStores ==
    ASSUME NEW q \in Seq(Events), NEW S, NEW T, UrgentQueue(q, S),
           S \subseteq T \/ \A e \in Range(q) : ~Urgent(e)
    PROVE  UrgentQueue(q, T)
<1>1. S \subseteq T => Covered(S) \subseteq Covered(T)
  BY CoveredGrows
<1> QED
  BY <1>1 DEF UrgentQueue

LEMMA NoticesNotUrgent ==
    ASSUME NEW f \in Seq(Notices)
    PROVE  \A e \in Range(f) : ~Urgent(e)
<1>1. \A e \in Range(f) : e \in Notices
  BY ElementsOf, RangeIs
<1> QED
  BY <1>1, NoticeIs DEF Urgent

-----------------------------------------------------------------------------
(* What a handler does to the queue of its node.                           *)

LEMMA BroughtUnion ==
    ASSUME NEW R, NEW S, NEW T, R = S \cup T
    PROVE  Brought(R) = Brought(S) \cup Brought(T)
BY DEF Brought

LEMMA BroughtOne ==
    ASSUME NEW e
    PROVE  Brought({e}) = Comes(e) /\ Brought({}) = {}
BY DEF Brought

LEMMA BroughtGrows ==
    ASSUME NEW R, NEW S, R \subseteq S
    PROVE  Brought(R) \subseteq Brought(S)
BY DEF Brought

\* Freed copies: something refers to every copy that is live or transmitted.
LEMMA FreeingKeeps ==
    ASSUME NEW n \in Nodes, NEW q \in Seq(Events), NEW p \in WithFrees(n, q),
           store'[n] \in SUBSET Copies, IsFiniteSet(store'[n]),
           loading'[n] \in Seq(Loads), KeptQueue(q, store'[n], Live(n)')
    PROVE  /\ p \in Seq(Events) /\ KeptQueue(p, store'[n], Live(n)')
           /\ UrgentQueue(q, store'[n]) => UrgentQueue(p, store'[n])
           /\ Brought(Range(p)) = Brought(Range(q))
           /\ \A e \in Range(p) : e \in Range(q) \/ (e.type = "free" /\ e.copy \in store'[n])
           /\ Range(q) \subseteq Range(p)
<1> DEFINE S == store'[n]
           L == Live(n)'
<1>1. PICK f \in Seq(Notices) : p = q \o f /\ Range(f) = Frees(n, q)
  BY Freeing
<1>2. p \in Seq(Events) /\ Range(p) = Range(q) \cup Frees(n, q)
  BY Freeing
<1>3. \A e \in Range(f) : e.type = "free" /\ e.copy \in Freed(n, q)
  BY <1>1 DEF Frees, About
<1>4. \A c \in Freed(n, q) : c \in S /\ c \notin Queued(q) /\ c \notin L
  <2> SUFFICES ASSUME NEW c \in Freed(n, q) PROVE c \in S /\ c \notin Queued(q) /\ c \notin L
    OBVIOUS
  <2>1. /\ c \in S /\ c \notin pending'[n] /\ c \notin Queued(q) /\ c \notin Queued(loading'[n])
        /\ n = "dst" => c \notin handed'
    BY DEF Freed
  <2>2. \A e \in Range(loading'[n]) : e.copy \in Queued(loading'[n])
    BY DEF Queued, CopiesOf
  <2>3. c \notin Loaded(n)' /\ c \notin ToDeliver(n)'
    BY <2>1, <2>2 DEF Loaded, ToDeliver
  <2> QED
    BY <2>1, <2>3 DEF Live
<1>5. \A e \in Range(q) : e.copy \in Queued(q)
  BY DEF Queued, CopiesOf
<1> HIDE DEF S, L
<1>6. f \in Seq(Events) /\ KeptQueue(f, S, L) /\ Brought(Range(f)) = {}
  BY <1>3, <1>4, KeptNotices
<1>7. KeptQueue(q, S, L)
  BY DEF S, L
<1>8. \A e \in Range(q) : \A d \in Range(f) :
         /\ ~Clash(e, d) /\ ~Clash(d, e)
         /\ e.type = "free" /\ d.type = "transmitted" => d.copy # e.copy
         /\ e.type = "transmitted" /\ d.type = "free" => d.copy # e.copy
  <2> SUFFICES ASSUME NEW e \in Range(q), NEW d \in Range(f)
               PROVE  /\ ~Clash(e, d) /\ ~Clash(d, e)
                      /\ e.type = "free" /\ d.type = "transmitted" => d.copy # e.copy
                      /\ e.type = "transmitted" /\ d.type = "free" => d.copy # e.copy
    OBVIOUS
  <2>1. d.type = "free" /\ d.copy \in S /\ d.copy \notin Queued(q)
    BY <1>3, <1>4
  <2>2. Brings(e) => e.copy.id # d.copy.id
    BY <1>7, <2>1 DEF KeptQueue
  <2> QED
    BY <1>5, <2>1, <2>2 DEF Clash, Brings
<1>9. KeptQueue(p, S, L)
  BY <1>1, <1>6, <1>7, <1>8, KeptConcat
<1>10. UrgentQueue(q, S) => UrgentQueue(p, S)
  BY <1>1, <1>6, NoticesNotUrgent, UrgentConcat
<1>11. Brought(Range(p)) = Brought(Range(q))
  <2>1. Range(p) = Range(q) \cup Range(f)
    BY <1>1, <1>2
  <2>2. Brought(Range(p)) = Brought(Range(q)) \cup Brought(Range(f))
    BY <2>1, BroughtUnion
  <2> QED
    BY <1>6, <2>2
<1> QED
  BY <1>1, <1>2, <1>3, <1>4, <1>9, <1>10, <1>11 DEF S, L

LEMMA PostingKeeps ==
    ASSUME Types, NEW n \in Nodes, NEW q \in Seq(Events), Post(n, q),
           store'[n] \in SUBSET Copies, IsFiniteSet(store'[n]),
           loading'[n] \in Seq(Loads), KeptQueue(q, store'[n], Live(n)')
    PROVE  /\ KeptQueue(eventq'[n], store'[n], Live(n)')
           /\ UrgentQueue(q, store'[n]) => UrgentQueue(eventq'[n], store'[n])
           /\ Brought(Range(eventq'[n])) = Brought(Range(q))
           /\ \A e \in Range(eventq'[n]) : e \in Range(q) \/ e.type = "free"
           /\ \A m \in Nodes : m # n => eventq'[m] = eventq[m]
<1>1. PICK p \in WithFrees(n, q) : eventq' = [eventq EXCEPT ![n] = p]
  BY DEF Post
<1>2. eventq \in [Nodes -> Seq(Events)]
  BY DEF Types
<1>3. eventq'[n] = p /\ \A m \in Nodes : m # n => eventq'[m] = eventq[m]
  BY <1>1, <1>2
<1> QED
  BY <1>3, FreeingKeeps

\* What the next event of a node is, and what is left of its queue.
LEMMA TakingKeeps ==
    ASSUME Types, NEW n \in Nodes, NodeOK(n), NEW type, Current(n, type)
    PROVE  /\ Rest(n) \in Seq(Events) /\ KeptQueue(Rest(n), store[n], Live(n))
           /\ late \/ UrgentQueue(Rest(n), store[n])
           /\ Range(Rest(n)) \subseteq Range(eventq[n])
           /\ Brought(Range(eventq[n])) \subseteq Comes(Event(n)) \cup Brought(Range(Rest(n)))
           /\ Loaded(n) \subseteq Loaded(n)' \cup Comes(Event(n)) /\ Loaded(n)' \subseteq Loaded(n)
           /\ \/ /\ Event(n) \in Range(eventq[n]) /\ Event(n) \in Events
                 /\ \A e \in Range(Rest(n)) : ~Clash(Event(n), e)
                 /\ \/ late \/ Urgent(Event(n))
                    \/ \A e \in Range(Rest(n)) : ~Urgent(e)
              \/ /\ Event(n) \in Loads /\ Rest(n) = eventq[n] /\ type = "received"
                 /\ Event(n).copy \in Live(n) /\ Comes(Event(n)) = {Event(n).copy}
<1> DEFINE q == eventq[n]
           e == Event(n)
<1>1. /\ e \in Events \cup Loads /\ e.type = type
      /\ Rest(n) \in Seq(Events) /\ loading' \in [Nodes -> Seq(Loads)]
      /\ \/ /\ loading[n] = <<>> /\ loading' = loading /\ e \in Events
            /\ q # <<>> /\ e = Head(q) /\ Rest(n) = Tail(q)
            /\ Range(q) = {e} \cup Range(Rest(n))
         \/ /\ Rest(n) = q /\ e \in Loads
            /\ Range(loading[n]) = {e} \cup Range(loading'[n])
  BY Taking
<1>2. q \in Seq(Events) /\ KeptQueue(q, store[n], Live(n)) /\ (late \/ UrgentQueue(q, store[n]))
  BY DEF Types, NodeOK
<1> HIDE DEF q, e
<1>3. CASE /\ loading[n] = <<>> /\ loading' = loading /\ e \in Events
           /\ q # <<>> /\ e = Head(q) /\ Rest(n) = Tail(q)
           /\ Range(q) = {e} \cup Range(Rest(n))
  <2>1. KeptQueue(Rest(n), store[n], Live(n)) /\ \A f \in Range(Rest(n)) : ~Clash(e, f)
    BY <1>2, <1>3, KeptTail
  <2>2. /\ late \/ UrgentQueue(Rest(n), store[n])
        /\ \/ late \/ Urgent(e)
           \/ \A f \in Range(Rest(n)) : ~Urgent(f)
    BY <1>2, <1>3, UrgentTail
  <2>3. Brought(Range(q)) \subseteq Comes(e) \cup Brought(Range(Rest(n)))
    <3>1. Brought(Range(q)) = Brought({e}) \cup Brought(Range(Rest(n)))
      BY <1>3, BroughtUnion
    <3> QED
      BY <3>1, BroughtOne
  <2>4. Loaded(n)' = Loaded(n)
    BY <1>3 DEF Loaded
  <2>5. e \in Range(q) /\ Range(Rest(n)) \subseteq Range(q)
    BY <1>3
  <2> QED
    BY <1>1, <1>3, <2>1, <2>2, <2>3, <2>4, <2>5 DEF q, e
<1>4. CASE Rest(n) = q /\ e \in Loads /\ Range(loading[n]) = {e} \cup Range(loading'[n])
  <2>1. e.type = "received" /\ e.source = "store"
    BY <1>4, LoadIs
  <2>2. Comes(e) = {e.copy}
    BY <2>1 DEF Comes
  <2>3. Loaded(n) \subseteq Loaded(n)' \cup {e.copy} /\ Loaded(n)' \subseteq Loaded(n)
        /\ e.copy \in Loaded(n)
    BY <1>4 DEF Loaded
  <2>4. e.copy \in Live(n)
    BY <2>3 DEF Live
  <2> QED
    BY <1>1, <1>2, <1>4, <2>1, <2>2, <2>3, <2>4 DEF q, e
<1> QED
  BY <1>1, <1>3, <1>4

-----------------------------------------------------------------------------
(* Steps and the invariant of the units.                                   *)

LEMMA HasIs ==
    ASSUME NEW n
    PROVE  Has(n) = Covered(Live(n)) \cup Covered(Brought(Range(eventq[n])))
BY CoveredUnion DEF Has

LEMMA LiveIs ==
    ASSUME NEW n
    PROVE  Covered(Live(n)) = Covered(pending[n]) \cup Covered(Loaded(n)) \cup Covered(ToDeliver(n))
<1>1. Live(n) = (pending[n] \cup Loaded(n)) \cup ToDeliver(n)
  BY DEF Live
<1>2. Covered((pending[n] \cup Loaded(n)) \cup ToDeliver(n))
        = Covered(pending[n] \cup Loaded(n)) \cup Covered(ToDeliver(n))
  BY CoveredUnion
<1>3. Covered(pending[n] \cup Loaded(n)) = Covered(pending[n]) \cup Covered(Loaded(n))
  BY CoveredUnion
<1> QED
  BY <1>1, <1>2, <1>3

\* A node that takes no part in a step.
LEMMA NodeStays ==
    ASSUME NEW m \in Nodes, NodeOK(m), late => late',
           pending'[m] = pending[m], store'[m] = store[m], loading'[m] = loading[m],
           eventq'[m] = eventq[m], m = "dst" => handed' = handed
    PROVE  NodeOK(m)' /\ Has(m)' = Has(m)
<1>1. Loaded(m)' = Loaded(m) /\ ToDeliver(m)' = ToDeliver(m)
  BY DEF Loaded, ToDeliver
<1>2. Live(m)' = Live(m)
  BY <1>1 DEF Live
<1>3. Has(m)' = Has(m)
  BY <1>2 DEF Has
<1> QED
  BY <1>2, <1>3 DEF NodeOK

\* What the node of a handler has: the event that it took, the copies that
\* were there, those still to load, and what its queue brings.
LEMMA HandlerMoves ==
    ASSUME Types, NEW n \in Nodes, NodeOK(n), NEW type, Current(n, type),
           Brought(Range(Rest(n))) \subseteq Brought(Range(eventq'[n])),
           Covered(Comes(Event(n))) \subseteq lost' \cup Has(n)' \cup Has("dst")',
           Covered(pending[n]) \subseteq lost' \cup Has(n)' \cup Has("dst")',
           Covered(ToDeliver(n)) \subseteq Has(n)'
    PROVE  Moved(n)
<1>1. /\ Brought(Range(eventq[n])) \subseteq Comes(Event(n)) \cup Brought(Range(Rest(n)))
      /\ Loaded(n) \subseteq Loaded(n)' \cup Comes(Event(n))
  BY TakingKeeps
<1>2. PICK C : C = Comes(Event(n))
  OBVIOUS
<1>3. PICK L : L = Loaded(n)'
  OBVIOUS
<1>4. PICK B : B = Brought(Range(Rest(n)))
  OBVIOUS
<1>5. Covered(Brought(Range(eventq[n]))) \subseteq Covered(C) \cup Covered(B)
  <2>1. Covered(Brought(Range(eventq[n]))) \subseteq Covered(C \cup B)
    BY <1>1, <1>2, <1>4, CoveredGrows
  <2> QED
    BY <2>1, CoveredUnion
<1>6. Covered(Loaded(n)) \subseteq Covered(L) \cup Covered(C)
  <2>1. Covered(Loaded(n)) \subseteq Covered(L \cup C)
    BY <1>1, <1>2, <1>3, CoveredGrows
  <2> QED
    BY <2>1, CoveredUnion
<1>7. Covered(L) \subseteq Has(n)'
  <2>1. L \subseteq Live(n)' \cup Brought(Range(eventq'[n]))
    BY <1>3 DEF Live
  <2>2. Covered(L) \subseteq Covered(Live(n)' \cup Brought(Range(eventq'[n])))
    BY <2>1, CoveredGrows
  <2> QED
    BY <2>2 DEF Has
<1>8. Covered(B) \subseteq Has(n)'
  <2>1. B \subseteq Live(n)' \cup Brought(Range(eventq'[n]))
    BY <1>4
  <2>2. Covered(B) \subseteq Covered(Live(n)' \cup Brought(Range(eventq'[n])))
    BY <2>1, CoveredGrows
  <2> QED
    BY <2>2 DEF Has
<1>9. Has(n) = Covered(Live(n)) \cup Covered(Brought(Range(eventq[n])))
  BY HasIs
<1>10. Covered(Live(n)) = Covered(pending[n]) \cup Covered(Loaded(n)) \cup Covered(ToDeliver(n))
  BY LiveIs
<1>11. Has(n) \subseteq lost' \cup Has(n)' \cup Has("dst")'
  BY <1>2, <1>5, <1>6, <1>7, <1>8, <1>9, <1>10
<1> QED
  BY <1>11 DEF Moved

\* Copies that a node still refers to after a step.
LEMMA StillHas ==
    ASSUME NEW n, NEW C, C \subseteq pending'[n] \/ C \subseteq ToDeliver(n)'
    PROVE  Covered(C) \subseteq Has(n)'
<1>1. C \subseteq Live(n)' \cup Brought(Range(eventq'[n]))
  BY DEF Live
<1>2. Covered(C) \subseteq Covered(Live(n)' \cup Brought(Range(eventq'[n])))
  BY <1>1, CoveredGrows
<1> QED
  BY <1>2 DEF Has

\* A copy that its queue brings.
LEMMA WillHave ==
    ASSUME NEW n, NEW c \in Brought(Range(eventq'[n]))
    PROVE  Units(c) \subseteq Has(n)'
<1>1. Units(c) \subseteq Covered(Live(n)' \cup Brought(Range(eventq'[n])))
  BY DEF Covered
<1> QED
  BY <1>1 DEF Has

\* The invariant after a step.
LEMMA StepKeeps ==
    ASSUME KeepInv, late => late', got > 0 => got' > 0, lost \subseteq lost',
           \A n \in Nodes : NodeOK(n)', \A n \in Nodes : Moved(n), Kinds',
           \A e \in Range(eventq'["src"]) : e.type = "transmitted" =>
              e \in Range(eventq["src"]) \/ Acked(e.copy, e.acked) \subseteq lost' \cup Has("dst")'
    PROVE  KeepInv'
<1>1. Kinds /\ Reported /\ Everywhere
  BY DEF KeepInv
<1>2. Done => Done'
  BY DEF Done
<1>3. Done' \/ Has("dst") \subseteq lost' \cup Has("dst")'
  BY DEF Moved, Nodes
<1>4. Done' \/ Has("src") \subseteq lost' \cup Has("src")' \cup Has("dst")'
  BY DEF Moved, Nodes
<1>5. Everywhere'
  <2> SUFFICES ASSUME ~Done' PROVE AllUnits \subseteq lost' \cup Has("src")' \cup Has("dst")'
    BY DEF Everywhere
  <2>1. AllUnits \subseteq lost \cup Has("src") \cup Has("dst")
    BY <1>1, <1>2 DEF Everywhere
  <2> QED
    BY <1>3, <1>4, <2>1
<1>6. Reported'
  <2> SUFFICES ASSUME ~Done', NEW e \in Range(eventq'["src"]), e.type = "transmitted"
               PROVE  Acked(e.copy, e.acked) \subseteq lost' \cup Has("dst")'
    BY DEF Reported
  <2>1. CASE e \in Range(eventq["src"])
    <3>1. Acked(e.copy, e.acked) \subseteq lost \cup Has("dst")
      BY <1>1, <1>2, <2>1 DEF Reported
    <3> QED
      BY <1>3, <3>1
  <2> QED
    BY <2>1
<1> QED
  BY <1>5, <1>6 DEF KeepInv

\* A handler of the daemon of node n.
LEMMA HandlerKeeps ==
    ASSUME KeepInv, NEW n \in Nodes, NodeOK(n)', Moved(n),
           \A m \in Nodes : m # n => /\ pending'[m] = pending[m] /\ store'[m] = store[m]
                                     /\ loading'[m] = loading[m] /\ eventq'[m] = eventq[m],
           n # "dst" => handed' = handed,
           late => late', got' = got, lost \subseteq lost', handed \subseteq handed',
           cache' => cache \/ handed' # {}, \A c \in handed' : c \in handed \/ c.whole,
           \A e \in Range(eventq'[n]) : \/ e \in Range(eventq[n])
                                        \/ Proper(n, e)' /\ e.type # "transmitted"
    PROVE  KeepInv'
<1>1. (\A m \in Nodes : NodeOK(m)) /\ Kinds
  BY DEF KeepInv
<1>2. \A m \in Nodes : m # n => NodeOK(m)' /\ Has(m)' = Has(m)
  <2> SUFFICES ASSUME NEW m \in Nodes, m # n PROVE NodeOK(m)' /\ Has(m)' = Has(m)
    OBVIOUS
  <2>1. NodeOK(m) /\ (m = "dst" => handed' = handed)
    BY <1>1 DEF Nodes
  <2> QED
    BY <2>1, NodeStays
<1>3. \A m \in Nodes : NodeOK(m)'
  BY <1>2
<1>4. \A m \in Nodes : Moved(m)
  <2> SUFFICES ASSUME NEW m \in Nodes, m # n PROVE Moved(m)
    OBVIOUS
  <2> QED
    BY <1>2 DEF Moved
<1>5. Done => Done'
  BY DEF Done
<1>6. ASSUME NEW m \in Nodes, NEW e, Proper(m, e) PROVE Proper(m, e)'
  BY <1>5, <1>6 DEF Proper
<1>7. Kinds'
  <2>1. ASSUME NEW m \in Nodes, NEW e \in Range(eventq'[m]) PROVE Proper(m, e)'
    BY <1>1, <1>6, <2>1 DEF Kinds
  <2>2. (cache => Done \/ handed # {}) /\ \A c \in handed : c.whole
    BY <1>1 DEF Kinds
  <2>3. (cache' => Done' \/ handed' # {}) /\ \A c \in handed' : c.whole
    BY <1>5, <2>2
  <2> QED
    BY <2>1, <2>3, Zenon DEF Kinds
<1>8. \A e \in Range(eventq'["src"]) : e.type = "transmitted" =>
         e \in Range(eventq["src"]) \/ Acked(e.copy, e.acked) \subseteq lost' \cup Has("dst")'
  BY DEF Nodes
<1> QED
  BY <1>3, <1>4, <1>7, <1>8, StepKeeps

\* Copies that replaced nothing, and ends of references, need no reason.
LEMMA Harmless ==
    ASSUME NEW n, NEW e, e.type \in {"free", "received", "delivered"}
    PROVE  Proper(n, e)' /\ e.type # "transmitted"
BY DEF Proper

\* The node of a handler that posts the queue q.
LEMMA PostedOK ==
    ASSUME Types, Types', NEW n \in Nodes, NEW q \in Seq(Events), Post(n, q),
           Live(n)' \subseteq store'[n], KeptQueue(q, store'[n], Live(n)'),
           late' \/ UrgentQueue(q, store'[n]), Range(Rest(n)) \subseteq Range(q)
    PROVE  /\ NodeOK(n)' /\ Brought(Range(Rest(n))) \subseteq Brought(Range(eventq'[n]))
           /\ Brought(Range(q)) = Brought(Range(eventq'[n]))
           /\ \A e \in Range(eventq'[n]) : e \in Range(q) \/ (Proper(n, e)' /\ e.type # "transmitted")
           /\ \A m \in Nodes : m # n => eventq'[m] = eventq[m]
<1>1. store'[n] \in SUBSET Copies /\ IsFiniteSet(store'[n]) /\ loading'[n] \in Seq(Loads)
  BY DEF Types
<1>2. /\ KeptQueue(eventq'[n], store'[n], Live(n)')
      /\ UrgentQueue(q, store'[n]) => UrgentQueue(eventq'[n], store'[n])
      /\ Brought(Range(eventq'[n])) = Brought(Range(q))
      /\ \A e \in Range(eventq'[n]) : e \in Range(q) \/ e.type = "free"
      /\ \A m \in Nodes : m # n => eventq'[m] = eventq[m]
  BY <1>1, PostingKeeps
<1>3. NodeOK(n)'
  BY <1>2 DEF NodeOK
<1>4. Brought(Range(Rest(n))) \subseteq Brought(Range(q))
  BY BroughtGrows
<1> QED
  BY <1>2, <1>3, <1>4, Harmless

LEMMA IgnoreKeeps ==
    ASSUME Types, KeepInv, Types', NEW n \in Nodes, NEW type, Current(n, type), Ignore(n),
           UNCHANGED <<bounds, lost>>, Covered(Comes(Event(n))) \subseteq Covered(pending[n])
    PROVE  KeepInv'
<1>1. /\ UNCHANGED <<pending, store, armed, reassembly, delivery>>
      /\ Post(n, Rest(n))
  BY DEF Ignore
<1>2. pending' = pending /\ store' = store /\ handed' = handed /\ cache' = cache /\ got' = got
      /\ late' = late /\ lost' = lost
  BY <1>1 DEF delivery, bounds
<1>3. NodeOK(n)
  BY DEF KeepInv
<1>4. /\ Rest(n) \in Seq(Events) /\ KeptQueue(Rest(n), store[n], Live(n))
      /\ late \/ UrgentQueue(Rest(n), store[n])
      /\ Range(Rest(n)) \subseteq Range(eventq[n]) /\ Loaded(n)' \subseteq Loaded(n)
  BY <1>3, TakingKeeps
<1>5. Live(n)' \subseteq Live(n)
  BY <1>2, <1>4 DEF Live, ToDeliver
<1>6. Live(n)' \subseteq store'[n] /\ KeptQueue(Rest(n), store'[n], Live(n)')
  BY <1>2, <1>3, <1>4, <1>5, KeptLess DEF NodeOK
<1>7. /\ NodeOK(n)' /\ Brought(Range(Rest(n))) \subseteq Brought(Range(eventq'[n]))
      /\ \A e \in Range(eventq'[n]) : e \in Range(Rest(n)) \/ (Proper(n, e)' /\ e.type # "transmitted")
      /\ \A m \in Nodes : m # n => eventq'[m] = eventq[m]
  BY <1>1, <1>2, <1>4, <1>6, PostedOK
<1>8. Covered(pending[n]) \subseteq Has(n)'
  BY <1>2, StillHas
<1>9. Covered(ToDeliver(n)) \subseteq Has(n)'
  <2>1. ToDeliver(n)' = ToDeliver(n)
    BY <1>2 DEF ToDeliver
  <2> QED
    BY <2>1, StillHas
<1>10. Moved(n)
  BY <1>3, <1>7, <1>8, <1>9, HandlerMoves
<1>11. \A m \in Nodes : m # n => loading'[m] = loading[m]
  BY Taking
<1> QED
  BY <1>2, <1>4, <1>7, <1>10, <1>11, HandlerKeeps

-----------------------------------------------------------------------------
(* A copy that comes.                                                      *)

LEMMA ComingKeeps ==
    ASSUME Types, NEW n \in Nodes, NodeOK(n), Current(n, "received"),
           NEW c \in Copies, Comes(Event(n)) = {c}, c.id = Event(n).copy.id
    PROVE  KeptQueue(Rest(n), store[n] \cup {c}, Live(n) \cup {c})
<1>1. /\ Rest(n) \in Seq(Events) /\ KeptQueue(Rest(n), store[n], Live(n))
      /\ \/ \A e \in Range(Rest(n)) : ~Clash(Event(n), e)
         \/ Event(n).copy \in Live(n) /\ Comes(Event(n)) = {Event(n).copy}
  BY TakingKeeps
<1>2. Event(n).type = "received"
  BY DEF Current
<1>3. CASE \A e \in Range(Rest(n)) : ~Clash(Event(n), e)
  <2>1. \A e \in Range(Rest(n)) : /\ Brings(e) => e.copy.id # c.id
                                  /\ e.type = "free" => e.copy # c
    BY <1>2, <1>3 DEF Clash, Brings
  <2> QED
    BY <1>1, <2>1, KeptStored
<1>4. CASE Event(n).copy \in Live(n) /\ Comes(Event(n)) = {Event(n).copy}
  <2>1. c \in Live(n)
    BY <1>4
  <2>2. Live(n) \cup {c} = Live(n) /\ store[n] \cup {c} = store[n]
    BY <2>1 DEF NodeOK
  <2> QED
    BY <1>1, <2>2
<1> QED
  BY <1>1, <1>3, <1>4

\* The copy c was stored, and is pending or on its way to the application.
LEMMA StoredKeeps ==
    ASSUME Types, Types', KeepInv, NEW n \in Nodes, Current(n, "received"),
           NEW c \in Copies, Comes(Event(n)) = {c}, c.id = Event(n).copy.id,
           UNCHANGED <<bounds, lost, got>>,
           store'[n] = store[n] \cup {c},
           \/ pending'[n] = pending[n] \cup {c} /\ UNCHANGED <<handed, cache>>
           \/ /\ n = "dst" /\ c.whole /\ pending'[n] = pending[n] /\ cache' = TRUE
              /\ handed' = handed \cup {c},
           \A m \in Nodes : m # n => pending'[m] = pending[m] /\ store'[m] = store[m],
           NEW q \in Seq(Events), Post(n, q), Range(Rest(n)) \subseteq Range(q),
           KeptQueue(Rest(n), store'[n], Live(n)') => KeptQueue(q, store'[n], Live(n)'),
           UrgentQueue(Rest(n), store'[n]) => UrgentQueue(q, store'[n]),
           \A e \in Range(q) : e \in Range(Rest(n)) \/ (Proper(n, e)' /\ e.type # "transmitted")
    PROVE  KeepInv'
<1>1. NodeOK(n) /\ (cache => Done \/ handed # {})
  BY DEF KeepInv, Kinds
<1>2. /\ Rest(n) \in Seq(Events)
      /\ late \/ UrgentQueue(Rest(n), store[n])
      /\ Range(Rest(n)) \subseteq Range(eventq[n]) /\ Loaded(n)' \subseteq Loaded(n)
  BY <1>1, TakingKeeps
<1>3. late' = late /\ lost' = lost /\ got' = got
  BY DEF bounds
<1>4. /\ Live(n)' \subseteq Live(n) \cup {c}
      /\ pending[n] \subseteq pending'[n] /\ ToDeliver(n) \subseteq ToDeliver(n)'
      /\ c \in pending'[n] \/ c \in ToDeliver(n)'
      /\ handed \subseteq handed' /\ (n # "dst" => handed' = handed)
      /\ cache' => cache \/ handed' # {}
      /\ \A d \in handed' : d \in handed \/ d.whole
  BY <1>2 DEF Live, ToDeliver
<1>5. KeptQueue(Rest(n), store'[n], Live(n)')
  <2>1. KeptQueue(Rest(n), store'[n], Live(n) \cup {c})
    BY <1>1, ComingKeeps
  <2> QED
    BY <1>2, <1>4, <2>1, KeptLess
<1>6. late' \/ UrgentQueue(Rest(n), store'[n])
  BY <1>2, <1>3, UrgentStores
<1>7. Live(n)' \subseteq store'[n]
  BY <1>1, <1>4 DEF NodeOK
<1>8. /\ NodeOK(n)' /\ Brought(Range(Rest(n))) \subseteq Brought(Range(eventq'[n]))
      /\ \A e \in Range(eventq'[n]) : e \in Range(q) \/ (Proper(n, e)' /\ e.type # "transmitted")
      /\ \A m \in Nodes : m # n => eventq'[m] = eventq[m]
  BY <1>5, <1>6, <1>7, PostedOK
<1>9. Covered({c}) \subseteq Has(n)'
  <2>1. {c} \subseteq pending'[n] \/ {c} \subseteq ToDeliver(n)'
    BY <1>4
  <2> QED
    BY <2>1, StillHas
<1>10. Covered(pending[n]) \subseteq Has(n)' /\ Covered(ToDeliver(n)) \subseteq Has(n)'
  BY <1>4, StillHas
<1>11. Moved(n)
  BY <1>1, <1>8, <1>9, <1>10, HandlerMoves
<1>12. \A m \in Nodes : m # n => loading'[m] = loading[m]
  BY Taking
<1>13. \A e \in Range(eventq'[n]) : e \in Range(eventq[n]) \/ (Proper(n, e)' /\ e.type # "transmitted")
  BY <1>2, <1>8
<1> QED
  BY <1>3, <1>4, <1>8, <1>11, <1>12, <1>13, HandlerKeeps

LEMMA IgnoredKeeps ==
    ASSUME FragInv, KeepInv, FragInv', NEW n \in Nodes, Current(n, "received"), Ignore(n),
           UNCHANGED <<bounds, lost>>,
           \/ Comes(Event(n)) = {}
           \/ \E c \in Copies : Comes(Event(n)) = {c} /\ Duplicate(n, c)
    PROVE  KeepInv'
<1>1. Types /\ Types'
  BY DEF FragInv
<1>2. Covered(Comes(Event(n))) \subseteq Covered(pending[n])
  <2>1. CASE Comes(Event(n)) = {}
    BY <2>1, CoveredNone
  <2>2. ASSUME NEW c \in Copies, Comes(Event(n)) = {c}, Duplicate(n, c)
        PROVE  Covered(Comes(Event(n))) \subseteq Covered(pending[n])
    <3>1. PICK d \in pending[n] : d.off = c.off /\ d.len = c.len
      BY <2>2 DEF Duplicate
    <3>2. Units(d) = Units(c)
      BY <3>1 DEF Units
    <3>3. Units(d) \subseteq Covered(pending[n])
      BY <3>1 DEF Covered
    <3> QED
      BY <2>2, <3>2, <3>3, CoveredOne
  <2> QED
    BY <2>1, <2>2
<1> QED
  BY <1>1, <1>2, IgnoreKeeps

LEMMA AcceptedKeeps ==
    ASSUME FragInv, KeepInv, FragInv', NEW n \in Nodes, Current(n, "received"),
           UNCHANGED <<bounds, lost>>,
           NEW c \in Copies, Comes(Event(n)) = {c}, c.id = Event(n).copy.id, Accept(n, c)
    PROVE  KeepInv'
<1>1. Types /\ Types'
  BY DEF FragInv
<1>2. AddToPending(n, c) /\ UNCHANGED <<reassembly, delivery>> /\ Post(n, Rest(n))
  BY DEF Accept
<1>3. /\ pending'[n] = pending[n] \cup {c} /\ store'[n] = store[n] \cup {c}
      /\ \A m \in Nodes : m # n => pending'[m] = pending[m] /\ store'[m] = store[m]
  BY <1>1, <1>2, Adding
<1>4. UNCHANGED <<handed, cache, got>>
  BY <1>2 DEF delivery
<1>5. Rest(n) \in Seq(Events)
  BY <1>1, Taking
<1> QED
  BY <1>1, <1>2, <1>3, <1>4, <1>5, StoredKeeps

LEMMA DeliveredKeeps ==
    ASSUME FragInv, KeepInv, FragInv', Current("dst", "received"),
           UNCHANGED <<bounds, lost>>,
           NEW c \in Copies, Comes(Event("dst")) = {c}, c.id = Event("dst").copy.id,
           DeliverWhole("dst", c), c.whole
    PROVE  KeepInv'
<1> DEFINE n == "dst"
<1>1. Types /\ Types' /\ n \in Nodes /\ (cache => Done \/ handed # {})
  BY DEF FragInv, Nodes, KeepInv, Kinds
<1>2. PICK r \in Seq(Notices) :
         /\ Range(r) = {About("delete", d) : d \in Range(fragments)}
         /\ r \in Seq(Events) /\ Post(n, Rest(n) \o r)
  BY Delivering
<1>3. /\ store' = [store EXCEPT ![n] = @ \cup {c}]
      /\ \/ pending' = [pending EXCEPT ![n] = @ \cup {c}] /\ UNCHANGED <<handed, cache>> /\ cache
         \/ handed' = handed \cup {c} /\ cache' = TRUE /\ UNCHANGED pending
      /\ UNCHANGED got
  BY DEF DeliverWhole, Suppressed
<1>4. store \in [Nodes -> SUBSET Copies] /\ pending \in [Nodes -> SUBSET Copies]
  BY <1>1 DEF Types
<1>5. /\ store'[n] = store[n] \cup {c}
      /\ \/ pending'[n] = pending[n] \cup {c} /\ UNCHANGED <<handed, cache>>
         \/ /\ c.whole /\ pending'[n] = pending[n] /\ cache' = TRUE
            /\ handed' = handed \cup {c}
      /\ \A m \in Nodes : m # n => pending'[m] = pending[m] /\ store'[m] = store[m]
  BY <1>1, <1>3, <1>4
<1>6. Done' \/ handed' # {}
  BY <1>1, <1>3 DEF Done, bounds
<1>7. \A e \in Range(r) : e.type = "delete"
  BY <1>2 DEF About
<1>8. Rest(n) \in Seq(Events)
  BY <1>1, Taking
<1>9. /\ Rest(n) \o r \in Seq(Events)
      /\ Range(Rest(n) \o r) = Range(Rest(n)) \cup Range(r)
  BY <1>2, <1>8, ElementsOfConcat, RangeIs
<1>10. ASSUME KeptQueue(Rest(n), store'[n], Live(n)')
       PROVE  KeptQueue(Rest(n) \o r, store'[n], Live(n)')
  <2>1. r \in Seq(Events) /\ KeptQueue(r, store'[n], Live(n)')
    BY <1>2, <1>7, KeptNotices
  <2>2. \A e \in Range(Rest(n)) : \A f \in Range(r) :
           /\ ~Clash(e, f) /\ ~Clash(f, e)
           /\ e.type = "free" /\ f.type = "transmitted" => f.copy # e.copy
           /\ e.type = "transmitted" /\ f.type = "free" => f.copy # e.copy
    BY <1>7 DEF Clash, Brings
  <2> QED
    BY <1>8, <1>10, <2>1, <2>2, KeptConcat
<1>11. UrgentQueue(Rest(n), store'[n]) => UrgentQueue(Rest(n) \o r, store'[n])
  BY <1>2, <1>8, NoticesNotUrgent, UrgentConcat
<1>12. \A e \in Range(r) : Proper(n, e)' /\ e.type # "transmitted"
  BY <1>6, <1>7 DEF Proper
<1>13. \A e \in Range(Rest(n) \o r) :
          e \in Range(Rest(n)) \/ (Proper(n, e)' /\ e.type # "transmitted")
  BY <1>9, <1>12
<1>14. Range(Rest(n)) \subseteq Range(Rest(n) \o r)
  BY <1>9
<1>15. UNCHANGED <<bounds, lost, got>>
  BY <1>3
<1> HIDE DEF n
<1>16. Current(n, "received") /\ Comes(Event(n)) = {c} /\ c.id = Event(n).copy.id /\ n = "dst"
  BY DEF n
<1>17. KeptQueue(Rest(n), store'[n], Live(n)') => KeptQueue(Rest(n) \o r, store'[n], Live(n)')
  BY <1>10
<1>18. \/ pending'[n] = pending[n] \cup {c} /\ UNCHANGED <<handed, cache>>
       \/ /\ n = "dst" /\ c.whole /\ pending'[n] = pending[n] /\ cache' = TRUE
          /\ handed' = handed \cup {c}
  BY <1>5, <1>16
<1> QED
  BY <1>1, <1>2, <1>5, <1>9, <1>11, <1>13, <1>14, <1>15, <1>16, <1>17, <1>18, StoredKeeps

LEMMA ReassembledKeeps ==
    ASSUME FragInv, KeepInv, FragInv', Current("dst", "received"),
           UNCHANGED <<bounds, lost>>,
           NEW c \in Copies, Comes(Event("dst")) = {c}, c.id = Event("dst").copy.id,
           Reassemble("dst", c), ~c.whole
    PROVE  KeepInv'
<1> DEFINE n == "dst"
           S == store'[n]
           L == Live(n)'
<1>1. Types /\ Types' /\ n \in Nodes /\ NodeOK(n) /\ Listed
  BY DEF FragInv, Nodes, KeepInv
<1>2. \/ Post(n, Rest(n))
      \/ \E e \in Completions :
            /\ e.copy.id = FreshId(n) /\ Range(e.list) = Range(fragments) \cup {c}
            /\ Post(n, <<e>> \o Rest(n))
  BY Reassembling
<1>3. AddToPending(n, c) /\ UNCHANGED delivery
  BY DEF Reassemble
<1>4. /\ pending'[n] = pending[n] \cup {c} /\ store'[n] = store[n] \cup {c}
      /\ \A m \in Nodes : m # n => pending'[m] = pending[m] /\ store'[m] = store[m]
  BY <1>1, <1>3, Adding
<1>5. UNCHANGED <<bounds, lost, got>> /\ UNCHANGED <<handed, cache>>
  BY <1>3 DEF delivery
<1>6. Rest(n) \in Seq(Events) /\ Range(Rest(n)) \subseteq Range(eventq[n])
      /\ (Event(n) \in Range(eventq[n]) \/ Event(n).copy \in Live(n))
  BY <1>1, TakingKeeps
<1>7. CASE Post(n, Rest(n))
  <2> HIDE DEF n
  <2>1. Current(n, "received") /\ Comes(Event(n)) = {c} /\ c.id = Event(n).copy.id
    BY DEF n
  <2> QED
    BY <1>1, <1>4, <1>5, <1>6, <1>7, <2>1, StoredKeeps
<1>8. ASSUME NEW e \in Completions, e.copy.id = FreshId(n),
             Range(e.list) = Range(fragments) \cup {c}, Post(n, <<e>> \o Rest(n))
      PROVE  KeepInv'
  <2>1. /\ e \in Events /\ e.type = "completed" /\ e.copy.whole /\ e.copy \in Copies
        /\ Covered(Range(e.list)) = AllUnits
    BY <1>8, CompletionIs
  <2>2. \A d \in Known(n) : d.id # e.copy.id
    BY <1>1, <1>8, FreshIs
  <2>3. \A f \in Range(eventq[n]) : f.copy \in Known(n)
    BY DEF Known, Queued, CopiesOf
  <2>4. Event(n).copy \in Known(n)
    <3>1. CASE Event(n) \in Range(eventq[n])
      BY <2>3, <3>1
    <3>2. CASE Event(n).copy \in Live(n)
      BY <1>1, <3>2 DEF Known, NodeOK
    <3> QED
      BY <1>6, <3>1, <3>2
  <2>5. \A d \in store'[n] : d.id # e.copy.id
    BY <1>4, <2>2, <2>4 DEF Known
  <2>6. \A f \in Range(Rest(n)) : f.copy.id # e.copy.id
    BY <1>6, <2>2, <2>3
  <2>7. Range(<<e>> \o Rest(n)) = Range(Rest(n)) \cup {e} /\ <<e>> \o Rest(n) \in Seq(Events)
    BY <1>6, <2>1, ElementsOfPrepend, RangeIs
  <2>8. ASSUME KeptQueue(Rest(n), S, L) PROVE KeptQueue(<<e>> \o Rest(n), S, L)
    <3> HIDE DEF S, L
    <3>1. \A f \in Range(Rest(n)) : ~Clash(e, f) /\ ~Clash(f, e)
      BY <2>6 DEF Clash
    <3>2. Brings(e) /\ \A d \in S : d.id # e.copy.id
      BY <2>1, <2>5 DEF Brings, S
    <3> QED
      BY <1>6, <2>1, <2>8, <3>1, <3>2, KeptPrepend
  <2>9. Urgent(e) /\ Units(e.copy) \subseteq Covered(S)
    <3>1. Range(e.list) \subseteq S
      BY <1>1, <1>4, <1>8 DEF Listed, Partial, NodeOK, Live
    <3>2. AllUnits \subseteq Covered(S)
      BY <2>1, <3>1, CoveredGrows
    <3> QED
      BY <2>1, <3>2, UnitsAre DEF Urgent
  <2>10. UrgentQueue(Rest(n), S) => UrgentQueue(<<e>> \o Rest(n), S)
    <3> HIDE DEF S
    <3> QED
      BY <1>6, <2>1, <2>9, UrgentPrepend
  <2>11. Proper(n, e)' /\ e.type # "transmitted"
    BY <2>1 DEF Proper
  <2>12. \A f \in Range(<<e>> \o Rest(n)) :
            f \in Range(Rest(n)) \/ (Proper(n, f)' /\ f.type # "transmitted")
    BY <2>7, <2>11
  <2>13. Range(Rest(n)) \subseteq Range(<<e>> \o Rest(n))
    BY <2>7
  <2>14. KeptQueue(Rest(n), store'[n], Live(n)') => KeptQueue(<<e>> \o Rest(n), store'[n], Live(n)')
    BY <2>8
  <2> HIDE DEF n
  <2>15. Current(n, "received") /\ Comes(Event(n)) = {c} /\ c.id = Event(n).copy.id
    BY DEF n
  <2> QED
    BY <1>1, <1>4, <1>5, <1>8, <2>7, <2>10, <2>12, <2>13, <2>14, <2>15, StoredKeeps
<1> QED
  BY <1>2, <1>7, <1>8

LEMMA ReceivedKeeps ==
    ASSUME FragInv, KeepInv, FragInv', NEW n \in Nodes, HandleReceived(n)
    PROVE  KeepInv'
<1>1. Types
  BY DEF FragInv
<1>2. /\ Current(n, "received") /\ UNCHANGED <<bounds, lost>>
      /\ \/ /\ Ignore(n)
            /\ \/ Comes(Event(n)) = {}
               \/ \E c \in Copies : Comes(Event(n)) = {c} /\ Duplicate(n, c)
         \/ \E c \in Copies :
               /\ Comes(Event(n)) = {c} /\ c.id = Event(n).copy.id
               /\ \/ Accept(n, c) /\ (late \/ n = "src")
                  \/ DeliverWhole(n, c) /\ c.whole /\ n = "dst" /\ ~late
                  \/ Reassemble(n, c) /\ ~c.whole /\ n = "dst" /\ ~late
  BY <1>1, ReceivedCases
<1> QED
  BY <1>2, IgnoredKeeps, AcceptedKeeps, DeliveredKeeps, ReassembledKeeps

-----------------------------------------------------------------------------
(* The other events.                                                       *)

LEMMA HasUnits ==
    ASSUME Types, NEW n \in Nodes, NodeOK(n)
    PROVE  Has(n) \subseteq AllUnits
<1>1. Live(n) \subseteq Copies
  BY DEF Types, NodeOK
<1>2. ASSUME NEW e \in Range(eventq[n]) PROVE Comes(e) \subseteq Copies
  <2>1. e \in Events
    <3>1. eventq[n] \in Seq(Events)
      BY DEF Types
    <3> QED
      BY <3>1, ElementsOf, RangeIs
  <2>2. e.copy \in Copies
    BY <2>1, EventIs
  <2>3. CASE e.type = "received"
    BY <2>1, <2>3, ComesIs
  <2>4. CASE e.type # "received"
    BY <2>2, <2>4 DEF Comes
  <2> QED
    BY <2>3, <2>4
<1>3. Live(n) \cup Brought(Range(eventq[n])) \subseteq Copies
  BY <1>1, <1>2 DEF Brought
<1> QED
  BY <1>3, CoveredIs DEF Has

\* An event that does not bring a copy comes from the queue.
LEMMA FromQueue ==
    ASSUME Types, KeepInv, NEW n \in Nodes, NEW type, Current(n, type), type # "received"
    PROVE  /\ NodeOK(n) /\ Event(n) \in Events /\ Event(n).type = type
           /\ Event(n) \in Range(eventq[n]) /\ Proper(n, Event(n))
           /\ Rest(n) \in Seq(Events) /\ KeptQueue(Rest(n), store[n], Live(n))
           /\ late \/ UrgentQueue(Rest(n), store[n])
           /\ Range(Rest(n)) \subseteq Range(eventq[n])
           /\ Loaded(n)' \subseteq Loaded(n)
           /\ \A e \in Range(Rest(n)) : ~Clash(Event(n), e)
           /\ \/ late \/ Urgent(Event(n))
              \/ \A e \in Range(Rest(n)) : ~Urgent(e)
           /\ \A m \in Nodes : m # n => loading'[m] = loading[m]
<1>1. NodeOK(n) /\ \A e \in Range(eventq[n]) : Proper(n, e)
  BY DEF KeepInv, Kinds
<1>2. Event(n).type = type
  BY DEF Current
<1>3. \A m \in Nodes : m # n => loading'[m] = loading[m]
  BY Taking
<1> QED
  BY <1>1, <1>2, <1>3, TakingKeeps

\* What a handler that deletes copies, and brings nothing, leaves.
LEMMA DeletedKeeps ==
    ASSUME FragInv, KeepInv, FragInv', NEW n \in Nodes, NEW type, Current(n, type),
           type # "received", NEW copies, Delete(n, copies),
           UNCHANGED <<store, delivery>>, late' = late, lost \subseteq lost',
           NEW q \in Seq(Events), Post(n, q), Range(Rest(n)) \subseteq Range(q),
           KeptQueue(q, store[n], Live(n)), late \/ UrgentQueue(q, store[n]),
           \A e \in Range(q) : e \in Range(Rest(n)) \/ (Proper(n, e)' /\ e.type # "transmitted"),
           /\ Brought(Range(q)) = Brought(Range(eventq'[n]))
           /\ \A m \in Nodes : m # n => eventq'[m] = eventq[m]
           => Moved(n)
    PROVE  KeepInv'
<1>1. Types /\ Types' /\ FragmentsOK
  BY DEF FragInv
<1>2. /\ pending'[n] = pending[n] \ copies
      /\ \A m \in Nodes : m # n => pending'[m] = pending[m]
  BY <1>1, Deleting
<1>3. /\ NodeOK(n) /\ Loaded(n)' \subseteq Loaded(n)
      /\ Range(Rest(n)) \subseteq Range(eventq[n])
      /\ \A m \in Nodes : m # n => loading'[m] = loading[m]
  BY <1>1, FromQueue
<1>4. store' = store /\ handed' = handed /\ cache' = cache /\ got' = got
  BY DEF delivery
<1>5. Live(n)' \subseteq Live(n)
  BY <1>2, <1>3, <1>4 DEF Live, ToDeliver
<1>6. Live(n)' \subseteq store'[n] /\ KeptQueue(q, store'[n], Live(n)')
  BY <1>3, <1>4, <1>5, KeptLess DEF NodeOK
<1>7. late' \/ UrgentQueue(q, store'[n])
  BY <1>4
<1>8. /\ NodeOK(n)' /\ Brought(Range(q)) = Brought(Range(eventq'[n]))
      /\ \A e \in Range(eventq'[n]) : e \in Range(q) \/ (Proper(n, e)' /\ e.type # "transmitted")
      /\ \A m \in Nodes : m # n => eventq'[m] = eventq[m]
  BY <1>1, <1>6, <1>7, PostedOK
<1>9. Moved(n)
  BY <1>8
<1>10. \A e \in Range(eventq'[n]) : e \in Range(eventq[n]) \/ (Proper(n, e)' /\ e.type # "transmitted")
  BY <1>3, <1>8
<1> QED
  BY <1>2, <1>3, <1>4, <1>8, <1>9, <1>10, HandlerKeeps

LEMMA DeleteKeeps ==
    ASSUME FragInv, KeepInv, FragInv', NEW n \in Nodes, NEW type \in {"expired", "delete"},
           HandleDelete(n, type)
    PROVE  KeepInv'
<1>1. /\ Current(n, type) /\ Delete(n, {Event(n).copy})
      /\ UNCHANGED <<store, delivery>> /\ Post(n, Rest(n)) /\ UNCHANGED <<bounds, lost>>
  BY DEF HandleDelete
<1>2. Types /\ Types'
  BY DEF FragInv
<1>3. /\ NodeOK(n) /\ Event(n).type = type /\ Proper(n, Event(n))
      /\ Rest(n) \in Seq(Events) /\ KeptQueue(Rest(n), store[n], Live(n))
      /\ late \/ UrgentQueue(Rest(n), store[n])
  BY <1>1, <1>2, FromQueue
<1>4. late' = late /\ lost' = lost /\ handed' = handed /\ got' = got
  BY <1>1 DEF bounds, delivery
<1>5. Moved(n)
  <2>1. Done \/ (n = "dst" /\ handed # {})
    BY <1>3 DEF Proper, Done, Nodes
  <2>2. CASE Done
    BY <1>4, <2>2 DEF Moved, Done
  <2>3. CASE n = "dst" /\ handed # {}
    <3>1. PICK h \in handed : h.whole
      BY <2>3 DEF KeepInv, Kinds
    <3>2. h \in Copies
      BY <1>2 DEF Types
    <3>3. Covered({h}) = AllUnits
      BY <3>1, <3>2, UnitsAre, CoveredOne
    <3>4. {h} \subseteq ToDeliver(n)'
      BY <1>4, <2>3 DEF ToDeliver
    <3>5. Covered({h}) \subseteq Has(n)'
      BY <3>4, StillHas
    <3>6. Has(n) \subseteq AllUnits
      BY <1>2, <1>3, HasUnits
    <3> QED
      BY <3>3, <3>5, <3>6 DEF Moved
  <2> QED
    BY <2>1, <2>2, <2>3
<1> QED
  BY <1>1, <1>3, <1>4, <1>5, DeletedKeeps

LEMMA FreeKeeps ==
    ASSUME FragInv, KeepInv, FragInv', NEW n \in Nodes, HandleFree(n)
    PROVE  KeepInv'
<1> DEFINE c == Event(n).copy
<1>1. /\ Current(n, "free") /\ store' = [store EXCEPT ![n] = @ \ {c}]
      /\ UNCHANGED <<pending, armed, reassembly, delivery>>
      /\ Post(n, Rest(n)) /\ UNCHANGED <<bounds, lost>>
  BY DEF HandleFree
<1>2. Types /\ Types' /\ store \in [Nodes -> SUBSET Copies]
  BY DEF FragInv, Types
<1>3. /\ NodeOK(n) /\ Event(n).type = "free" /\ Event(n) \in Range(eventq[n])
      /\ Rest(n) \in Seq(Events) /\ KeptQueue(Rest(n), store[n], Live(n))
      /\ late \/ UrgentQueue(Rest(n), store[n])
      /\ Range(Rest(n)) \subseteq Range(eventq[n])
      /\ Loaded(n)' \subseteq Loaded(n)
      /\ \/ late \/ Urgent(Event(n))
         \/ \A e \in Range(Rest(n)) : ~Urgent(e)
      /\ \A m \in Nodes : m # n => loading'[m] = loading[m]
  BY <1>1, <1>2, FromQueue
<1>4. late' = late /\ lost' = lost /\ handed' = handed /\ got' = got /\ cache' = cache
      /\ pending' = pending
  BY <1>1 DEF bounds, delivery
<1>5. /\ store'[n] = store[n] \ {c}
      /\ \A m \in Nodes : m # n => store'[m] = store[m]
  BY <1>1, <1>2
<1>6. /\ c \notin Live(n)
      /\ \A f \in Range(Rest(n)) : f.type = "transmitted" => f.copy # c
  BY <1>3 DEF NodeOK, KeptQueue
<1>7. Live(n)' \subseteq Live(n)
  BY <1>3, <1>4 DEF Live, ToDeliver
<1>8. Live(n)' \subseteq store'[n]
  BY <1>3, <1>5, <1>6, <1>7 DEF NodeOK
<1> HIDE DEF c
<1>9. KeptQueue(Rest(n), store'[n], Live(n)')
  <2>1. KeptQueue(Rest(n), store[n] \ {c}, Live(n))
    BY <1>3, <1>6, KeptFreed
  <2> QED
    BY <1>3, <1>5, <1>7, <2>1, KeptLess
<1>10. late' \/ UrgentQueue(Rest(n), store'[n])
  <2>1. ~Urgent(Event(n))
    BY <1>3 DEF Urgent
  <2>2. CASE late
    BY <1>4, <2>2
  <2>3. CASE UrgentQueue(Rest(n), store[n]) /\ \A e \in Range(Rest(n)) : ~Urgent(e)
    BY <1>3, <2>3, UrgentStores
  <2> QED
    BY <1>3, <2>1, <2>2, <2>3
<1>11. /\ NodeOK(n)' /\ Brought(Range(Rest(n))) \subseteq Brought(Range(eventq'[n]))
       /\ \A e \in Range(eventq'[n]) : e \in Range(Rest(n)) \/ (Proper(n, e)' /\ e.type # "transmitted")
       /\ \A m \in Nodes : m # n => eventq'[m] = eventq[m]
  BY <1>1, <1>2, <1>3, <1>8, <1>9, <1>10, PostedOK
<1>12. Moved(n)
  <2>1. Covered(Comes(Event(n))) = {}
    BY <1>3, CoveredNone DEF Comes
  <2>2. Covered(pending[n]) \subseteq Has(n)'
    BY <1>4, StillHas
  <2>3. ToDeliver(n)' = ToDeliver(n)
    BY <1>4 DEF ToDeliver
  <2>4. Covered(ToDeliver(n)) \subseteq Has(n)'
    BY <2>3, StillHas
  <2> QED
    BY <1>1, <1>2, <1>3, <1>11, <2>1, <2>2, <2>4, HandlerMoves
<1> QED
  BY <1>3, <1>4, <1>5, <1>11, <1>12, HandlerKeeps

LEMMA DeliveredEventKeeps ==
    ASSUME FragInv, KeepInv, FragInv', NEW n \in Nodes, HandleDelivered(n)
    PROVE  KeepInv'
<1>1. Current(n, "delivered") /\ Ignore(n) /\ UNCHANGED <<bounds, lost>>
  BY DEF HandleDelivered
<1>2. Types /\ Types' /\ Event(n).type = "delivered"
  BY <1>1 DEF FragInv, Current
<1>3. Covered(Comes(Event(n))) = {}
  BY <1>2, CoveredNone DEF Comes
<1> QED
  BY <1>1, <1>2, <1>3, IgnoreKeeps

\* The units of a copy whose transmission ended: what the peer acknowledged
\* arrived there, and the rest is replaced or lost.
LEMMA TransmittedMoves ==
    ASSUME FragInv, KeepInv, FragInv', NEW n \in Nodes, Current(n, "transmitted"),
           Delete(n, {Event(n).copy}), UNCHANGED <<store, delivery>>, late' = late,
           lost \subseteq lost',
           Units(Event(n).copy) \subseteq
              lost' \cup Has(n)' \cup Acked(Event(n).copy, Event(n).acked),
           Brought(Range(Rest(n))) \subseteq Brought(Range(eventq'[n])),
           \A m \in Nodes : m # n => eventq'[m] = eventq[m]
    PROVE  Moved(n)
<1> DEFINE e == Event(n)
<1>1. Types /\ Types' /\ FragmentsOK
  BY DEF FragInv
<1>2. /\ NodeOK(n) /\ e.type = "transmitted" /\ e \in Range(eventq[n]) /\ Proper(n, e)
      /\ \A m \in Nodes : m # n => loading'[m] = loading[m]
  BY <1>1, FromQueue
<1>3. n = "src"
  BY <1>2 DEF Proper, Nodes
<1>4. handed' = handed /\ got' = got /\ store' = store
  BY DEF delivery
<1>5. CASE Done
  BY <1>4, <1>5 DEF Done, Moved
<1>6. CASE ~Done
  <2>1. Acked(e.copy, e.acked) \subseteq lost \cup Has("dst")
    BY <1>2, <1>3, <1>6 DEF KeepInv, Reported
  <2>2. /\ pending'[n] = pending[n] \ {e.copy}
        /\ \A m \in Nodes : m # n => pending'[m] = pending[m]
    BY <1>1, Deleting
  <2>3. Has("dst")' = Has("dst")
    <3>1. PICK m \in Nodes : m = "dst" /\ m # n
      BY <1>3 DEF Nodes
    <3>2. NodeOK(m)
      BY DEF KeepInv
    <3>3. Has(m)' = Has(m)
      BY <1>2, <1>4, <2>2, <3>1, <3>2, NodeStays
    <3> QED
      BY <3>1, <3>3
  <2>4. Units(e.copy) \subseteq lost' \cup Has(n)' \cup Has("dst")'
    BY <2>1, <2>3
  <2>5. Covered(pending[n]) \subseteq lost' \cup Has(n)' \cup Has("dst")'
    <3>1. Covered(pending[n]) \subseteq Covered(pending'[n] \cup {e.copy})
      BY <2>2, CoveredGrows
    <3>2. Covered(pending'[n] \cup {e.copy}) = Covered(pending'[n]) \cup Units(e.copy)
      BY CoveredUnion, CoveredOne
    <3>3. Covered(pending'[n]) \subseteq Has(n)'
      BY StillHas
    <3> QED
      BY <2>4, <3>1, <3>2, <3>3
  <2>6. Covered(ToDeliver(n)) \subseteq Has(n)'
    <3>1. ToDeliver(n)' = ToDeliver(n)
      BY <1>4 DEF ToDeliver
    <3> QED
      BY <3>1, StillHas
  <2>7. Covered(Comes(e)) \subseteq lost' \cup Has(n)' \cup Has("dst")'
    BY <1>2, CoveredNone DEF Comes
  <2> QED
    BY <1>1, <1>2, <2>5, <2>6, <2>7, HandlerMoves
<1> QED
  BY <1>5, <1>6

LEMMA TransmittedKeeps ==
    ASSUME FragInv, KeepInv, FragInv', NEW n \in Nodes, HandleTransmitted(n)
    PROVE  KeepInv'
<1> DEFINE e == Event(n)
           tails == Tails(e.copy, e.acked, FreshId(n))
<1>1. /\ Current(n, "transmitted") /\ Delete(n, {e.copy})
      /\ UNCHANGED <<store, delivery>> /\ UNCHANGED bounds
      /\ \/ /\ tails = {}
            /\ Post(n, Rest(n))
            /\ lost' = IF e.acked < Formatted(e.copy)
                       THEN lost \cup Units(e.copy) ELSE lost
         \/ \E t \in tails : /\ Post(n, PostedFirst(Received(t, 0, "tail"), Rest(n)))
                             /\ UNCHANGED lost
  BY DEF HandleTransmitted
<1>2. Types /\ Types'
  BY DEF FragInv
<1>3. /\ NodeOK(n) /\ e \in Events /\ e.type = "transmitted" /\ e \in Range(eventq[n])
      /\ Rest(n) \in Seq(Events) /\ KeptQueue(Rest(n), store[n], Live(n))
      /\ late \/ UrgentQueue(Rest(n), store[n])
      /\ Range(Rest(n)) \subseteq Range(eventq[n])
  BY <1>1, <1>2, FromQueue
<1>4. e.copy \in Copies /\ e.acked \in Nat
  BY <1>3, EventIs, ReportIs
<1>5. e.copy \in store[n]
  BY <1>3 DEF NodeOK, KeptQueue
<1>6. late' = late
  BY <1>1 DEF bounds
<1>7. CASE tails = {} /\ Post(n, Rest(n))
           /\ lost' = IF e.acked < Formatted(e.copy) THEN lost \cup Units(e.copy) ELSE lost
  <2>1. lost \subseteq lost'
    BY <1>7
  <2>2. Units(e.copy) \subseteq lost' \cup Has(n)' \cup Acked(e.copy, e.acked)
    <3>1. Formatted(e.copy) \in Nat
      BY <1>4, FormattedIs
    <3>2. CASE e.acked < Formatted(e.copy)
      BY <1>7, <3>2
    <3>3. CASE e.acked >= Formatted(e.copy)
      BY <3>3 DEF Acked
    <3> QED
      BY <1>4, <3>1, <3>2, <3>3
  <2>3. ASSUME Brought(Range(Rest(n))) = Brought(Range(eventq'[n])),
               \A m \in Nodes : m # n => eventq'[m] = eventq[m]
        PROVE  Moved(n)
    BY <1>1, <1>6, <2>1, <2>2, <2>3, TransmittedMoves
  <2> HIDE DEF e
  <2> QED
    BY <1>1, <1>3, <1>6, <1>7, <2>1, <2>3, DeletedKeeps
<1>8. ASSUME NEW t \in tails, Post(n, PostedFirst(Received(t, 0, "tail"), Rest(n))), UNCHANGED lost
      PROVE  KeepInv'
  <2>1. /\ t \in Copies /\ t.id = FreshId(n) /\ Units(t) \subseteq Units(e.copy)
        /\ Units(e.copy) \subseteq Acked(e.copy, e.acked) \cup Units(t)
    <3>1. FreshId(n) \in Nat
      BY <1>2, FreshIs
    <3> QED
      BY <1>4, <1>8, <3>1, TailsAre
  <2>2. PICK r : r = Received(t, 0, "tail")
    OBVIOUS
  <2>3. r \in Events /\ r.type = "received" /\ r.copy = t /\ r.source = "tail"
    BY <2>1, <2>2, MakeReception, ReceptionIs
  <2>4. PICK q : q = <<r>> \o Rest(n)
    OBVIOUS
  <2>5. q \in Seq(Events) /\ Range(q) = Range(Rest(n)) \cup {r} /\ Post(n, q)
    BY <1>3, <1>8, <2>2, <2>3, <2>4, ElementsOfPrepend, RangeIs DEF PostedFirst
  <2>6. \A d \in Known(n) : d.id # t.id
    BY <1>2, <2>1, FreshIs
  <2>7. \A f \in Range(Rest(n)) : f.copy.id # t.id
    <3>1. \A f \in Range(eventq[n]) : f.copy \in Known(n)
      BY DEF Known, Queued, CopiesOf
    <3> QED
      BY <1>3, <2>6, <3>1
  <2>8. KeptQueue(q, store[n], Live(n))
    <3>1. Brings(r) /\ \A c \in store[n] : c.id # r.copy.id
      BY <2>3, <2>6 DEF Brings, Known
    <3>2. \A f \in Range(Rest(n)) : ~Clash(r, f) /\ ~Clash(f, r)
      BY <2>3, <2>7 DEF Clash
    <3> QED
      BY <1>3, <2>3, <2>4, <3>1, <3>2, KeptPrepend
  <2>9. late \/ UrgentQueue(q, store[n])
    <3>1. Units(e.copy) \subseteq Covered(store[n])
      BY <1>5 DEF Covered
    <3>2. Urgent(r) /\ Units(r.copy) \subseteq Covered(store[n])
      BY <2>1, <2>3, <3>1 DEF Urgent
    <3> QED
      BY <1>3, <2>3, <2>4, <3>2, UrgentPrepend
  <2>10. \A f \in Range(q) : f \in Range(Rest(n)) \/ (Proper(n, f)' /\ f.type # "transmitted")
    BY <2>3, <2>5, Harmless
  <2>11. ASSUME Brought(Range(q)) = Brought(Range(eventq'[n])),
                \A m \in Nodes : m # n => eventq'[m] = eventq[m]
         PROVE  Moved(n)
    <3>1. t \in Comes(r)
      BY <2>3 DEF Comes
    <3>2. t \in Brought(Range(q))
      BY <2>5, <3>1 DEF Brought
    <3>3. Units(t) \subseteq Has(n)'
      BY <2>11, <3>2, WillHave
    <3>4. Units(e.copy) \subseteq lost' \cup Has(n)' \cup Acked(e.copy, e.acked)
      BY <2>1, <3>3
    <3>5. Brought(Range(Rest(n))) \subseteq Brought(Range(eventq'[n]))
      BY <2>5, <2>11, BroughtGrows
    <3>6. lost \subseteq lost'
      BY <1>8
    <3> QED
      BY <1>1, <1>6, <2>11, <3>4, <3>5, <3>6, TransmittedMoves
  <2>12. Range(Rest(n)) \subseteq Range(q) /\ lost \subseteq lost'
    BY <1>8, <2>5
  <2> HIDE DEF e
  <2> QED
    BY <1>1, <1>6, <2>5, <2>8, <2>9, <2>10, <2>11, <2>12, DeletedKeeps
<1> QED
  BY <1>1, <1>7, <1>8

LEMMA CompletedKeeps ==
    ASSUME FragInv, KeepInv, FragInv', NEW n \in Nodes, HandleCompleted(n)
    PROVE  KeepInv'
<1> DEFINE e == Event(n)
<1>1. /\ Current(n, "completed") /\ Delete(n, Range(e.list))
      /\ UNCHANGED <<store, delivery>> /\ UNCHANGED <<bounds, lost>>
  BY DEF HandleCompleted
<1>2. PICK q \in WithFrees(n, Rest(n)) :
         eventq' = [eventq EXCEPT ![n] = PostedFirst(Received(e.copy, 0, "reassembled"), q)]
  BY DEF HandleCompleted
<1>3. Types /\ Types' /\ FragmentsOK
  BY DEF FragInv
<1>4. /\ NodeOK(n) /\ e \in Events /\ e.type = "completed" /\ e \in Range(eventq[n])
      /\ Rest(n) \in Seq(Events) /\ KeptQueue(Rest(n), store[n], Live(n))
      /\ late \/ UrgentQueue(Rest(n), store[n])
      /\ Range(Rest(n)) \subseteq Range(eventq[n])
      /\ Loaded(n)' \subseteq Loaded(n)
      /\ \A f \in Range(Rest(n)) : ~Clash(e, f)
      /\ \A m \in Nodes : m # n => loading'[m] = loading[m]
  BY <1>1, <1>3, FromQueue
<1>5. e.copy \in Copies /\ Units(e.copy) = AllUnits
  BY <1>4, EventIs, CompletionIs, UnitsAre
<1>6. late' = late /\ lost' = lost /\ store' = store /\ handed' = handed /\ got' = got
      /\ cache' = cache
  BY <1>1 DEF bounds, delivery
<1>7. /\ pending'[n] = pending[n] \ Range(e.list)
      /\ \A m \in Nodes : m # n => pending'[m] = pending[m]
  BY <1>1, <1>3, Deleting
<1>8. Live(n)' \subseteq Live(n)
  BY <1>4, <1>6, <1>7 DEF Live, ToDeliver
<1>9. Live(n)' \subseteq store'[n] /\ KeptQueue(Rest(n), store'[n], Live(n)')
  BY <1>4, <1>6, <1>8, KeptLess DEF NodeOK
<1>10. store'[n] \in SUBSET Copies /\ IsFiniteSet(store'[n]) /\ loading'[n] \in Seq(Loads)
  BY <1>3 DEF Types
<1>11. /\ q \in Seq(Events) /\ KeptQueue(q, store'[n], Live(n)')
       /\ UrgentQueue(Rest(n), store'[n]) => UrgentQueue(q, store'[n])
       /\ \A f \in Range(q) : f \in Range(Rest(n)) \/ (f.type = "free" /\ f.copy \in store'[n])
  BY <1>4, <1>9, <1>10, FreeingKeeps
<1>12. PICK r : r = Received(e.copy, 0, "reassembled")
  OBVIOUS
<1>13. r \in Events /\ r.type = "received" /\ r.copy = e.copy /\ r.source = "reassembled"
  BY <1>5, <1>12, MakeReception, ReceptionIs
<1>14. eventq \in [Nodes -> Seq(Events)]
  BY <1>3 DEF Types
<1>15. /\ eventq'[n] = <<r>> \o q
       /\ \A m \in Nodes : m # n => eventq'[m] = eventq[m]
  BY <1>2, <1>12, <1>14 DEF PostedFirst
<1>16. Range(eventq'[n]) = Range(q) \cup {r}
  BY <1>11, <1>13, <1>15, ElementsOfPrepend, RangeIs
<1>17. Brings(r) /\ \A c \in store'[n] : c.id # r.copy.id
  BY <1>4, <1>6, <1>13 DEF NodeOK, KeptQueue, Brings
<1>18. \A f \in Range(q) : ~Clash(r, f) /\ ~Clash(f, r)
  <2> SUFFICES ASSUME NEW f \in Range(q) PROVE ~Clash(r, f) /\ ~Clash(f, r)
    OBVIOUS
  <2>1. CASE f \in Range(Rest(n))
    BY <1>4, <1>13, <2>1 DEF Clash, Brings
  <2>2. CASE f.type = "free" /\ f.copy \in store'[n]
    BY <1>17, <2>2 DEF Clash, Brings
  <2> QED
    BY <1>11, <2>1, <2>2
<1>19. KeptQueue(eventq'[n], store'[n], Live(n)')
  BY <1>11, <1>13, <1>15, <1>17, <1>18, KeptPrepend
<1>20. late' \/ UrgentQueue(eventq'[n], store'[n])
  <2>1. CASE late
    BY <1>6, <2>1
  <2>2. CASE ~late
    <3>1. UrgentQueue(q, store'[n])
      BY <1>4, <1>6, <1>11, <2>2
    <3>2. Units(r.copy) \subseteq Covered(store'[n])
      BY <1>4, <1>6, <1>13, <2>2 DEF NodeOK, UrgentQueue, Urgent
    <3>3. Urgent(r)
      BY <1>13 DEF Urgent
    <3> QED
      BY <1>11, <1>13, <1>15, <3>1, <3>2, <3>3, UrgentPrepend
  <2> QED
    BY <2>1, <2>2
<1>21. NodeOK(n)'
  BY <1>9, <1>19, <1>20 DEF NodeOK
<1>22. Moved(n)
  <2>1. e.copy \in Comes(r)
    BY <1>13 DEF Comes
  <2>2. e.copy \in Brought(Range(eventq'[n]))
    BY <1>16, <2>1 DEF Brought
  <2>3. AllUnits \subseteq Has(n)'
    BY <1>5, <2>2, WillHave
  <2>4. Has(n) \subseteq AllUnits
    BY <1>3, <1>4, HasUnits
  <2> QED
    BY <2>3, <2>4 DEF Moved
<1>23. \A f \in Range(eventq'[n]) : f \in Range(eventq[n]) \/ (Proper(n, f)' /\ f.type # "transmitted")
  BY <1>4, <1>11, <1>13, <1>16, Harmless
<1> HIDE DEF e
<1> QED
  BY <1>4, <1>6, <1>7, <1>15, <1>21, <1>22, <1>23, HandlerKeeps

LEMMA DaemonKeeps ==
    ASSUME FragInv, KeepInv, FragInv', NEW n \in Nodes, Daemon(n)
    PROVE  KeepInv'
<1>1. CASE HandleDelete(n, "expired") \/ HandleDelete(n, "delete")
  BY <1>1, DeleteKeeps
<1> QED
  BY <1>1, ReceivedKeeps, TransmittedKeeps, CompletedKeeps, FreeKeeps, DeliveredEventKeeps
  DEF Daemon

-----------------------------------------------------------------------------
(* The link, the timers, the application and crashes.                      *)

\* An event posted behind the others.
LEMMA KeptAppend ==
    ASSUME NEW q \in Seq(Events), NEW e \in Events, NEW S, NEW L, KeptQueue(q, S, L),
           e.type = "transmitted" => e.copy \in S,
           Brings(e) => \A c \in S : c.id # e.copy.id,
           e.type # "free",
           \A f \in Range(q) : /\ ~Clash(e, f) /\ ~Clash(f, e)
                               /\ f.type = "free" /\ e.type = "transmitted" => f.copy # e.copy
    PROVE  /\ Append(q, e) \in Seq(Events) /\ Range(Append(q, e)) = Range(q) \cup {e}
           /\ KeptQueue(Append(q, e), S, L)
           /\ ~Urgent(e) => (UrgentQueue(q, S) => UrgentQueue(Append(q, e), S))
<1>1. <<e>> \in Seq(Events) /\ KeptQueue(<<e>>, S, L)
  BY KeptOne
<1>2. Range(<<e>>) = {e}
  BY ElementsOfOne, RangeIs
<1>3. Append(q, e) = q \o <<e>>
  OBVIOUS
<1>4. Append(q, e) \in Seq(Events) /\ Range(Append(q, e)) = Range(q) \cup {e}
  BY ElementsOfAppend, RangeIs
<1>5. \A d \in Range(q) : \A f \in Range(<<e>>) :
         /\ ~Clash(d, f) /\ ~Clash(f, d)
         /\ d.type = "free" /\ f.type = "transmitted" => f.copy # d.copy
         /\ d.type = "transmitted" /\ f.type = "free" => f.copy # d.copy
  BY <1>2
<1>6. KeptQueue(q \o <<e>>, S, L)
  BY <1>1, <1>5, KeptConcat
<1>7. ~Urgent(e) => (UrgentQueue(q, S) => UrgentQueue(q \o <<e>>, S))
  BY <1>1, <1>2, UrgentConcat
<1> QED
  BY <1>3, <1>4, <1>6, <1>7

LEMMA KindsStay ==
    ASSUME Kinds, Done => Done', late => late',
           \A n \in Nodes : \A e \in Range(eventq'[n]) :
              \/ Proper(n, e)'
              \/ /\ e \in Range(eventq[n])
                 /\ n = "dst" => handed \subseteq handed' \/ Done',
           cache' => cache /\ (handed \subseteq handed' \/ Done'),
           \A c \in handed' : c \in handed \/ c.whole
    PROVE  Kinds'
<1>1. ASSUME NEW n \in Nodes, NEW e \in Range(eventq'[n]) PROVE Proper(n, e)'
  <2>1. CASE /\ e \in Range(eventq[n])
             /\ n = "dst" => handed \subseteq handed' \/ Done'
    <3>1. Proper(n, e)
      BY <2>1 DEF Kinds
    <3>2. n = "dst" => (handed # {} => handed' # {} \/ Done')
      BY <2>1
    <3> QED
      BY <3>1, <3>2 DEF Proper
  <2> QED
    BY <2>1
<1>2. cache' => Done' \/ handed' # {}
  BY DEF Kinds
<1>3. \A c \in handed' : c.whole
  BY DEF Kinds
<1> QED
  BY <1>1, <1>2, <1>3, Zenon DEF Kinds

\* What the peer acknowledges is in what close_contact hands over there.
LEMMA AckedArrives ==
    ASSUME NEW c \in Copies, NEW d \in Copies, d.off = c.off, d.len = c.len,
           NEW acked \in Nat, NEW bytes \in Nat, acked <= bytes, bytes <= Formatted(c),
           bytes = Formatted(c) \/ bytes > HeaderLen
    PROVE  Acked(c, acked) = {} \/ \E a \in Arrived(d, bytes) : Acked(c, acked) \subseteq Units(a)
<1>1. /\ c.off \in Nat /\ c.len \in Nat \ {0} /\ HeaderLen \in Nat \ {0} /\ TrailerLen \in Nat
      /\ Formatted(c) = HeaderLen + c.len + TrailerLen /\ Formatted(d) = Formatted(c)
  BY CopyIs, SizesAssumption DEF Formatted
<1>2. Units(d) = Units(c) /\ Units(c) = c.off .. (c.off + c.len - 1)
  BY DEF Units
<1>3. CASE bytes = Formatted(c)
  <2>1. Arrived(d, bytes) = {d}
    BY <1>1, <1>3 DEF Arrived
  <2>2. Acked(c, acked) \subseteq Units(c)
    BY <1>1, <1>2 DEF Acked, Least
  <2> QED
    BY <1>2, <2>1, <2>2
<1>4. CASE bytes # Formatted(c) /\ c.len <= 1
  BY <1>1, <1>4 DEF Acked
<1>5. CASE bytes # Formatted(c) /\ c.len > 1
  <2> DEFINE k == Least(bytes - HeaderLen, d.len - 1)
             a == Fragment(d.id, d.off, k)
  <2>1. Arrived(d, bytes) = {a}
    BY <1>1, <1>5 DEF Arrived
  <2>2. Units(a) = c.off .. (c.off + k - 1)
    BY DEF Units, Fragment
  <2>3. Acked(c, acked) \subseteq c.off .. (c.off + k - 1)
    BY <1>1, <1>5 DEF Acked, Least
  <2> QED
    BY <2>1, <2>2, <2>3
<1> QED
  BY <1>1, <1>3, <1>4, <1>5

LEMMA AckedLost ==
    ASSUME NEW c \in Copies, NEW acked \in Nat, acked < Formatted(c)
    PROVE  /\ acked <= HeaderLen => Acked(c, acked) = {}
           /\ Acked(c, acked) \subseteq Units([c EXCEPT !.len = Least(@, acked - HeaderLen)])
<1>1. /\ c.off \in Nat /\ c.len \in Nat \ {0} /\ HeaderLen \in Nat \ {0} /\ TrailerLen \in Nat
      /\ Formatted(c) = HeaderLen + c.len + TrailerLen
  BY CopyIs, SizesAssumption DEF Formatted
<1>2. acked <= HeaderLen => Acked(c, acked) = {}
  BY <1>1 DEF Acked
<1> DEFINE k == Least(c.len, acked - HeaderLen)
<1>3. Units([c EXCEPT !.len = Least(@, acked - HeaderLen)]) = c.off .. (c.off + k - 1)
  BY DEF Units, Copies
<1>4. Acked(c, acked) \subseteq c.off .. (c.off + k - 1)
  BY <1>1 DEF Acked, Least
<1> QED
  BY <1>2, <1>3, <1>4

LEMMA TransmitKeeps ==
    ASSUME FragInv, KeepInv, FragInv', NEW c \in pending["src"], Transmit(c)
    PROVE  KeepInv'
<1>1. Types /\ Types' /\ "src" \in Nodes /\ "dst" \in Nodes /\ eventq \in [Nodes -> Seq(Events)]
  BY DEF FragInv, Nodes, Types
<1>2. /\ UNCHANGED <<pending, store, armed, loading, reassembly, delivery, late, crashes>>
      /\ c \in Copies
  BY <1>1, Transmitting
<1>3. PICK acked \in Nat, bytes \in Nat, d \in Copies :
                 /\ acked <= bytes /\ bytes <= Formatted(c)
                 /\ d = [c EXCEPT !.id = FreshId("dst")] /\ d.id = FreshId("dst")
                 /\ d.off = c.off /\ d.len = c.len /\ d.whole = c.whole
                 /\ \/ eventq'["src"] = eventq["src"]
                    \/ eventq'["src"] = Append(eventq["src"], Transmitted(c, acked))
                 /\ \/ /\ bytes = Formatted(c) \/ bytes > HeaderLen
                       /\ eventq'["dst"] = Append(eventq["dst"], Received(d, bytes, "peer"))
                       /\ lost' = lost
                    \/ /\ bytes # Formatted(c) /\ eventq'["dst"] = eventq["dst"]
                       /\ \/ acked <= HeaderLen /\ lost' = lost
                          \/ lost' = lost \cup Units([c EXCEPT !.len = Least(@, acked - HeaderLen)])
  BY <1>1, Transmitting
<1>4. PICK t : t = Transmitted(c, acked)
  OBVIOUS
<1>5. PICK r : r = Received(d, bytes, "peer")
  OBVIOUS
<1>6. /\ t \in Events /\ t.type = "transmitted" /\ t.copy = c /\ t.acked = acked
  BY <1>2, <1>3, <1>4, MakeReport, ReportIs
<1>7. bytes = Formatted(c) \/ bytes > HeaderLen =>
        /\ r \in Events /\ r.type = "received" /\ r.copy = d /\ r.source = "peer"
        /\ r.bytes = bytes
  <2>1. Formatted(d) = Formatted(c)
    BY <1>3 DEF Formatted
  <2> QED
    BY <1>3, <1>5, <2>1, MakeReception, ReceptionIs
<1>8. pending' = pending /\ store' = store /\ loading' = loading /\ handed' = handed
      /\ cache' = cache /\ got' = got /\ late' = late
  BY <1>2 DEF delivery
<1>9. Live("src")' = Live("src") /\ Live("dst")' = Live("dst")
  BY <1>8 DEF Live, Loaded, ToDeliver
<1>10. NodeOK("src") /\ NodeOK("dst") /\ Kinds
  BY <1>1 DEF KeepInv
<1>11. /\ NodeOK("src")' /\ Has("src")' = Has("src")
       /\ \A e \in Range(eventq'["src"]) : e \in Range(eventq["src"]) \/ e = t
  <2>1. CASE eventq'["src"] = eventq["src"]
    BY <1>1, <1>8, <1>10, <2>1, NodeStays
  <2>2. CASE eventq'["src"] = Append(eventq["src"], t)
    <3> DEFINE q == eventq["src"]
               S == store["src"]
               L == Live("src")
    <3>1. q \in Seq(Events) /\ KeptQueue(q, S, L) /\ L \subseteq S /\ (late \/ UrgentQueue(q, S))
      BY <1>1, <1>10 DEF NodeOK
    <3>2. c \in L
      BY DEF Live
    <3> HIDE DEF q, S, L
    <3>3. \A f \in Range(q) : /\ ~Clash(t, f) /\ ~Clash(f, t)
                              /\ f.type = "free" /\ t.type = "transmitted" => f.copy # t.copy
      BY <1>6, <3>1, <3>2 DEF Clash, Brings, KeptQueue
    <3>4. ~Brings(t) /\ ~Urgent(t) /\ t.copy \in S /\ t.type # "free"
      BY <1>6, <3>1, <3>2 DEF Brings, Urgent
    <3>5. /\ Range(Append(q, t)) = Range(q) \cup {t} /\ KeptQueue(Append(q, t), S, L)
          /\ UrgentQueue(q, S) => UrgentQueue(Append(q, t), S)
      BY <1>6, <3>1, <3>3, <3>4, KeptAppend
    <3>6. NodeOK("src")'
      BY <1>8, <1>9, <2>2, <3>1, <3>5 DEF NodeOK, q, S, L
    <3>7. Brought(Range(Append(q, t))) = Brought(Range(q))
      <4>1. Brought(Range(Append(q, t))) = Brought(Range(q)) \cup Brought({t})
        BY <3>5, BroughtUnion
      <4>2. Brought({t}) = {}
        BY <1>6, BroughtOne DEF Comes
      <4> QED
        BY <4>1, <4>2
    <3>8. Has("src")' = Has("src")
      BY <1>9, <2>2, <3>7 DEF Has, q
    <3> QED
      BY <2>2, <3>5, <3>6, <3>8 DEF q
  <2> QED
    BY <1>3, <1>4, <2>1, <2>2
<1>12. /\ NodeOK("dst")' /\ Has("dst") \subseteq Has("dst")'
       /\ \A e \in Range(eventq'["dst"]) : e \in Range(eventq["dst"]) \/ e.type = "received"
       /\ Acked(c, acked) \subseteq lost' \cup Has("dst")'
  <2>1. CASE bytes # Formatted(c) /\ eventq'["dst"] = eventq["dst"]
               /\ \/ acked <= HeaderLen /\ lost' = lost
                  \/ lost' = lost \cup Units([c EXCEPT !.len = Least(@, acked - HeaderLen)])
    <3>1. NodeOK("dst")' /\ Has("dst")' = Has("dst")
      BY <1>1, <1>8, <1>10, <2>1, NodeStays
    <3>2. acked < Formatted(c)
      BY <1>2, <1>3, <2>1, FormattedIs
    <3>3. Acked(c, acked) \subseteq lost'
      BY <1>2, <1>3, <2>1, <3>2, AckedLost
    <3> QED
      BY <2>1, <3>1, <3>3
  <2>2. CASE /\ bytes = Formatted(c) \/ bytes > HeaderLen
             /\ eventq'["dst"] = Append(eventq["dst"], r)
    <3> DEFINE q == eventq["dst"]
               S == store["dst"]
               L == Live("dst")
    <3>1. q \in Seq(Events) /\ KeptQueue(q, S, L) /\ L \subseteq S /\ (late \/ UrgentQueue(q, S))
      BY <1>1, <1>10 DEF NodeOK
    <3>2. r \in Events /\ r.type = "received" /\ r.copy = d /\ r.source = "peer" /\ r.bytes = bytes
      BY <1>7, <2>2
    <3>3. \A k \in Known("dst") : k.id # d.id
      BY <1>1, <1>3, FreshIs
    <3>4. \A f \in Range(q) : f.copy \in Known("dst")
      BY DEF Known, Queued, CopiesOf
    <3>5. \A k \in S : k.id # d.id
      BY <3>3 DEF Known
    <3> HIDE DEF q, S, L
    <3>6. \A f \in Range(q) : /\ ~Clash(r, f) /\ ~Clash(f, r)
                              /\ f.type = "free" /\ r.type = "transmitted" => f.copy # r.copy
      BY <3>2, <3>3, <3>4 DEF Clash
    <3>7. ~Urgent(r) /\ r.type # "free" /\ r.type # "transmitted"
      BY <3>2 DEF Urgent
    <3>8. /\ Range(Append(q, r)) = Range(q) \cup {r} /\ KeptQueue(Append(q, r), S, L)
          /\ UrgentQueue(q, S) => UrgentQueue(Append(q, r), S)
      BY <3>1, <3>2, <3>5, <3>6, <3>7, KeptAppend
    <3>9. NodeOK("dst")'
      BY <1>8, <1>9, <2>2, <3>1, <3>8 DEF NodeOK, q, S, L
    <3>10. Brought(Range(eventq'["dst"])) = Brought(Range(q)) \cup Brought({r})
      BY <2>2, <3>8, BroughtUnion DEF q
    <3>11. Has("dst") \subseteq Has("dst")'
      <4>1. Live("dst") \cup Brought(Range(q)) \subseteq Live("dst")' \cup Brought(Range(eventq'["dst"]))
        BY <1>9, <3>10
      <4> QED
        BY <4>1, CoveredGrows DEF Has, q
    <3>12. Acked(c, acked) \subseteq Has("dst")'
      <4>1. Acked(c, acked) = {} \/ \E a \in Arrived(d, bytes) : Acked(c, acked) \subseteq Units(a)
        BY <1>2, <1>3, <2>2, AckedArrives
      <4>2. ASSUME NEW a \in Arrived(d, bytes) PROVE Units(a) \subseteq Has("dst")'
        <5>1. a \in Comes(r)
          BY <3>2, <4>2 DEF Comes
        <5>2. a \in Brought({r})
          BY <5>1, BroughtOne
        <5>3. a \in Brought(Range(eventq'["dst"]))
          BY <3>10, <5>2
        <5> QED
          BY <5>3, WillHave
      <4> QED
        BY <4>1, <4>2
    <3> QED
      BY <2>2, <3>2, <3>8, <3>9, <3>11, <3>12 DEF q
  <2> QED
    BY <1>3, <1>5, <2>1, <2>2
<1>13. \A n \in Nodes : NodeOK(n)' /\ Moved(n)
  BY <1>11, <1>12 DEF Nodes, Moved
<1>14. Kinds'
  <2>1. ASSUME NEW n \in Nodes, NEW e \in Range(eventq'[n])
        PROVE  Proper(n, e)' \/ e \in Range(eventq[n])
    BY <1>6, <1>11, <1>12, <2>1 DEF Nodes, Proper
  <2>2. Done => Done'
    BY <1>8 DEF Done
  <2> QED
    BY <1>8, <1>10, <2>1, <2>2, KindsStay
<1>15. \A e \in Range(eventq'["src"]) : e.type = "transmitted" =>
          e \in Range(eventq["src"]) \/ Acked(e.copy, e.acked) \subseteq lost' \cup Has("dst")'
  BY <1>6, <1>11, <1>12
<1>16. lost \subseteq lost' /\ (late => late') /\ (got > 0 => got' > 0)
  BY <1>3, <1>8
<1> QED
  BY <1>13, <1>14, <1>15, <1>16, StepKeeps

\* After the lifetime, or once the application has the bundle, only the nodes
\* have to stay in order.
LEMMA DoneKeeps ==
    ASSUME KeepInv, Done', late => late', got > 0 => got' > 0, lost \subseteq lost',
           \A n \in Nodes : NodeOK(n)',
           \A n \in Nodes : \A e \in Range(eventq'[n]) :
              e \in Range(eventq[n]) \/ (Proper(n, e)' /\ e.type # "transmitted"),
           cache' = cache, handed' \subseteq handed
    PROVE  KeepInv'
<1>1. Kinds'
  <2>1. Kinds /\ \A c \in handed : c.whole
    BY DEF KeepInv, Kinds
  <2> QED
    BY <2>1, KindsStay
<1>2. \A n \in Nodes : Moved(n)
  BY DEF Moved
<1>3. \A e \in Range(eventq'["src"]) : e.type = "transmitted" =>
         e \in Range(eventq["src"]) \/ Acked(e.copy, e.acked) \subseteq lost' \cup Has("dst")'
  BY DEF Nodes
<1> QED
  BY <1>1, <1>2, <1>3, StepKeeps

LEMMA LifetimeKeeps ==
    ASSUME KeepInv, LifetimeEnds
    PROVE  KeepInv'
<1>1. late' = TRUE /\ UNCHANGED <<node, reassembly, delivery, attempts, crashes, lost>>
  BY DEF LifetimeEnds
<1>2. /\ pending' = pending /\ store' = store /\ loading' = loading /\ eventq' = eventq
      /\ handed' = handed /\ cache' = cache /\ got' = got /\ lost' = lost
  BY <1>1 DEF node, delivery
<1>3. \A n \in Nodes : NodeOK(n)'
  BY <1>1, <1>2, NodeStays DEF KeepInv
<1>4. Done'
  BY <1>1 DEF Done
<1> QED
  BY <1>1, <1>2, <1>3, <1>4, DoneKeeps

LEMMA StutterKeeps ==
    ASSUME KeepInv, UNCHANGED vars
    PROVE  KeepInv'
<1>1. /\ pending' = pending /\ store' = store /\ loading' = loading /\ eventq' = eventq
      /\ handed' = handed /\ cache' = cache /\ got' = got /\ lost' = lost /\ late' = late
  BY DEF vars, node, delivery, bounds
<1>2. \A n \in Nodes : NodeOK(n)' /\ Has(n)' = Has(n)
  BY <1>1, NodeStays DEF KeepInv
<1>3. \A n \in Nodes : Moved(n)
  BY <1>2 DEF Moved
<1>4. Kinds'
  <2>1. Kinds /\ (Done => Done')
    BY <1>1 DEF KeepInv, Done
  <2> QED
    BY <1>1, <2>1, KindsStay
<1> QED
  BY <1>1, <1>2, <1>3, <1>4, StepKeeps

LEMMA TimeoutKeeps ==
    ASSUME FragInv, KeepInv, NEW n \in Nodes, NEW c \in armed[n], ExpirationTimeout(n, c)
    PROVE  KeepInv'
<1>1. /\ late /\ eventq' = [eventq EXCEPT ![n] = PostedFirst(About("expired", c), @)]
      /\ UNCHANGED <<pending, store, loading, reassembly, delivery, bounds, lost>>
  BY DEF ExpirationTimeout
<1>2. /\ pending' = pending /\ store' = store /\ loading' = loading
      /\ handed' = handed /\ cache' = cache /\ got' = got /\ lost' = lost /\ late' = late
  BY <1>1 DEF delivery, bounds
<1>3. /\ eventq \in [Nodes -> Seq(Events)] /\ c \in Copies
      /\ NodeOK(n)
  BY DEF FragInv, Types, KeepInv
<1>4. PICK e : e = About("expired", c)
  OBVIOUS
<1>5. e \in Notices /\ e \in Events /\ e.type = "expired"
  BY <1>3, <1>4, MakeNotice, NoticeIs
<1>6. /\ eventq'[n] = <<e>> \o eventq[n]
      /\ \A m \in Nodes : m # n => eventq'[m] = eventq[m]
  BY <1>1, <1>3, <1>4 DEF PostedFirst
<1>7. Live(n)' = Live(n)
  BY <1>2 DEF Live, Loaded, ToDeliver
<1> DEFINE q == eventq[n]
           S == store[n]
           L == Live(n)
<1>8. q \in Seq(Events) /\ KeptQueue(q, S, L) /\ L \subseteq S
  BY <1>3 DEF NodeOK
<1> HIDE DEF q, S, L
<1>9. <<e>> \in Seq(Events) /\ KeptQueue(<<e>>, S, L)
  <2>1. ~Brings(e) /\ e.type # "transmitted" /\ e.type # "free"
    BY <1>5 DEF Brings
  <2> QED
    BY <1>5, <2>1, KeptOne
<1>10. Range(<<e>>) = {e}
  BY ElementsOfOne, RangeIs
<1>11. \A d \in Range(<<e>>) : \A f \in Range(q) :
          /\ ~Clash(d, f) /\ ~Clash(f, d)
          /\ d.type = "free" /\ f.type = "transmitted" => f.copy # d.copy
          /\ d.type = "transmitted" /\ f.type = "free" => f.copy # d.copy
  BY <1>5, <1>10 DEF Clash, Brings
<1>12. KeptQueue(<<e>> \o q, S, L)
  BY <1>8, <1>9, <1>11, KeptConcat
<1>13. NodeOK(n)'
  BY <1>1, <1>2, <1>6, <1>7, <1>8, <1>12 DEF NodeOK, q, S, L
<1>14. \A m \in Nodes : NodeOK(m)'
  BY <1>2, <1>6, <1>13, NodeStays DEF KeepInv
<1>15. Range(eventq'[n]) = Range(q) \cup {e}
  BY <1>5, <1>6, <1>8, ElementsOfPrepend, RangeIs DEF q
<1>16. Proper(n, e)' /\ e.type # "transmitted"
  BY <1>1, <1>2, <1>5 DEF Proper
<1>17. ASSUME NEW m \in Nodes, NEW f \in Range(eventq'[m])
       PROVE  f \in Range(eventq[m]) \/ (Proper(m, f)' /\ f.type # "transmitted")
  BY <1>6, <1>15, <1>16, <1>17 DEF q
<1>18. Done'
  BY <1>1, <1>2 DEF Done
<1> QED
  BY <1>2, <1>14, <1>17, <1>18, DoneKeeps

LEMMA AppKeeps ==
    ASSUME FragInv, KeepInv, NEW c \in handed, AppReceives(c)
    PROVE  KeepInv'
<1>1. /\ handed' = handed \ {c} /\ got' = got + 1
      /\ eventq' = [eventq EXCEPT !["dst"] = Append(@, About("delivered", c))]
      /\ UNCHANGED <<pending, store, armed, loading, reassembly, cache, bounds, lost>>
  BY DEF AppReceives
<1>2. /\ pending' = pending /\ store' = store /\ loading' = loading
      /\ cache' = cache /\ lost' = lost /\ late' = late
  BY <1>1 DEF bounds
<1>3. /\ eventq \in [Nodes -> Seq(Events)] /\ c \in Copies /\ "dst" \in Nodes /\ got \in Nat
      /\ NodeOK("dst")
  BY DEF FragInv, Types, KeepInv, Nodes
<1>4. PICK e : e = About("delivered", c)
  OBVIOUS
<1>5. e \in Notices /\ e \in Events /\ e.type = "delivered"
  BY <1>3, <1>4, MakeNotice, NoticeIs
<1>6. /\ eventq'["dst"] = Append(eventq["dst"], e)
      /\ \A m \in Nodes : m # "dst" => eventq'[m] = eventq[m]
  BY <1>1, <1>3, <1>4
<1>7. Live("dst")' \subseteq Live("dst")
  BY <1>1, <1>2 DEF Live, Loaded, ToDeliver
<1> DEFINE q == eventq["dst"]
           S == store["dst"]
           L == Live("dst")
<1>8. q \in Seq(Events) /\ KeptQueue(q, S, L) /\ L \subseteq S /\ (late \/ UrgentQueue(q, S))
  BY <1>3 DEF NodeOK
<1> HIDE DEF q, S, L
<1>9. ~Brings(e) /\ ~Urgent(e) /\ e.type # "transmitted" /\ e.type # "free"
  BY <1>5 DEF Brings, Urgent
<1>10. \A f \in Range(q) : /\ ~Clash(e, f) /\ ~Clash(f, e)
                           /\ f.type = "free" /\ e.type = "transmitted" => f.copy # e.copy
  BY <1>5, <1>9 DEF Clash
<1>11. /\ Append(q, e) \in Seq(Events) /\ Range(Append(q, e)) = Range(q) \cup {e}
       /\ KeptQueue(Append(q, e), S, L)
       /\ UrgentQueue(q, S) => UrgentQueue(Append(q, e), S)
  BY <1>5, <1>8, <1>9, <1>10, KeptAppend
<1>12. KeptQueue(Append(q, e), S, Live("dst")')
  BY <1>7, <1>11, KeptLess DEF L
<1>13. NodeOK("dst")'
  BY <1>2, <1>6, <1>7, <1>8, <1>11, <1>12 DEF NodeOK, q, S, L
<1>14. \A m \in Nodes : NodeOK(m)'
  <2> SUFFICES ASSUME NEW m \in Nodes, m # "dst" PROVE NodeOK(m)'
    BY <1>13
  <2>1. NodeOK(m)
    BY DEF KeepInv
  <2> QED
    BY <1>2, <1>6, <2>1, NodeStays
<1>15. ASSUME NEW m \in Nodes, NEW f \in Range(eventq'[m])
       PROVE  f \in Range(eventq[m]) \/ (Proper(m, f)' /\ f.type # "transmitted")
  <2>1. Proper(m, e)' /\ e.type # "transmitted"
    BY <1>5, Harmless
  <2>2. CASE m = "dst"
    <3>1. f \in Range(q) \/ f = e
      BY <1>6, <1>11, <1>15, <2>2 DEF q
    <3> QED
      BY <2>1, <2>2, <3>1 DEF q
  <2>3. CASE m # "dst"
    BY <1>6, <1>15, <2>3
  <2> QED
    BY <2>2, <2>3
<1>16. got' > 0
  BY <1>1, <1>3
<1>17. Done'
  BY <1>16 DEF Done
<1> QED
  BY <1>1, <1>2, <1>14, <1>15, <1>16, <1>17, DoneKeeps

\* The units of a node: those that it stored, and those of copies that came
\* from its peer or its application.
LEMMA WhereUnitsAre ==
    ASSUME Types, NEW n \in Nodes, NodeOK(n), ~late
    PROVE  Has(n) \subseteq Covered(store[n]) \cup Covered({e.copy : e \in Arriving(n)})
<1>1. Covered(Live(n)) \subseteq Covered(store[n])
  BY CoveredGrows DEF NodeOK
<1>2. eventq[n] \in Seq(Events)
  BY DEF Types
<1>3. UrgentQueue(eventq[n], store[n])
  BY DEF NodeOK
<1>4. ASSUME NEW e \in Range(eventq[n]), NEW d \in Comes(e)
      PROVE  Units(d) \subseteq Covered(store[n]) \cup Covered({f.copy : f \in Arriving(n)})
  <2>1. e \in Events
    BY <1>2, ElementsOf, RangeIs
  <2>2. CASE e.type = "received"
    <3>1. Units(d) \subseteq Units(e.copy)
      BY <1>4, <2>1, <2>2, ComesIs
    <3>2. e.source \in {"app", "peer", "tail", "reassembled"}
      BY <2>1, <2>2, EventIs, ReceptionIs
    <3>3. CASE e.source \in {"app", "peer"}
      <4>1. e \in Arriving(n)
        BY <2>2, <3>3 DEF Arriving
      <4>2. Units(e.copy) \subseteq Covered({f.copy : f \in Arriving(n)})
        BY <4>1 DEF Covered
      <4> QED
        BY <3>1, <4>2
    <3>4. CASE e.source \in {"tail", "reassembled"}
      <4>1. Units(e.copy) \subseteq Covered(store[n])
        BY <1>3, <2>2, <3>4 DEF UrgentQueue, Urgent
      <4> QED
        BY <3>1, <4>1
    <3> QED
      BY <3>2, <3>3, <3>4
  <2>3. CASE e.type = "completed"
    <3>1. d = e.copy
      BY <1>4, <2>3 DEF Comes
    <3> QED
      BY <1>3, <2>3, <3>1 DEF UrgentQueue, Urgent
  <2> QED
    BY <1>4, <2>2, <2>3 DEF Comes
<1>5. Covered(Brought(Range(eventq[n])))
         \subseteq Covered(store[n]) \cup Covered({e.copy : e \in Arriving(n)})
  <2> SUFFICES ASSUME NEW d \in Brought(Range(eventq[n]))
               PROVE  Units(d) \subseteq Covered(store[n]) \cup Covered({e.copy : e \in Arriving(n)})
    BY DEF Covered
  <2>1. PICK e \in Range(eventq[n]) : d \in Comes(e)
    BY DEF Brought
  <2> QED
    BY <1>4, <2>1
<1> QED
  BY <1>1, <1>5, HasIs

LEMMA CrashKeeps ==
    ASSUME FragInv, KeepInv, NEW n \in Nodes, Crash(n)
    PROVE  KeepInv'
<1>1. Types
  BY DEF FragInv
<1>2. /\ \A m \in Nodes : m # n => loading'[m] = loading[m] /\ eventq'[m] = eventq[m]
                                   /\ pending'[m] = pending[m]
      /\ {e.copy : e \in Range(loading'[n])} = store[n]
      /\ pending'[n] = {} /\ eventq'[n] = <<>> /\ store' = store
  BY <1>1, Crashing
<1>3. /\ got' = got /\ late' = late
      /\ lost' = lost \cup Covered({e.copy : e \in Arriving(n)})
  BY Zenon DEF Crash
<1>4. IF n = "dst" THEN /\ fragments' = <<>> /\ written' = {}
                        /\ handed' = {} /\ cache' = FALSE
                   ELSE UNCHANGED <<reassembly, handed, cache>>
  BY Zenon DEF Crash
<1>5. (n = "dst" => handed' = {} /\ cache' = FALSE)
      /\ (n # "dst" => handed' = handed /\ cache' = cache)
  BY <1>4
<1>6. Live(n)' = store[n]
  <2>1. Loaded(n)' = store[n]
    BY <1>2 DEF Loaded
  <2>2. ToDeliver(n)' = {}
    BY <1>5 DEF ToDeliver
  <2> QED
    BY <1>2, <2>1, <2>2 DEF Live
<1>7. NodeOK(n)'
  BY <1>2, <1>6, KeptEmpty DEF NodeOK
<1>8. \A m \in Nodes : m # n => NodeOK(m)' /\ Has(m)' = Has(m)
  <2> SUFFICES ASSUME NEW m \in Nodes, m # n PROVE NodeOK(m)' /\ Has(m)' = Has(m)
    OBVIOUS
  <2>1. NodeOK(m) /\ (m = "dst" => handed' = handed) /\ store'[m] = store[m]
    BY <1>2, <1>5 DEF KeepInv, Nodes
  <2> QED
    BY <1>2, <1>3, <2>1, NodeStays
<1>9. Moved(n)
  <2>1. CASE late
    BY <1>3, <2>1 DEF Moved, Done
  <2>2. CASE ~late
    <3>1. Has(n) \subseteq Covered(store[n]) \cup Covered({e.copy : e \in Arriving(n)})
      BY <1>1, <2>2, WhereUnitsAre DEF KeepInv
    <3>2. Covered(store[n]) \subseteq Covered(Live(n)' \cup Brought(Range(eventq'[n])))
      BY <1>6, CoveredGrows
    <3>3. Covered(store[n]) \subseteq Has(n)'
      BY <3>2 DEF Has
    <3> QED
      BY <1>3, <3>1, <3>3 DEF Moved
  <2> QED
    BY <2>1, <2>2
<1>10. \A m \in Nodes : NodeOK(m)' /\ Moved(m)
  BY <1>7, <1>8, <1>9 DEF Moved
<1>11. \A m \in Nodes : \A e \in Range(eventq'[m]) : m # n /\ e \in Range(eventq[m])
  <2>1. Range(eventq'[n]) = {}
    BY <1>2, CoveredNone
  <2> QED
    BY <1>2, <2>1
<1>12. Kinds'
  <2>1. Kinds /\ (Done => Done')
    BY <1>3 DEF KeepInv, Done
  <2>2. \A m \in Nodes : \A e \in Range(eventq'[m]) :
           e \in Range(eventq[m]) /\ (m = "dst" => handed \subseteq handed')
    BY <1>5, <1>11
  <2>3. cache' => cache /\ handed \subseteq handed'
    BY <1>5
  <2>4. \A c \in handed' : c \in handed
    BY <1>5
  <2> QED
    BY <1>3, <2>1, <2>2, <2>3, <2>4, KindsStay
<1>13. \A e \in Range(eventq'["src"]) : e.type = "transmitted" => e \in Range(eventq["src"])
  BY <1>11 DEF Nodes
<1> QED
  BY <1>3, <1>10, <1>12, <1>13, StepKeeps

LEMMA KeepStep == FragInv /\ KeepInv /\ FragInv' /\ [Next]_vars => KeepInv'
BY DaemonKeeps, CrashKeeps, TransmitKeeps, LifetimeKeeps, TimeoutKeeps, AppKeeps, StutterKeeps
DEF Next

LEMMA KeepInit == Init => KeepInv
<1> SUFFICES ASSUME Init PROVE KeepInv
  OBVIOUS
<1> DEFINE w == Whole(1)
           e == Received(w, Formatted(w), "app")
<1>1. /\ pending = [n \in Nodes |-> {}] /\ store = [n \in Nodes |-> {}]
      /\ loading = [n \in Nodes |-> <<>>]
      /\ eventq = [n \in Nodes |-> IF n = "src" THEN <<e>> ELSE <<>>]
      /\ handed = {} /\ cache = FALSE /\ got = 0 /\ late = FALSE
  BY DEF Init
<1>2. w \in Copies /\ w.whole
  BY MakeCopies
<1> HIDE DEF w
<1>3. Formatted(w) \in Nat
  BY <1>2, FormattedIs
<1>4. e \in Events /\ e.type = "received" /\ e.source = "app" /\ e.copy = w
  BY <1>2, <1>3, MakeReception, ReceptionIs
<1> HIDE DEF e
<1>5. /\ "src" \in Nodes /\ "dst" \in Nodes /\ Nodes = {"src", "dst"}
      /\ eventq["src"] = <<e>> /\ eventq["dst"] = <<>>
  BY <1>1 DEF Nodes
<1>6. Range(eventq["src"]) = {e} /\ Range(eventq["dst"]) = {}
  BY <1>5, CoveredNone, ElementsOfOne, RangeIs
<1>7. \A n \in Nodes : Live(n) = {} /\ store[n] = {}
  BY <1>1, CoveredNone DEF Live, Loaded, ToDeliver
<1>8. NodeOK("dst")
  BY <1>5, <1>7, KeptEmpty DEF NodeOK
<1>9. NodeOK("src")
  <2>1. KeptQueue(<<e>>, store["src"], Live("src"))
    BY <1>4, <1>5, <1>7, KeptOne
  <2>2. UrgentQueue(<<e>>, store["src"])
    <3>1. ~Urgent(e)
      BY <1>4 DEF Urgent
    <3>2. \A f \in Range(<<e>>) : ~Urgent(f)
      BY <1>5, <1>6, <3>1
    <3>3. \A i \in 1..Len(<<e>>) : <<e>>[i] \in Range(<<e>>)
      BY DEF Range
    <3> QED
      BY <3>2, <3>3 DEF UrgentQueue
  <2> QED
    BY <1>5, <1>7, <2>1, <2>2 DEF NodeOK
<1>10. Kinds
  <2>1. ASSUME NEW n \in Nodes, NEW f \in Range(eventq[n]) PROVE Proper(n, f)
    BY <1>4, <1>5, <1>6, <2>1 DEF Proper
  <2> QED
    BY <1>1, <2>1 DEF Kinds
<1>11. Reported
  BY <1>4, <1>6 DEF Reported
<1>12. Everywhere
  <2>1. w \in Brought(Range(eventq["src"]))
    BY <1>4, <1>6 DEF Brought, Comes
  <2>2. Units(w) \subseteq Has("src")
    BY <2>1 DEF Has, Covered
  <2>3. Units(w) = AllUnits
    BY <1>2, UnitsAre
  <2> QED
    BY <2>2, <2>3 DEF Everywhere
<1> QED
  BY <1>5, <1>8, <1>9, <1>10, <1>11, <1>12 DEF KeepInv

\* Every unit of the payload stays in one of the two data stores, or on its way
\* into one, until the application has the bundle, whatever breaks and whichever
\* daemon restarts: each handler removes a copy only after those that replace it
\* were stored (post_at_head before BundleFreeEvent), and the peer acknowledged
\* what the source gives up.  What a crash finds received and not yet stored is
\* lost, and what close_contact does not hand over.
THEOREM UnitsAreKept == Spec => []BytesKept
<1>1. Init => FragInv /\ KeepInv
  BY FragInit, KeepInit
<1>2. (FragInv /\ KeepInv) /\ [Next]_vars => (FragInv /\ KeepInv)'
  BY FragStep, KeepStep
<1>3. FragInv /\ KeepInv => BytesKept
  <2> SUFFICES ASSUME FragInv, KeepInv, ~late, ~(got > 0) PROVE BytesKept
    BY DEF BytesKept
  <2> DEFINE A(n) == {e.copy : e \in Arriving(n)}
  <2>1. AllUnits \subseteq lost \cup Has("src") \cup Has("dst")
    BY DEF KeepInv, Everywhere, Done
  <2>2. /\ Has("src") \subseteq Covered(store["src"]) \cup Covered(A("src"))
        /\ Has("dst") \subseteq Covered(store["dst"]) \cup Covered(A("dst"))
    BY WhereUnitsAre DEF FragInv, KeepInv, Nodes
  <2>3. AllUnits \subseteq lost \cup
           Covered(store["src"] \cup store["dst"]
                     \cup {e.copy : e \in Arriving("src") \cup Arriving("dst")})
    <3> DEFINE C == store["src"] \cup store["dst"]
                      \cup {e.copy : e \in Arriving("src") \cup Arriving("dst")}
    <3>1. /\ store["src"] \subseteq C /\ store["dst"] \subseteq C
          /\ A("src") \subseteq C /\ A("dst") \subseteq C
      OBVIOUS
    <3> HIDE DEF C, A
    <3>2. /\ Covered(store["src"]) \subseteq Covered(C) /\ Covered(store["dst"]) \subseteq Covered(C)
          /\ Covered(A("src")) \subseteq Covered(C) /\ Covered(A("dst")) \subseteq Covered(C)
      BY <3>1, CoveredGrows
    <3>3. AllUnits \subseteq lost \cup Covered(C)
      BY <2>1, <2>2, <3>2
    <3> QED
      BY <3>3 DEF C
  <2> QED
    BY <2>3 DEF BytesKept
<1> QED
  BY <1>1, <1>2, <1>3, PTL DEF Spec

-----------------------------------------------------------------------------
(* How often the application gets the bundle.                              *)

DeliveryTypes ==
    /\ got \in Nat /\ crashes \in Nat /\ cache \in BOOLEAN
    /\ IsFiniteSet(handed)

\* A life of the daemon hands the bundle over once: it is on the bundle list of
\* the registration, or was taken from there, only if the cache has it.  A crash
\* may find the one of the life that ends taken already.
DeliveredOnce == got + Cardinality(handed) <= crashes + (IF cache THEN 1 ELSE 0)

IInv == DeliveryTypes /\ DeliveredOnce

\* The handlers of the daemon hand over a copy only in deliver_if_not_duplicate.
LEMMA DaemonDelivers ==
    ASSUME NEW n \in Nodes, Daemon(n)
    PROVE  /\ UNCHANGED <<got, crashes>>
           /\ \/ UNCHANGED <<handed, cache>>
              \/ \E c : ~cache /\ cache' = TRUE /\ handed' = handed \cup {c}
<1>1. CASE HandleReceived(n)
  <2>1. ASSUME NEW c, Accept(n, c) \/ Reassemble(n, c)
        PROVE  UNCHANGED delivery
    BY <2>1 DEF Accept, Reassemble
  <2>2. ASSUME NEW c, DeliverWhole(n, c)
        PROVE  /\ UNCHANGED got
               /\ \/ UNCHANGED <<handed, cache>>
                  \/ ~cache /\ cache' = TRUE /\ handed' = handed \cup {c}
    BY <2>2 DEF DeliverWhole, Suppressed
  <2>3. UNCHANGED crashes
    BY <1>1 DEF HandleReceived, bounds
  <2>4. \/ Ignore(n)
        \/ \E c : Accept(n, c) \/ DeliverWhole(n, c) \/ Reassemble(n, c)
    BY <1>1 DEF HandleReceived
  <2> QED
    BY <2>1, <2>2, <2>3, <2>4 DEF Ignore, delivery
<1>2. CASE ~HandleReceived(n)
  BY <1>2
  DEF Daemon, HandleTransmitted, HandleCompleted, HandleDelete, HandleDelivered, HandleFree,
      Ignore, delivery, bounds
<1> QED
  BY <1>1, <1>2

LEMMA NextDelivers == IInv /\ [Next]_vars => IInv'
<1> SUFFICES ASSUME IInv, [Next]_vars PROVE IInv'
  OBVIOUS
<1>1. Cardinality(handed) \in Nat
  BY FS_CardinalityType DEF IInv, DeliveryTypes
<1>2. ASSUME UNCHANGED <<got, handed, cache, crashes>> PROVE IInv'
  BY <1>2 DEF IInv, DeliveryTypes, DeliveredOnce
<1>3. ASSUME NEW c, ~cache, cache' = TRUE, handed' = handed \cup {c}, UNCHANGED <<got, crashes>>
      PROVE  IInv'
  <2>1. /\ IsFiniteSet(handed')
        /\ Cardinality(handed') \in {Cardinality(handed), Cardinality(handed) + 1}
    BY <1>3, FS_AddElement DEF IInv, DeliveryTypes
  <2> QED
    BY <1>1, <1>3, <2>1 DEF IInv, DeliveryTypes, DeliveredOnce
<1>4. ASSUME NEW c \in handed, AppReceives(c) PROVE IInv'
  <2>1. IsFiniteSet(handed') /\ Cardinality(handed') = Cardinality(handed) - 1
    BY <1>4, FS_RemoveElement DEF AppReceives, IInv, DeliveryTypes
  <2>2. got' = got + 1 /\ UNCHANGED <<cache, crashes>>
    BY <1>4 DEF AppReceives, bounds
  <2> QED
    BY <1>1, <2>1, <2>2 DEF IInv, DeliveryTypes, DeliveredOnce
<1>5. ASSUME NEW n \in Nodes, Crash(n) PROVE IInv'
  <2>0. crashes' = crashes + 1 /\ UNCHANGED got
    BY <1>5, Zenon DEF Crash
  <2>4. IF n = "dst" THEN /\ fragments' = <<>> /\ written' = {}
                        /\ handed' = {} /\ cache' = FALSE
                   ELSE UNCHANGED <<reassembly, handed, cache>>
    BY <1>5, Zenon DEF Crash
  <2>1. /\ crashes' = crashes + 1 /\ UNCHANGED got
        /\ UNCHANGED <<handed, cache>> \/ (handed' = {} /\ cache' = FALSE)
    BY <2>0, <2>4
  <2>2. CASE UNCHANGED <<handed, cache>>
    BY <1>1, <2>1, <2>2 DEF IInv, DeliveryTypes, DeliveredOnce
  <2>3. CASE handed' = {} /\ cache' = FALSE
    <3>1. IsFiniteSet(handed') /\ Cardinality(handed') = 0
      BY <2>3, FS_EmptySet
    <3>2. got' \in Nat /\ crashes' \in Nat
      BY <2>1 DEF IInv, DeliveryTypes
    <3>5. DeliveryTypes'
      BY <2>3, <3>1, <3>2, Zenon DEF DeliveryTypes
    <3>3. got <= crashes + 1
      BY <1>1 DEF IInv, DeliveryTypes, DeliveredOnce
    <3>4. got' + Cardinality(handed') <= crashes' + 0
      BY <2>1, <3>1, <3>3 DEF IInv, DeliveryTypes
    <3> QED
      BY <2>3, <3>4, <3>5 DEF IInv, DeliveredOnce
  <2> QED
    BY <2>1, <2>2, <2>3
<1>6. ASSUME NEW n \in Nodes, Daemon(n) PROVE IInv'
  BY <1>2, <1>3, <1>6, DaemonDelivers
<1>7. ASSUME NEW c, Transmit(c) PROVE IInv'
  <2>1. UNCHANGED <<pending, store, armed, loading, reassembly, delivery, late, crashes>>
    BY <1>7, Zenon DEF Transmit
  <2> QED
    BY <1>2, <2>1 DEF delivery
<1>8. CASE \/ LifetimeEnds
           \/ \E n \in Nodes : \E c \in armed[n] : ExpirationTimeout(n, c)
           \/ UNCHANGED vars
  BY <1>2, <1>8 DEF LifetimeEnds, ExpirationTimeout, delivery, bounds, vars
<1> QED
  BY <1>4, <1>5, <1>6, <1>7, <1>8 DEF Next

\* Whole, in fragments and again after a lost acknowledgement: in every life of
\* its daemon the application gets the bundle at most once, however long it is,
\* however often a transmission breaks and whatever crashes.
THEOREM DeliveredOncePerLife == Spec => []OncePerLife
<1>1. Init => IInv
  <2> SUFFICES ASSUME Init PROVE IInv
    OBVIOUS
  <2>1. handed = {} /\ cache = FALSE /\ got = 0 /\ crashes = 0
    BY DEF Init
  <2>2. IsFiniteSet(handed) /\ Cardinality(handed) = 0
    BY <2>1, FS_EmptySet
  <2> QED
    <3>1. got \in Nat /\ crashes \in Nat /\ got + Cardinality(handed) <= crashes + 0
      BY <2>1, <2>2
    <3>2. DeliveryTypes
      BY <2>1, <2>2, <3>1, Zenon DEF DeliveryTypes
    <3> QED
      BY <2>1, <3>1, <3>2 DEF IInv, DeliveredOnce
<1>2. IInv => OncePerLife
  <2> SUFFICES ASSUME IInv PROVE OncePerLife
    OBVIOUS
  <2>1. Cardinality(handed) \in Nat
    BY FS_CardinalityType DEF IInv, DeliveryTypes
  <2> QED
    BY <2>1 DEF IInv, DeliveryTypes, DeliveredOnce, OncePerLife
<1> QED
  BY <1>1, <1>2, NextDelivers, PTL DEF Spec
=============================================================================
