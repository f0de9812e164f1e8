---------------------------- MODULE ScreensProofs ----------------------------
(***************************************************************************)
(* Proofs about the screens that MCScreens runs, for every value of their  *)
(* constants: the blocks of a day side by side, the layers that Escape     *)
(* closes, places with their searches and saved filters, a card that is    *)
(* dragged about, and the pages of the calendar.                           *)
(***************************************************************************)
EXTENDS MCScreens, SequenceTheorems, FiniteSetTheorems, WellFoundedInduction, TLAPS

-----------------------------------------------------------------------------
(* The lanes of a day: what is still to come begins where or after what is *)
(* there, so a block meets those of its cluster and no other.              *)

Span(b)     == b.start + 30 <= b.end
Overlap(b, c) == b.start < c.end /\ c.start < b.end
RowType     == [start : Nat, end : Nat]
ItemType    == [start : Nat, end : Nat, lane : Nat]
BlockType   == [start : Nat, end : Nat, lane : Nat, lanes : Nat]

LaneTypes ==
  /\ rows \in Seq(RowType) /\ cluster \in Seq(ItemType) /\ placed \in Seq(BlockType)
  /\ clusterEnd \in Int /\ (cluster = <<>> => clusterEnd = -1)
  /\ \A i \in 1 .. Len(rows) : Span(rows[i])
  /\ \A i \in 1 .. Len(cluster) : Span(cluster[i]) /\ cluster[i].lane < Len(cluster)
  /\ \A i \in 1 .. Len(placed) : Span(placed[i])

\* What is still to come begins no earlier than what is there, and what is placed has ended.
InOrder ==
  /\ \A i \in 1 .. Len(rows) - 1 : rows[i].start <= rows[i + 1].start
  /\ rows # <<>> => /\ \A i \in 1 .. Len(cluster) : cluster[i].start <= rows[1].start
                    /\ \A i \in 1 .. Len(placed) : placed[i].end <= rows[1].start
  /\ \A i \in 1 .. Len(placed), j \in 1 .. Len(cluster) : placed[i].end <= cluster[j].start

\* The blocks of a cluster hang together, and those that overlap have lanes of their own.
ClusterSound ==
  /\ \A i \in 1 .. Len(cluster) : cluster[i].end <= clusterEnd
  /\ cluster # <<>> => \E i \in 1 .. Len(cluster) : cluster[i].end = clusterEnd
  /\ \A i, j \in 1 .. Len(cluster) :
       i # j /\ Overlap(cluster[i], cluster[j]) => cluster[i].lane # cluster[j].lane
  /\ Len(cluster) = 1 => cluster[1].lane = 0
  /\ Len(cluster) > 1 =>
       \A i \in 1 .. Len(cluster) : \E j \in 1 .. Len(cluster) : j # i /\ Overlap(cluster[i], cluster[j])

LaneInv == LaneTypes /\ InOrder /\ ClusterSound /\ Lane!NoneCovered

\* Of some numbers below a bound one is the greatest.
LEMMA Greatest ==
  ASSUME NEW S \in SUBSET Nat, S # {}, NEW b \in Nat, \A x \in S : x <= b
  PROVE  Lane!Max(S) \in S /\ \A x \in S : x <= Lane!Max(S)
<1> DEFINE Gaps == {b - x : x \in S}
<1>1. Gaps \subseteq Nat /\ Gaps # {}
  <2>1. \A x \in S : b - x \in Nat
    OBVIOUS
  <2>2. PICK x : x \in S
    OBVIOUS
  <2>3. b - x \in Gaps
    BY <2>2
  <2> QED BY <2>1, <2>3
<1>2. PICK g \in Gaps : \A e \in Gaps : ~(<<e, g>> \in OpToRel(<, Nat))
  BY <1>1, WFMin, NatLessThanWellFounded
<1>3. \A e \in Gaps : ~(e < g)
  BY <1>1, <1>2 DEF OpToRel
<1>4. PICK m \in S : g = b - m
  BY <1>2
<1>5. ASSUME NEW x \in S PROVE m >= x
  <2>1. b - x \in Gaps
    OBVIOUS
  <2>2. ~(b - x < b - m)
    BY <1>3, <1>4, <2>1
  <2>3. x \in Nat /\ m \in Nat
    OBVIOUS
  <2> QED BY <2>2, <2>3
<1>6. Lane!Max(S) \in S /\ \A x \in S : Lane!Max(S) >= x
  BY <1>5 DEF Lane!Max
<1>7. Lane!Max(S) \in Nat
  BY <1>6
<1> QED BY <1>6, <1>7

\* The first of the numbers that are not taken.
LEMMA FirstOf ==
  ASSUME NEW taken, NEW n \in Nat, \E l \in 0 .. n : l \notin taken
  PROVE  \E l \in 0 .. n : l \notin taken /\ \A m \in 0 .. l - 1 : m \in taken
<1> DEFINE Free == {l \in 0 .. n : l \notin taken}
<1>1. Free \subseteq Nat /\ Free # {}
  OBVIOUS
<1>2. PICK l \in Free : \A m \in Free : ~(<<m, l>> \in OpToRel(<, Nat))
  BY <1>1, WFMin, NatLessThanWellFounded
<1>3. \A m \in Free : ~(m < l)
  BY <1>1, <1>2 DEF OpToRel
<1>4. l \in 0 .. n /\ l \notin taken
  BY <1>2
<1>5. ASSUME NEW m \in 0 .. l - 1 PROVE m \in taken
  <2>1. m \in 0 .. n /\ m < l
    BY <1>4
  <2> QED BY <1>3, <2>1
<1> QED BY <1>4, <1>5

\* Among one lane more than there are blocks one is free.
LEMMA FreeLane ==
  ASSUME NEW c \in Seq(ItemType), NEW r
  PROVE  /\ Lane!FirstFree(c, r) \in 0 .. Len(c)
         /\ \A i \in 1 .. Len(c) : c[i].end > r.start => c[i].lane # Lane!FirstFree(c, r)
<1> DEFINE running == {j \in DOMAIN c : c[j].end > r.start}
           taken   == {c[i].lane : i \in running}
           n       == Len(c)
           who     == [l \in 0 .. n |-> CHOOSE i \in 1 .. n : c[i].lane = l]
<1>1. n \in Nat /\ DOMAIN c = 1 .. n
  OBVIOUS
<1>2. \E l \in 0 .. n : l \notin taken
  <2> SUFFICES ASSUME \A l \in 0 .. n : l \in taken PROVE FALSE
    OBVIOUS
  <2>1. \A l \in 0 .. n : \E i \in 1 .. n : c[i].lane = l
    BY <1>1
  <2>2. who \in [0 .. n -> 1 .. n] /\ \A l \in 0 .. n : c[who[l]].lane = l
    BY <2>1
  <2>3. /\ IsFiniteSet(0 .. n) /\ Cardinality(0 .. n) = n + 1
        /\ IsFiniteSet(1 .. n) /\ Cardinality(1 .. n) = n
    <3> HIDE DEF n
    <3>1. IsFiniteSet(1 .. n) /\ Cardinality(1 .. n) = IF 1 > n THEN 0 ELSE n - 1 + 1
      BY <1>1, FS_Interval
    <3>2. 0 .. n = (1 .. n) \cup {0} /\ 0 \notin 1 .. n
      BY <1>1
    <3>3. IsFiniteSet(0 .. n) /\ Cardinality(0 .. n) = Cardinality(1 .. n) + 1
      BY <3>1, <3>2, FS_AddElement
    <3> QED BY <1>1, <3>1, <3>3
  <2>4. Cardinality(1 .. n) < Cardinality(0 .. n)
    BY <1>1, <2>3
  <2> HIDE DEF n, who, taken, running
  <2>5. \E l, m \in 0 .. n : l # m /\ who[l] = who[m]
    BY <2>2, <2>3, <2>4, FS_PigeonHole
  <2> QED BY <2>2, <2>5
<1>3. \E l \in 0 .. n : l \notin taken /\ \A m \in 0 .. l - 1 : m \in taken
  <2> HIDE DEF n, taken
  <2> QED BY <1>1, <1>2, FirstOf
<1>4. Lane!FirstFree(c, r) = CHOOSE l \in 0 .. n : l \notin taken /\ \A m \in 0 .. l - 1 : m \in taken
  BY DEF Lane!FirstFree
<1>5. Lane!FirstFree(c, r) \in 0 .. n /\ Lane!FirstFree(c, r) \notin taken
  <2> HIDE DEF n, taken
  <2> QED BY <1>3, <1>4
<1> QED BY <1>1, <1>5

\* Two lanes of one width lie beside each other.
LEMMA LanesBeside ==
  ASSUME NEW l \in Nat, NEW m \in Nat, l # m, NEW n \in Nat
  PROVE  (l + 1) * n <= m * n \/ (m + 1) * n <= l * n
<1>1. CASE l < m
  <2>1. PICK k \in Nat : m = (l + 1) + k
    <3>1. m - (l + 1) \in Nat /\ m = (l + 1) + (m - (l + 1))
      BY <1>1
    <3> QED BY <3>1
  <2>2. m * n = (l + 1) * n + k * n /\ k * n \in Nat /\ (l + 1) * n \in Nat
    BY <2>1
  <2> QED BY <2>2
<1>2. CASE m < l
  <2>1. PICK k \in Nat : l = (m + 1) + k
    <3>1. l - (m + 1) \in Nat /\ l = (m + 1) + (l - (m + 1))
      BY <1>2
    <3> QED BY <3>1
  <2>2. l * n = (m + 1) * n + k * n /\ k * n \in Nat /\ (m + 1) * n \in Nat
    BY <2>1
  <2> QED BY <2>2
<1> QED BY <1>1, <1>2
\* What is laid out of a cluster, block by block.
LEMMA FlushedIs ==
  ASSUME LaneTypes, cluster # <<>>
  PROVE  /\ Lane!Flushed \in Seq(BlockType) /\ Len(Lane!Flushed) = Len(placed) + Len(cluster)
         /\ \A i \in 1 .. Len(placed) : Lane!Flushed[i] = placed[i]
         /\ \A i \in 1 .. Len(cluster) :
              Lane!Flushed[Len(placed) + i] =
                [start |-> cluster[i].start, end |-> cluster[i].end, lane |-> cluster[i].lane,
                 lanes |-> Lane!Lanes(cluster)]
         /\ Lane!Lanes(cluster) \in Nat /\ \A i \in 1 .. Len(cluster) : cluster[i].lane < Lane!Lanes(cluster)
         /\ \E i \in 1 .. Len(cluster) : Lane!Lanes(cluster) = cluster[i].lane + 1
<1> DEFINE S == {cluster[i].lane : i \in DOMAIN cluster}
           L == Lane!Lanes(cluster)
           t == [i \in DOMAIN cluster |->
                  [start |-> cluster[i].start, end |-> cluster[i].end, lane |-> cluster[i].lane, lanes |-> L]]
<1>1. /\ cluster \in Seq(ItemType) /\ placed \in Seq(BlockType) /\ Len(cluster) \in Nat /\ Len(placed) \in Nat
      /\ DOMAIN cluster = 1 .. Len(cluster) /\ Len(cluster) > 0
      /\ \A i \in 1 .. Len(cluster) : cluster[i] \in ItemType /\ cluster[i].lane < Len(cluster)
  BY DEF LaneTypes
<1>2. S \in SUBSET Nat /\ S # {} /\ \A x \in S : x <= Len(cluster)
  <2>1. \A i \in 1 .. Len(cluster) : cluster[i].lane \in Nat
    BY <1>1 DEF ItemType
  <2>2. 1 \in 1 .. Len(cluster)
    BY <1>1
  <2> QED BY <1>1, <2>1, <2>2
<1>3. Lane!Max(S) \in S /\ \A x \in S : x <= Lane!Max(S)
  <2> HIDE DEF S
  <2> QED BY <1>1, <1>2, Greatest
<1>4. L = Lane!Max(S) + 1
  BY DEF Lane!Lanes
<1>5. /\ L \in Nat /\ \A i \in 1 .. Len(cluster) : cluster[i].lane < L
      /\ \E i \in 1 .. Len(cluster) : L = cluster[i].lane + 1
  <2>1. \A i \in 1 .. Len(cluster) : cluster[i].lane \in S
    BY <1>1
  <2>2. Lane!Max(S) \in Nat
    BY <1>2, <1>3
  <2>3. \A i \in 1 .. Len(cluster) : cluster[i].lane \in Nat /\ cluster[i].lane <= Lane!Max(S)
    BY <1>2, <1>3, <2>1
  <2>4. PICK i \in 1 .. Len(cluster) : Lane!Max(S) = cluster[i].lane
    BY <1>1, <1>3
  <2> HIDE DEF S, L
  <2> QED BY <1>4, <2>2, <2>3, <2>4
<1> HIDE DEF L
<1>6. t \in Seq(BlockType) /\ Len(t) = Len(cluster)
  <2>1. \A i \in DOMAIN cluster : t[i] \in BlockType
    BY <1>1, <1>5 DEF ItemType, BlockType
  <2> QED BY <1>1, <2>1
<1>7. Lane!Flushed = placed \o t
  BY DEF Lane!Flushed, L
<1>8. \A i \in 1 .. Len(cluster) :
        t[i] = [start |-> cluster[i].start, end |-> cluster[i].end, lane |-> cluster[i].lane, lanes |-> L]
  BY <1>1
<1> HIDE DEF t
<1>9. /\ placed \o t \in Seq(BlockType) /\ Len(placed \o t) = Len(placed) + Len(cluster)
      /\ \A i \in 1 .. Len(placed) : (placed \o t)[i] = placed[i]
      /\ \A i \in 1 .. Len(cluster) : (placed \o t)[Len(placed) + i] = t[i]
  <2>1. placed \o t \in Seq(BlockType) /\ Len(placed \o t) = Len(placed) + Len(cluster)
    BY <1>1, <1>6
  <2>2. \A i \in 1 .. Len(placed) : (placed \o t)[i] = placed[i]
    BY <1>1, <1>6
  <2>3. ASSUME NEW i \in 1 .. Len(cluster) PROVE (placed \o t)[Len(placed) + i] = t[i]
    <3>1. Len(placed) + i \in 1 .. Len(placed) + Len(t) /\ Len(placed) + i > Len(placed)
          /\ (Len(placed) + i) - Len(placed) = i
      BY <1>1, <1>6
    <3> QED BY <1>1, <1>6, <3>1
  <2> QED BY <2>1, <2>2, <2>3
<1> QED BY <1>5, <1>7, <1>8, <1>9 DEF L


\* NoneCovered of any sequence of blocks.
CoversNone(s) ==
  \A i \in 1 .. Len(s) :
    /\ s[i].lane < s[i].lanes /\ Span(s[i])
    /\ \A j \in 1 .. Len(s) : j # i /\ Overlap(s[i], s[j]) => Lane!Beside(s[i], s[j])
    /\ (\A j \in 1 .. Len(s) : j # i => ~Overlap(s[i], s[j])) => s[i].lanes = 1

LEMMA CoversIs ==
  ASSUME NEW s \in Seq(BlockType), \A i \in 1 .. Len(s) : Span(s[i])
  PROVE  CoversNone(s) <=>
           \A i \in DOMAIN s :
             /\ s[i].lane < s[i].lanes
             /\ \A j \in DOMAIN s \ {i} : Lane!Meet(s[i], s[j]) => Lane!Beside(s[i], s[j])
             /\ (\A j \in DOMAIN s \ {i} : ~Lane!Meet(s[i], s[j])) => s[i].lanes = 1
<1>1. DOMAIN s = 1 .. Len(s) /\ \A i \in 1 .. Len(s) : s[i].start \in Nat /\ s[i].end \in Nat /\ Span(s[i])
  <2>1. \A i \in 1 .. Len(s) : s[i] \in BlockType
    OBVIOUS
  <2>2. \A b \in BlockType : b.start \in Nat /\ b.end \in Nat
    BY DEF BlockType
  <2> QED BY <2>1, <2>2
<1>2. \A i \in 1 .. Len(s) : Lane!DrawnEnd(s[i]) = s[i].end
  BY <1>1 DEF Span, Lane!DrawnEnd
<1>3. \A i, j \in 1 .. Len(s) : Lane!Meet(s[i], s[j]) <=> Overlap(s[i], s[j])
  BY <1>2 DEF Lane!Meet, Overlap
<1> QED BY <1>1, <1>3 DEF CoversNone

LEMMA FlushedCoversNone ==
  ASSUME LaneInv, cluster # <<>>
  PROVE  CoversNone(Lane!Flushed)
<1> DEFINE s == Lane!Flushed
           m == Len(placed)
           n == Len(cluster)
           L == Lane!Lanes(cluster)
<1>1. /\ m \in Nat /\ n \in Nat /\ n > 0 /\ s \in Seq(BlockType) /\ Len(s) = m + n
      /\ \A i \in 1 .. m : s[i] = placed[i] /\ placed[i] \in BlockType /\ Span(placed[i])
      /\ \A i \in 1 .. n : /\ s[m + i] = [start |-> cluster[i].start, end |-> cluster[i].end,
                                          lane |-> cluster[i].lane, lanes |-> L]
                           /\ cluster[i] \in ItemType /\ Span(cluster[i])
  <2>1. placed \in Seq(BlockType) /\ cluster \in Seq(ItemType)
    BY DEF LaneInv, LaneTypes
  <2> QED BY <2>1, FlushedIs DEF LaneInv, LaneTypes
<1>2. L \in Nat /\ (\A i \in 1 .. n : cluster[i].lane < L) /\ \E i \in 1 .. n : L = cluster[i].lane + 1
  BY FlushedIs DEF LaneInv
<1>3. CoversNone(placed)
  BY CoversIs DEF LaneInv, LaneTypes, Lane!NoneCovered
<1>4. /\ \A i, j \in 1 .. n : i # j /\ Overlap(cluster[i], cluster[j]) => cluster[i].lane # cluster[j].lane
      /\ n = 1 => cluster[1].lane = 0
      /\ n > 1 => \A i \in 1 .. n : \E j \in 1 .. n : j # i /\ Overlap(cluster[i], cluster[j])
      /\ \A i \in 1 .. m, j \in 1 .. n : placed[i].end <= cluster[j].start
  BY DEF LaneInv, ClusterSound, InOrder
<1> HIDE DEF s, m, n, L
<1>5. ASSUME NEW i \in 1 .. m + n PROVE i \in 1 .. m \/ \E k \in 1 .. n : i = m + k
  <2>1. CASE i > m
    <3>1. i - m \in 1 .. n /\ i = m + (i - m)
      BY <1>1, <2>1
    <3> QED BY <3>1
  <2> QED BY <1>1, <2>1
<1>6. ASSUME NEW i \in 1 .. n
      PROVE  /\ m + i \in 1 .. m + n /\ m + i > m
             /\ s[m + i].start = cluster[i].start /\ s[m + i].end = cluster[i].end
             /\ s[m + i].lane = cluster[i].lane /\ s[m + i].lanes = L
             /\ s[m + i].start \in Nat /\ s[m + i].end \in Nat /\ s[m + i].lane \in Nat /\ Span(s[m + i])
  <2>1. m + i \in 1 .. m + n /\ m + i > m
    BY <1>1
  <2>2. cluster[i].start \in Nat /\ cluster[i].end \in Nat /\ cluster[i].lane \in Nat
    <3>1. \A c \in ItemType : c.start \in Nat /\ c.end \in Nat /\ c.lane \in Nat
      BY DEF ItemType
    <3> QED BY <1>1, <3>1
  <2>3. /\ s[m + i].start = cluster[i].start /\ s[m + i].end = cluster[i].end
        /\ s[m + i].lane = cluster[i].lane /\ s[m + i].lanes = L
    <3>1. s[m + i] = [start |-> cluster[i].start, end |-> cluster[i].end, lane |-> cluster[i].lane, lanes |-> L]
      BY <1>1, Zenon
    <3> QED BY <3>1
  <2>4. Span(s[m + i])
    BY <1>1, <2>3 DEF Span
  <2> QED BY <2>1, <2>2, <2>3, <2>4
<1>7. \A i \in 1 .. m : /\ i \in 1 .. m + n /\ s[i] = placed[i] /\ Span(s[i])
                        /\ s[i].start \in Nat /\ s[i].end \in Nat
  <2>1. \A b \in BlockType : b.start \in Nat /\ b.end \in Nat
    BY DEF BlockType
  <2>2. \A i \in 1 .. m : i \in 1 .. m + n
    BY <1>1
  <2> QED BY <1>1, <2>1, <2>2
\* What was placed and what is laid out now do not overlap.
<1>8. \A i \in 1 .. m, k \in 1 .. n : ~Overlap(s[i], s[m + k]) /\ ~Overlap(s[m + k], s[i])
  <2> SUFFICES ASSUME NEW i \in 1 .. m, NEW k \in 1 .. n
               PROVE  ~Overlap(s[i], s[m + k]) /\ ~Overlap(s[m + k], s[i])
    OBVIOUS
  <2>1. s[i].end <= s[m + k].start
    BY <1>4, <1>6, <1>7
  <2> QED BY <1>6, <1>7, <2>1 DEF Overlap
<1>9. ASSUME NEW i \in 1 .. m
      PROVE  /\ s[i].lane < s[i].lanes /\ Span(s[i])
             /\ \A j \in 1 .. m + n : j # i /\ Overlap(s[i], s[j]) => Lane!Beside(s[i], s[j])
             /\ (\A j \in 1 .. m + n : j # i => ~Overlap(s[i], s[j])) => s[i].lanes = 1
  <2>1. /\ placed[i].lane < placed[i].lanes
        /\ \A j \in 1 .. m : j # i /\ Overlap(placed[i], placed[j]) => Lane!Beside(placed[i], placed[j])
        /\ (\A j \in 1 .. m : j # i => ~Overlap(placed[i], placed[j])) => placed[i].lanes = 1
    BY <1>3 DEF CoversNone, m
  <2>2. \A j \in 1 .. m + n : j # i /\ Overlap(s[i], s[j]) => Lane!Beside(s[i], s[j])
    BY <1>5, <1>7, <1>8, <2>1
  <2>3. (\A j \in 1 .. m + n : j # i => ~Overlap(s[i], s[j])) => s[i].lanes = 1
    BY <1>7, <2>1
  <2> QED BY <1>7, <2>1, <2>2, <2>3
<1>10. ASSUME NEW k \in 1 .. n
       PROVE  /\ s[m + k].lane < s[m + k].lanes /\ Span(s[m + k])
              /\ \A j \in 1 .. m + n : j # m + k /\ Overlap(s[m + k], s[j]) => Lane!Beside(s[m + k], s[j])
              /\ (\A j \in 1 .. m + n : j # m + k => ~Overlap(s[m + k], s[j])) => s[m + k].lanes = 1
  <2>1. s[m + k].lane < s[m + k].lanes /\ Span(s[m + k])
    BY <1>2, <1>6
  <2>2. ASSUME NEW j \in 1 .. n, m + j # m + k, Overlap(s[m + k], s[m + j])
        PROVE  Lane!Beside(s[m + k], s[m + j])
    <3>1. j # k /\ Overlap(cluster[k], cluster[j])
      BY <1>6, <2>2 DEF Overlap
    <3>2. cluster[k].lane # cluster[j].lane /\ cluster[k].lane \in Nat /\ cluster[j].lane \in Nat
      BY <1>4, <1>6, <3>1
    <3>3. \/ (cluster[k].lane + 1) * L <= cluster[j].lane * L
          \/ (cluster[j].lane + 1) * L <= cluster[k].lane * L
      BY <1>2, <3>2, LanesBeside
    <3> QED BY <1>6, <3>3 DEF Lane!Beside
  <2>3. \A j \in 1 .. m + n : j # m + k /\ Overlap(s[m + k], s[j]) => Lane!Beside(s[m + k], s[j])
    BY <1>5, <1>8, <2>2
  <2>4. ASSUME \A j \in 1 .. m + n : j # m + k => ~Overlap(s[m + k], s[j])
        PROVE  s[m + k].lanes = 1
    <3>1. ~(n > 1)
      <4> SUFFICES ASSUME n > 1 PROVE FALSE
        OBVIOUS
      <4>1. PICK j \in 1 .. n : j # k /\ Overlap(cluster[k], cluster[j])
        BY <1>4
      <4>2. m + j \in 1 .. m + n /\ m + j # m + k /\ Overlap(s[m + k], s[m + j])
        BY <1>1, <1>6, <4>1 DEF Overlap
      <4> QED BY <2>4, <4>2
    <3>2. n = 1
      BY <1>1, <3>1
    <3> QED BY <1>2, <1>4, <1>6, <3>2
  <2> QED BY <2>1, <2>3, <2>4
<1>11. \A i \in 1 .. m + n :
         /\ s[i].lane < s[i].lanes /\ Span(s[i])
         /\ \A j \in 1 .. m + n : j # i /\ Overlap(s[i], s[j]) => Lane!Beside(s[i], s[j])
         /\ (\A j \in 1 .. m + n : j # i => ~Overlap(s[i], s[j])) => s[i].lanes = 1
  <2> TAKE i \in 1 .. m + n
  <2>1. CASE i \in 1 .. m
    BY <1>9, <2>1
  <2>2. CASE \E k \in 1 .. n : i = m + k
    <3>1. PICK k \in 1 .. n : i = m + k
      BY <2>2
    <3> QED BY <1>10, <3>1
  <2> QED BY <1>5, <2>1, <2>2
<1>12. CoversNone(s)
  BY <1>1, <1>11 DEF CoversNone
<1> QED BY <1>12 DEF s

-----------------------------------------------------------------------------
\* A cluster that ends at stop, and that a row joins when it begins before.
Joinable(c, stop, r) ==
  /\ \A i \in 1 .. Len(c) : Span(c[i]) /\ c[i].lane < Len(c) /\ c[i].start <= r.start /\ c[i].end <= stop
  /\ c # <<>> => r.start < stop /\ \E i \in 1 .. Len(c) : c[i].end = stop
  /\ c = <<>> => stop = -1
  /\ \A i, j \in 1 .. Len(c) : i # j /\ Overlap(c[i], c[j]) => c[i].lane # c[j].lane
  /\ Len(c) = 1 => c[1].lane = 0
  /\ Len(c) > 1 => \A i \in 1 .. Len(c) : \E j \in 1 .. Len(c) : j # i /\ Overlap(c[i], c[j])

LEMMA JoinedSound ==
  ASSUME NEW c \in Seq(ItemType), NEW stop \in Int, NEW r \in RowType, Span(r), Joinable(c, stop, r),
         cluster' = Append(c, [start |-> r.start, end |-> r.end, lane |-> Lane!FirstFree(c, r)]),
         clusterEnd' = IF r.end > stop THEN r.end ELSE stop
  PROVE  /\ ClusterSound' /\ cluster' \in Seq(ItemType) /\ cluster' # <<>> /\ clusterEnd' \in Int
         /\ \A i \in 1 .. Len(cluster') :
              Span(cluster'[i]) /\ cluster'[i].lane < Len(cluster') /\ cluster'[i].start <= r.start
         /\ \A i \in 1 .. Len(cluster') :
              cluster'[i] = (IF i \in 1 .. Len(c) THEN c[i]
                             ELSE [start |-> r.start, end |-> r.end, lane |-> Lane!FirstFree(c, r)])
<1> DEFINE l == Lane!FirstFree(c, r)
           b == [start |-> r.start, end |-> r.end, lane |-> l]
           n == Len(c)
<1>1. r.start \in Nat /\ r.end \in Nat /\ r.start + 30 <= r.end /\ n \in Nat
  BY DEF RowType, Span
<1>2. l \in 0 .. n /\ \A i \in 1 .. n : c[i].end > r.start => c[i].lane # l
  BY FreeLane
<1>3. b \in ItemType
  BY <1>1, <1>2 DEF ItemType
<1>4. b.start = r.start /\ b.end = r.end /\ b.lane = l
  OBVIOUS
<1>5. \A i \in 1 .. n : c[i] \in ItemType
  OBVIOUS
<1>6. \A i \in 1 .. n : c[i].start \in Nat /\ c[i].end \in Nat /\ c[i].lane \in Nat
  BY <1>5 DEF ItemType
<1> HIDE DEF b, l
<1>7. /\ cluster' \in Seq(ItemType) /\ Len(cluster') = n + 1 /\ cluster'[n + 1] = b
      /\ \A i \in 1 .. n : cluster'[i] = c[i]
  BY <1>3 DEF b, l
<1> HIDE DEF n
<1>8. cluster' # <<>> /\ \A i \in 1 .. n + 1 : i \in 1 .. n \/ i = n + 1
  BY <1>1, <1>7
<1>9. \A i \in 1 .. n : i \in 1 .. n + 1 /\ i # n + 1
  BY <1>1
<1>10. /\ \A i \in 1 .. n : Span(c[i]) /\ c[i].lane < n /\ c[i].start <= r.start /\ c[i].end <= stop
       /\ (n > 0 => r.start < stop /\ \E i \in 1 .. n : c[i].end = stop) /\ (n = 0 => stop = -1)
  BY <1>1 DEF n, Joinable
<1>11. clusterEnd' \in Int /\ r.end <= clusterEnd' /\ stop <= clusterEnd'
       /\ (clusterEnd' = r.end \/ (clusterEnd' = stop /\ r.end <= stop))
  BY <1>1
<1>12. Span(b) /\ b.lane < n + 1
  BY <1>1, <1>2, <1>4 DEF Span
<1>13. \A i \in 1 .. n + 1 :
         Span(cluster'[i]) /\ cluster'[i].lane < n + 1 /\ cluster'[i].start <= r.start
  <2>1. \A i \in 1 .. n : c[i].lane < n + 1
    BY <1>1, <1>6, <1>10
  <2>2. b.start <= r.start
    BY <1>1, <1>4
  <2> QED BY <1>7, <1>8, <1>10, <1>12, <2>1, <2>2
<1>14. \A i \in 1 .. n + 1 : cluster'[i].end <= clusterEnd'
  <2>1. \A i \in 1 .. n : c[i].end <= clusterEnd'
    BY <1>6, <1>10, <1>11
  <2>2. b.end <= clusterEnd'
    BY <1>4, <1>11
  <2> QED BY <1>7, <1>8, <2>1, <2>2
<1>15. \E i \in 1 .. n + 1 : cluster'[i].end = clusterEnd'
  <2>1. CASE clusterEnd' = r.end
    <3>1. n + 1 \in 1 .. n + 1
      BY <1>1
    <3> QED BY <1>4, <1>7, <2>1, <3>1
  <2>2. CASE clusterEnd' = stop /\ r.end <= stop
    <3>1. n > 0
      BY <1>1, <1>10, <2>2
    <3>2. PICK i \in 1 .. n : c[i].end = stop
      BY <1>10, <3>1
    <3> QED BY <1>7, <1>9, <2>2, <3>2
  <2> QED BY <1>11, <2>1, <2>2
<1>16. \A i, j \in 1 .. n : i # j /\ Overlap(c[i], c[j]) => c[i].lane # c[j].lane
  BY DEF n, Joinable
<1>17. \A i \in 1 .. n : (Overlap(c[i], b) \/ Overlap(b, c[i])) => c[i].lane # b.lane
  BY <1>2, <1>4, <1>6, <1>1 DEF Overlap
<1>18. \A i, j \in 1 .. n + 1 :
         i # j /\ Overlap(cluster'[i], cluster'[j]) => cluster'[i].lane # cluster'[j].lane
  BY <1>7, <1>8, <1>16, <1>17
<1>19. n + 1 = 1 => cluster'[1].lane = 0
  BY <1>1, <1>2, <1>4, <1>7
<1>20. ASSUME n > 0 PROVE \E i \in 1 .. n : Overlap(c[i], b) /\ Overlap(b, c[i])
  <2>1. PICK i \in 1 .. n : c[i].end = stop /\ r.start < stop
    BY <1>10, <1>20
  <2>2. c[i].start < r.end
    BY <1>1, <1>6, <1>10
  <2>3. r.start < c[i].end
    BY <2>1
  <2> QED BY <1>4, <2>2, <2>3 DEF Overlap
<1>21. n + 1 > 1 => \A i \in 1 .. n + 1 : \E j \in 1 .. n + 1 : j # i /\ Overlap(cluster'[i], cluster'[j])
  <2> HAVE n + 1 > 1
  <2>0. n > 0
    BY <1>1
  <2> TAKE i \in 1 .. n + 1
  <2>1. PICK k \in 1 .. n : Overlap(c[k], b) /\ Overlap(b, c[k])
    BY <1>20, <2>0
  <2>2. n + 1 \in 1 .. n + 1
    BY <1>1
  <2>3. CASE i = n + 1
    BY <1>7, <1>9, <2>1, <2>3
  <2>4. CASE i = k
    BY <1>7, <1>9, <2>1, <2>2, <2>4
  <2>5. CASE i # k /\ i # n + 1
    <3>1. i \in 1 .. n
      BY <1>8, <2>5
    <3>2. n > 1
      BY <1>1, <2>5, <3>1
    <3>3. PICK j \in 1 .. n : j # i /\ Overlap(c[i], c[j])
      BY <3>1, <3>2 DEF n, Joinable
    <3> QED BY <1>7, <1>9, <3>1, <3>3
  <2> QED BY <2>3, <2>4, <2>5
<1>22. ClusterSound'
  <2>1. Len(cluster') = n + 1
    BY <1>7
  <2>2. \A i \in 1 .. Len(cluster') : cluster'[i].end <= clusterEnd'
    BY <1>14, <2>1
  <2>3. \E i \in 1 .. Len(cluster') : cluster'[i].end = clusterEnd'
    BY <1>15, <2>1
  <2>4. \A i, j \in 1 .. Len(cluster') :
          i # j /\ Overlap(cluster'[i], cluster'[j]) => cluster'[i].lane # cluster'[j].lane
    <3> TAKE i, j \in 1 .. Len(cluster')
    <3>1. i \in 1 .. n + 1 /\ j \in 1 .. n + 1
      BY <2>1
    <3> QED BY <1>18, <3>1
  <2>5. Len(cluster') = 1 => cluster'[1].lane = 0
    BY <1>19, <2>1
  <2>6. Len(cluster') > 1 =>
          \A i \in 1 .. Len(cluster') : \E j \in 1 .. Len(cluster') : j # i /\ Overlap(cluster'[i], cluster'[j])
    BY <1>21, <2>1
  <2> QED BY <2>2, <2>3, <2>4, <2>5, <2>6, Zenon DEF ClusterSound, Overlap
<1>23. \A i \in 1 .. n + 1 : cluster'[i] = IF i \in 1 .. n THEN c[i] ELSE b
  BY <1>7, <1>8
<1> QED BY <1>7, <1>8, <1>11, <1>13, <1>22, <1>23 DEF n, b, l

LEMMA PlaceRowKeeps ==
  ASSUME LaneInv, Lane!PlaceRow
  PROVE  LaneInv'
<1> DEFINE r     == Head(rows)
           fresh == cluster # <<>> /\ r.start >= clusterEnd
           c     == IF fresh THEN <<>> ELSE cluster
           stop  == IF fresh THEN -1 ELSE clusterEnd
           b     == [start |-> r.start, end |-> r.end, lane |-> Lane!FirstFree(c, r)]
<1>1. /\ rows # <<>> /\ rows' = Tail(rows)
      /\ placed' = IF fresh THEN Lane!Flushed ELSE placed
      /\ cluster' = Append(c, b)
      /\ clusterEnd' = IF fresh \/ r.end > clusterEnd THEN r.end ELSE clusterEnd
  BY DEF Lane!PlaceRow
<1>2. /\ rows \in Seq(RowType) /\ Len(rows) \in Nat /\ Len(rows) > 0
      /\ r = rows[1] /\ r \in RowType /\ Span(r) /\ r.start \in Nat /\ r.end \in Nat /\ r.start + 30 <= r.end
  <2>1. rows \in Seq(RowType) /\ Len(rows) > 0 /\ r = rows[1] /\ r \in RowType /\ Span(r)
    BY <1>1 DEF LaneInv, LaneTypes
  <2> QED BY <2>1 DEF RowType, Span
<1>3. /\ cluster \in Seq(ItemType) /\ placed \in Seq(BlockType) /\ clusterEnd \in Int
      /\ (cluster = <<>> => clusterEnd = -1)
      /\ \A i \in 1 .. Len(cluster) : Span(cluster[i]) /\ cluster[i].lane < Len(cluster)
      /\ \A i \in 1 .. Len(placed) : Span(placed[i])
  BY DEF LaneInv, LaneTypes
<1>4. /\ \A i \in 1 .. Len(cluster) : cluster[i].start <= r.start
      /\ \A i \in 1 .. Len(placed) : placed[i].end <= r.start
      /\ \A i \in 1 .. Len(placed), j \in 1 .. Len(cluster) : placed[i].end <= cluster[j].start
      /\ \A i \in 1 .. Len(rows) - 1 : rows[i].start <= rows[i + 1].start
  BY <1>1, <1>2 DEF LaneInv, InOrder
<1> HIDE DEF r, b
<1>5. c \in Seq(ItemType) /\ stop \in Int
  BY <1>3
<1>6. Joinable(c, stop, r)
  <2>1. CASE fresh
    <3>1. c = <<>> /\ Len(c) = 0 /\ stop = -1
      BY <2>1
    <3> QED BY <3>1 DEF Joinable
  <2>2. CASE ~fresh
    <3>1. c = cluster /\ stop = clusterEnd
      BY <2>2
    <3>2. c # <<>> => r.start < stop
      BY <1>2, <1>3, <2>2
    <3> QED BY <1>3, <1>4, <3>1, <3>2 DEF LaneInv, ClusterSound, Joinable
  <2> QED BY <2>1, <2>2
<1>7. clusterEnd' = IF r.end > stop THEN r.end ELSE stop
  <2>1. CASE fresh
    BY <1>1, <1>2, <2>1
  <2>2. CASE ~fresh
    BY <1>1, <2>2
  <2> QED BY <2>1, <2>2
<1>8. cluster' = Append(c, [start |-> r.start, end |-> r.end, lane |-> Lane!FirstFree(c, r)])
  BY <1>1 DEF b
<1> HIDE DEF c, stop
<1>9. /\ ClusterSound' /\ cluster' \in Seq(ItemType) /\ cluster' # <<>> /\ clusterEnd' \in Int
      /\ \A i \in 1 .. Len(cluster') :
           Span(cluster'[i]) /\ cluster'[i].lane < Len(cluster') /\ cluster'[i].start <= r.start
      /\ \A i \in 1 .. Len(cluster') : cluster'[i] = (IF i \in 1 .. Len(c) THEN c[i] ELSE b)
  <2> HIDE DEF fresh
  <2>1. c \in Seq(ItemType) /\ stop \in Int /\ r \in RowType /\ Span(r) /\ Joinable(c, stop, r)
    BY <1>2, <1>5, <1>6
  <2>2. ClusterSound'
    BY <2>1, <1>7, <1>8, JoinedSound
  <2>3. /\ cluster' \in Seq(ItemType) /\ cluster' # <<>> /\ clusterEnd' \in Int
        /\ \A i \in 1 .. Len(cluster') :
             Span(cluster'[i]) /\ cluster'[i].lane < Len(cluster') /\ cluster'[i].start <= r.start
    BY <2>1, <1>7, <1>8, JoinedSound
  <2>4. \A i \in 1 .. Len(cluster') :
          cluster'[i] = (IF i \in 1 .. Len(c) THEN c[i]
                         ELSE [start |-> r.start, end |-> r.end, lane |-> Lane!FirstFree(c, r)])
    BY <2>1, <1>7, <1>8, JoinedSound
  <2> QED BY <2>2, <2>3, <2>4 DEF b
\* What is placed covers nothing and has ended.
<1>10. /\ placed' \in Seq(BlockType) /\ CoversNone(placed')
       /\ \A i \in 1 .. Len(placed') : Span(placed'[i])
       /\ \A i \in 1 .. Len(placed') : placed'[i].end <= r.start
       /\ \A i \in 1 .. Len(placed'), j \in 1 .. Len(c) : placed'[i].end <= c[j].start
  <2>1. CASE fresh
    <3>1. placed' = Lane!Flushed /\ CoversNone(placed') /\ placed' \in Seq(BlockType)
      BY <1>1, <2>1, FlushedCoversNone, FlushedIs DEF LaneInv
    <3>2. \A i \in 1 .. Len(placed') : Span(placed'[i])
      BY <3>1 DEF CoversNone
    <3>3. ASSUME NEW i \in 1 .. Len(placed') PROVE placed'[i].end <= r.start
      <4>1. /\ Len(placed') = Len(placed) + Len(cluster) /\ Len(placed) \in Nat /\ Len(cluster) \in Nat
            /\ \A k \in 1 .. Len(placed) : placed'[k] = placed[k]
            /\ \A k \in 1 .. Len(cluster) : placed'[Len(placed) + k].end = cluster[k].end
        <5>1. /\ Len(Lane!Flushed) = Len(placed) + Len(cluster)
              /\ \A k \in 1 .. Len(placed) : Lane!Flushed[k] = placed[k]
              /\ \A k \in 1 .. Len(cluster) :
                   Lane!Flushed[Len(placed) + k] =
                     [start |-> cluster[k].start, end |-> cluster[k].end, lane |-> cluster[k].lane,
                      lanes |-> Lane!Lanes(cluster)]
          BY <2>1, FlushedIs, Zenon DEF LaneInv
        <5>2. \A k \in 1 .. Len(cluster) : Lane!Flushed[Len(placed) + k].end = cluster[k].end
          <6> TAKE k \in 1 .. Len(cluster)
          <6>1. Lane!Flushed[Len(placed) + k] =
                  [start |-> cluster[k].start, end |-> cluster[k].end, lane |-> cluster[k].lane,
                   lanes |-> Lane!Lanes(cluster)]
            BY <5>1, Zenon
          <6> QED BY <6>1
        <5>3. Len(placed) \in Nat /\ Len(cluster) \in Nat
          BY <1>3
        <5> QED BY <3>1, <5>1, <5>2, <5>3
      <4>2. CASE i \in 1 .. Len(placed)
        BY <1>4, <4>1, <4>2
      <4>3. CASE i > Len(placed)
        <5>1. PICK k \in 1 .. Len(cluster) : i = Len(placed) + k
          <6>1. i - Len(placed) \in 1 .. Len(cluster) /\ i = Len(placed) + (i - Len(placed))
            BY <4>1, <4>3
          <6> QED BY <6>1
        <5>2. placed'[i].end = cluster[k].end /\ cluster[k].end <= clusterEnd
          BY <4>1, <5>1 DEF LaneInv, ClusterSound
        <5>3. cluster[k].end \in Nat
          <6>1. \A e \in ItemType : e.end \in Nat
            BY DEF ItemType
          <6> QED BY <1>3, <6>1
        <5> QED BY <1>2, <1>3, <2>1, <5>2, <5>3
      <4> QED BY <4>1, <4>2, <4>3
    <3>4. Len(c) = 0
      BY <2>1 DEF c
    <3> QED BY <3>1, <3>2, <3>3, <3>4
  <2>2. CASE ~fresh
    <3>1. placed' = placed /\ c = cluster
      BY <1>1, <2>2 DEF c
    <3>2. CoversNone(placed)
      BY <1>3, CoversIs DEF LaneInv, Lane!NoneCovered
    <3> QED BY <1>3, <1>4, <3>1, <3>2
  <2> QED BY <2>1, <2>2
<1>11. /\ rows' \in Seq(RowType) /\ \A i \in 1 .. Len(rows') : i + 1 \in 1 .. Len(rows) /\ rows'[i] = rows[i + 1]
       /\ Len(rows') = Len(rows) - 1
  BY <1>1, <1>2
<1>12. LaneTypes'
  <2>1. \A i \in 1 .. Len(rows') : Span(rows'[i])
    BY <1>11 DEF LaneInv, LaneTypes
  <2> QED BY <1>9, <1>10, <1>11, <2>1 DEF LaneTypes, Span
<1>13. InOrder'
  <2>1. \A i \in 1 .. Len(rows') - 1 : rows'[i].start <= rows'[i + 1].start
    <3> TAKE i \in 1 .. Len(rows') - 1
    <3>1. i \in 1 .. Len(rows') /\ i + 1 \in 1 .. Len(rows') /\ i + 1 \in 1 .. Len(rows) - 1
      BY <1>2, <1>11
    <3>2. rows'[i] = rows[i + 1] /\ rows'[i + 1] = rows[(i + 1) + 1]
      BY <1>11, <3>1
    <3>3. rows[i + 1].start <= rows[(i + 1) + 1].start
      BY <1>4, <3>1
    <3> QED BY <3>2, <3>3
  <2>2. ASSUME rows' # <<>>
        PROVE  rows'[1].start \in Nat /\ r.start <= rows'[1].start
    <3>1. Len(rows') > 0
      BY <1>11, <2>2
    <3>2. 1 \in 1 .. Len(rows') /\ 1 \in 1 .. Len(rows) - 1
      BY <1>2, <1>11, <3>1
    <3>3. rows'[1] = rows[1 + 1] /\ rows[1].start <= rows[1 + 1].start
      BY <1>4, <1>11, <3>2
    <3>4. rows'[1].start \in Nat
      <4>1. rows'[1] \in RowType
        BY <1>11, <3>2
      <4> QED BY <4>1 DEF RowType
    <3> QED BY <1>2, <3>3, <3>4
  <2>3. \A e \in ItemType : e.start \in Nat /\ e.end \in Nat
    BY DEF ItemType
  <2>4. \A e \in BlockType : e.start \in Nat /\ e.end \in Nat
    BY DEF BlockType
  <2>5. rows' # <<>> => \A i \in 1 .. Len(cluster') : cluster'[i].start <= rows'[1].start
    <3> HAVE rows' # <<>>
    <3> TAKE i \in 1 .. Len(cluster')
    <3>1. cluster'[i].start \in Nat /\ cluster'[i].start <= r.start
      BY <1>9, <2>3
    <3> QED BY <1>2, <2>2, <3>1
  <2>6. rows' # <<>> => \A i \in 1 .. Len(placed') : placed'[i].end <= rows'[1].start
    <3> HAVE rows' # <<>>
    <3> TAKE i \in 1 .. Len(placed')
    <3>1. placed'[i].end \in Nat /\ placed'[i].end <= r.start
      BY <1>10, <2>4
    <3> QED BY <1>2, <2>2, <3>1
  <2>7. \A i \in 1 .. Len(placed'), j \in 1 .. Len(cluster') : placed'[i].end <= cluster'[j].start
    <3> TAKE i \in 1 .. Len(placed'), j \in 1 .. Len(cluster')
    <3>1. CASE j \in 1 .. Len(c)
      BY <1>9, <1>10, <3>1
    <3>2. CASE j \notin 1 .. Len(c)
      <4>1. cluster'[j] = b
        BY <1>9, <3>2
      <4>2. cluster'[j].start = r.start
        BY <4>1 DEF b
      <4> QED BY <1>10, <4>2
    <3> QED BY <3>1, <3>2
  <2> QED BY <2>1, <2>5, <2>6, <2>7, Zenon DEF InOrder
<1>14. Lane!NoneCovered'
  <2>1. \A i \in 1 .. Len(placed') : Span(placed'[i])
    BY <1>10
  <2>2. \A i \in DOMAIN placed' :
          /\ placed'[i].lane < placed'[i].lanes
          /\ \A j \in DOMAIN placed' \ {i} :
               Lane!Meet(placed'[i], placed'[j]) => Lane!Beside(placed'[i], placed'[j])
          /\ (\A j \in DOMAIN placed' \ {i} : ~Lane!Meet(placed'[i], placed'[j])) => placed'[i].lanes = 1
    BY <1>10, <2>1, CoversIs
  <2> QED BY <2>2, Zenon DEF Lane!NoneCovered, Lane!Meet, Lane!Beside, Lane!DrawnEnd
<1> QED BY <1>9, <1>12, <1>13, <1>14 DEF LaneInv

LEMMA LastFlushKeeps ==
  ASSUME LaneInv, Lane!LastFlush
  PROVE  LaneInv'
<1>1. /\ rows = <<>> /\ rows' = rows /\ cluster # <<>> /\ placed' = Lane!Flushed
      /\ cluster' = <<>> /\ clusterEnd' = -1
  BY DEF Lane!LastFlush
<1>2. placed' \in Seq(BlockType) /\ CoversNone(placed') /\ \A i \in 1 .. Len(placed') : Span(placed'[i])
  <2>1. CoversNone(placed')
    BY <1>1, FlushedCoversNone
  <2> QED BY <1>1, <2>1, FlushedIs DEF LaneInv, CoversNone
<1>3. rows' \in Seq(RowType) /\ Len(rows') = 0 /\ cluster' \in Seq(ItemType) /\ Len(cluster') = 0
  BY <1>1
<1>4. LaneTypes' /\ InOrder' /\ ClusterSound'
  BY <1>1, <1>2, <1>3 DEF LaneTypes, InOrder, ClusterSound
<1>5. Lane!NoneCovered'
  <2>1. \A i \in DOMAIN placed' :
          /\ placed'[i].lane < placed'[i].lanes
          /\ \A j \in DOMAIN placed' \ {i} :
               Lane!Meet(placed'[i], placed'[j]) => Lane!Beside(placed'[i], placed'[j])
          /\ (\A j \in DOMAIN placed' \ {i} : ~Lane!Meet(placed'[i], placed'[j])) => placed'[i].lanes = 1
    BY <1>2, CoversIs
  <2> QED BY <2>1, Zenon DEF Lane!NoneCovered, Lane!Meet, Lane!Beside, Lane!DrawnEnd
<1> QED BY <1>4, <1>5 DEF LaneInv

LEMMA LaneStart ==
  ASSUME Lane!LaneInit
  PROVE  LaneInv
<1>1. PICK m \in 0 .. MaxRows : rows \in {s \in [1 .. m -> Lane!RowSet] : Lane!Sorted(s)}
  BY DEF Lane!LaneInit
<1>2. cluster = <<>> /\ clusterEnd = -1 /\ placed = <<>>
  BY DEF Lane!LaneInit
<1>3. m \in Nat /\ rows \in [1 .. m -> Lane!RowSet] /\ Lane!Sorted(rows)
  BY <1>1, ScreensAssumption
<1>4. ASSUME NEW q \in Lane!RowSet PROVE q \in RowType /\ Span(q)
  <2>1. PICK since \in Moments, till \in Moments \cup {NoEnd}, e \in Estimates :
          q = Lane!RowOf(since, till, e) /\ q.end - q.start >= Shortest
    BY DEF Lane!RowSet
  <2>2. since \in Nat /\ e \in Nat /\ (till = NoEnd \/ till \in Nat) /\ Shortest \in Nat /\ Shortest >= 30
    BY <2>1, ScreensAssumption
  <2>3. q \in RowType
    BY <2>1, <2>2 DEF RowType, Lane!RowOf, Lane!Duration, Lane!Midnight
  <2>4. q.start \in Nat /\ q.end \in Nat
    BY <2>3 DEF RowType
  <2> QED BY <2>1, <2>2, <2>3, <2>4 DEF Span
<1>5. rows \in Seq(RowType) /\ Len(rows) = m /\ \A i \in 1 .. Len(rows) : rows[i] \in RowType /\ Span(rows[i])
  <2>1. rows \in [1 .. m -> RowType]
    BY <1>3, <1>4
  <2>2. rows \in Seq(RowType) /\ Len(rows) = m
    BY <1>3, <2>1
  <2> QED BY <1>3, <1>4, <2>2
<1>6. \A i \in 1 .. Len(rows) - 1 : rows[i].start <= rows[i + 1].start
  <2> TAKE i \in 1 .. Len(rows) - 1
  <2>1. rows[i].start < rows[i + 1].start \/ rows[i].start = rows[i + 1].start
    BY <1>3 DEF Lane!Sorted
  <2>2. rows[i].start \in Nat /\ rows[i + 1].start \in Nat
    <3>1. i \in 1 .. Len(rows) /\ i + 1 \in 1 .. Len(rows)
      BY <1>3, <1>5
    <3>2. \A q \in RowType : q.start \in Nat
      BY DEF RowType
    <3> QED BY <1>5, <3>1, <3>2
  <2> QED BY <2>1, <2>2
<1>7. LaneTypes /\ InOrder /\ ClusterSound
  BY <1>2, <1>5, <1>6 DEF LaneTypes, InOrder, ClusterSound
<1>8. Lane!NoneCovered
  BY <1>2 DEF Lane!NoneCovered
<1> QED BY <1>7, <1>8 DEF LaneInv

LEMMA LaneStutter ==
  ASSUME LaneInv, UNCHANGED laneVars
  PROVE  LaneInv'
BY Zenon DEF LaneInv, LaneTypes, InOrder, ClusterSound, laneVars, Lane!NoneCovered, Lane!Meet, Lane!Beside,
     Lane!DrawnEnd, Span, Overlap

\* The loop of placeDay (CalendarView.tsx) gives tasks that overlap lanes of their own and all
\* of the width to one that meets no other, whatever the tasks of the day: no block of the day
\* view covers another.
THEOREM NoBlockIsCovered == ScreensSpec => [](part = "lanes" => Lane!NoneCovered)
<1> DEFINE Inv == part = "lanes" => LaneInv
<1>1. ScreensInit => Inv
  BY LaneStart DEF ScreensInit
<1>2. Inv /\ [ScreensNext]_<<part, vars, layerVars, dropVars, laneVars, turnVars, parseVars,
                              viewVars, chipVars, hookVars, ruleVars, pickVars, subVars, orderVars>> => Inv'
  <2> SUFFICES ASSUME Inv, [ScreensNext]_<<part, vars, layerVars, dropVars, laneVars, turnVars, parseVars,
                              viewVars, chipVars, hookVars, ruleVars, pickVars, subVars, orderVars>>,
                      part' = "lanes"
               PROVE  LaneInv'
    OBVIOUS
  <2>1. part = "lanes" /\ (Lane!LaneNext \/ UNCHANGED laneVars)
    BY DEF ScreensNext
  <2>2. LaneInv
    BY <2>1
  <2> QED BY <2>1, <2>2, PlaceRowKeeps, LastFlushKeeps, LaneStutter DEF Lane!LaneNext
<1>3. Inv => (part = "lanes" => Lane!NoneCovered)
  BY DEF LaneInv
<1> QED BY <1>1, <1>2, <1>3, PTL DEF ScreensSpec

-----------------------------------------------------------------------------
(* The layers of the page: the stack names those that are open, each once. *)

Names == Layer!Modals \cup {"menu", "reminders"}
Has(l) == \E i \in 1 .. Len(layers) : layers[i] = l
One(l) == IF Has(l) THEN 1 ELSE 0

LayerStack ==
  /\ layers \in Seq(Names)
  /\ \A i, j \in 1 .. Len(layers) : layers[i] = layers[j] => i = j
  /\ openCount = One("ritual") + One("settings") + One("confirm")

\* The question on the screen is the one that is still open.
OpenQuestion ==
  /\ answers \in Seq({"open", "yes", "no"}) /\ shown \in 0 .. Len(answers)
  /\ shown # 0 <=> Has("confirm")
  /\ \A q \in 1 .. Len(answers) : answers[q] = "open" => q = shown

LayerInv == LayerStack /\ OpenQuestion /\ Layer!EscClosesTop

Without(s, i) == SubSeq(s, 1, i - 1) \o SubSeq(s, i + 1, Len(s))

\* A sequence an entry is taken out of is the one before and the one behind it.
LEMMA WithoutIs ==
  ASSUME NEW T, NEW s \in Seq(T), NEW i \in 1 .. Len(s)
  PROVE  /\ Without(s, i) \in Seq(T) /\ Len(Without(s, i)) = Len(s) - 1
         /\ \A m \in 1 .. Len(s) - 1 : Without(s, i)[m] = (IF m < i THEN s[m] ELSE s[m + 1])
<1> DEFINE u == SubSeq(s, 1, i - 1)
           v == SubSeq(s, i + 1, Len(s))
<1>1. Len(s) \in Nat /\ i \in Nat /\ i >= 1 /\ i <= Len(s)
  OBVIOUS
<1>2. u \in Seq(T) /\ Len(u) = i - 1 /\ \A m \in 1 .. i - 1 : u[m] = s[m]
  BY <1>1
<1>3. v \in Seq(T) /\ Len(v) = Len(s) - i /\ \A m \in 1 .. Len(s) - i : v[m] = s[i + m]
  <2>1. \A m \in i + 1 .. Len(s) : s[m] \in T
    BY <1>1
  <2>2. v \in Seq(T) /\ Len(v) = Len(s) - i
    BY <1>1, <2>1, SubSeqProperties
  <2>3. \A m \in 1 .. Len(s) - i : v[m] = s[i + m]
    BY <1>1
  <2> QED BY <2>2, <2>3
<1>4. Without(s, i) = u \o v
  BY DEF Without
<1> HIDE DEF u, v
<1>5. u \o v \in Seq(T) /\ Len(u \o v) = Len(s) - 1
  <2>1. u \o v \in Seq(T) /\ Len(u \o v) = Len(u) + Len(v)
    BY <1>2, <1>3, ConcatProperties
  <2> QED BY <1>1, <1>2, <1>3, <2>1
<1>6. ASSUME NEW m \in 1 .. Len(s) - 1 PROVE (u \o v)[m] = (IF m < i THEN s[m] ELSE s[m + 1])
  <2>1. CASE m < i
    BY <1>1, <1>2, <1>3, <2>1
  <2>2. CASE ~(m < i)
    <3>1. m - (i - 1) \in 1 .. Len(s) - i /\ i + (m - (i - 1)) = m + 1
      BY <1>1, <2>2
    <3>2. (u \o v)[m] = v[m - (i - 1)]
      BY <1>1, <1>2, <1>3, <2>2
    <3>3. v[m - (i - 1)] = s[i + (m - (i - 1))]
      BY <1>3, <3>1
    <3>4. s[i + (m - (i - 1))] = s[m + 1]
      BY <3>1
    <3> QED BY <2>2, <3>2, <3>3, <3>4
  <2> QED BY <2>1, <2>2
<1> QED BY <1>4, <1>5, <1>6

LEMMA LayerIn ==
  ASSUME LayerStack, NEW l
  PROVE  Layer!In(l) <=> Has(l)
BY DEF LayerStack, Layer!In, Layer!ToSet, Has

\* What opens lies on top, and is there once.
LEMMA PushKeeps ==
  ASSUME LayerStack, NEW l \in Names, ~Has(l), Layer!Pushed(l)
  PROVE  LayerStack' /\ \A n \in Names : Has(n)' <=> Has(n) \/ n = l
<1>1. /\ layers \in Seq(Names) /\ Len(layers) \in Nat
      /\ \A i, j \in 1 .. Len(layers) : layers[i] = layers[j] => i = j
      /\ \A i \in 1 .. Len(layers) : layers[i] # l
  BY DEF LayerStack, Has
<1>2. layers' = Append(layers, l)
  BY DEF Layer!Pushed
<1>3. /\ layers' \in Seq(Names) /\ Len(layers') = Len(layers) + 1
      /\ \A i \in 1 .. Len(layers) : layers'[i] = layers[i]
      /\ layers'[Len(layers) + 1] = l
  BY <1>1, <1>2
<1>4. \A i, j \in 1 .. Len(layers') : layers'[i] = layers'[j] => i = j
  <2>1. \A i \in 1 .. Len(layers') : i \in 1 .. Len(layers) \/ i = Len(layers) + 1
    BY <1>1, <1>3
  <2> QED BY <1>1, <1>3, <2>1
<1>5. ASSUME NEW n \in Names PROVE Has(n)' <=> Has(n) \/ n = l
  <2>1. \A i \in 1 .. Len(layers') : i \in 1 .. Len(layers) \/ i = Len(layers) + 1
    BY <1>1, <1>3
  <2>2. Len(layers) + 1 \in 1 .. Len(layers') /\ \A i \in 1 .. Len(layers) : i \in 1 .. Len(layers')
    BY <1>1, <1>3
  <2> QED BY <1>3, <2>1, <2>2 DEF Has
<1>6. openCount' = One("ritual")' + One("settings")' + One("confirm")'
  <2>1. openCount' = openCount + (IF l \in Layer!Modals THEN 1 ELSE 0)
    BY DEF Layer!Pushed
  <2>2. \A n \in Layer!Modals : n \in Names
    BY DEF Names
  <2>3. \A n \in Layer!Modals : One(n)' = IF n = l THEN 1 ELSE One(n)
    BY <1>5, <2>2 DEF One
  <2>4. One("ritual")' = (IF "ritual" = l THEN 1 ELSE One("ritual"))
        /\ One("settings")' = (IF "settings" = l THEN 1 ELSE One("settings"))
        /\ One("confirm")' = (IF "confirm" = l THEN 1 ELSE One("confirm"))
    BY <2>3 DEF Layer!Modals
  <2>5. One(l) = 0 /\ \A n \in Names : One(n) \in Nat
    BY DEF One
  <2>6. openCount = One("ritual") + One("settings") + One("confirm")
    BY DEF LayerStack
  <2> HIDE DEF One
  <2>7. One("ritual") \in Nat /\ One("settings") \in Nat /\ One("confirm") \in Nat
    BY <2>5 DEF Names, Layer!Modals
  <2>8. CASE l = "ritual"
    BY <2>1, <2>4, <2>5, <2>6, <2>7, <2>8 DEF Layer!Modals
  <2>9. CASE l = "settings"
    BY <2>1, <2>4, <2>5, <2>6, <2>7, <2>9 DEF Layer!Modals
  <2>10. CASE l = "confirm"
    BY <2>1, <2>4, <2>5, <2>6, <2>7, <2>10 DEF Layer!Modals
  <2>11. CASE l \notin Layer!Modals
    BY <2>1, <2>4, <2>6, <2>7, <2>11 DEF Layer!Modals
  <2> QED BY <2>8, <2>9, <2>10, <2>11 DEF Layer!Modals
<1> QED BY <1>3, <1>4, <1>5, <1>6, Zenon DEF LayerStack, One, Has

\* What closes leaves the stack, and nothing else does.
LEMMA PopKeeps ==
  ASSUME LayerStack, NEW l \in Names, Layer!Popped(l)
  PROVE  LayerStack' /\ \A n \in Names : Has(n)' <=> Has(n) /\ n # l
<1>1. /\ layers \in Seq(Names) /\ Len(layers) \in Nat /\ DOMAIN layers = 1 .. Len(layers)
      /\ \A i, j \in 1 .. Len(layers) : layers[i] = layers[j] => i = j
  BY DEF LayerStack
<1>2. Layer!In(l) <=> Has(l)
  BY LayerIn
<1>3. /\ layers' \in Seq(Names)
      /\ \A i, j \in 1 .. Len(layers') : layers'[i] = layers'[j] => i = j
      /\ \A n \in Names : Has(n)' <=> Has(n) /\ n # l
  <2>1. CASE ~Has(l)
    <3>1. layers' = layers
      BY <1>2, <2>1 DEF Layer!Popped
    <3>2. \A n \in Names : Has(n)' <=> Has(n)
      BY <3>1 DEF Has
    <3> QED BY <1>1, <2>1, <3>1, <3>2
  <2>2. CASE Has(l)
    <3>1. PICK i \in 1 .. Len(layers) : i = CHOOSE j \in DOMAIN layers : layers[j] = l
      BY <1>1, <2>2 DEF Has
    <3>2. layers[i] = l
      BY <1>1, <2>2, <3>1 DEF Has
    <3>3. layers' = Without(layers, i)
      BY <1>2, <2>2, <3>1 DEF Layer!Popped, Layer!RemoveAt, Without
    <3>4. /\ layers' \in Seq(Names) /\ Len(layers') = Len(layers) - 1
          /\ \A m \in 1 .. Len(layers) - 1 : layers'[m] = (IF m < i THEN layers[m] ELSE layers[m + 1])
      BY <1>1, <3>3, WithoutIs
    <3>5. ASSUME NEW m \in 1 .. Len(layers')
          PROVE  \E j \in 1 .. Len(layers) : j = (IF m < i THEN m ELSE m + 1) /\ j # i /\ layers'[m] = layers[j]
      <4>1. m \in 1 .. Len(layers) - 1
        BY <1>1, <3>4
      <4>2. (IF m < i THEN m ELSE m + 1) \in 1 .. Len(layers) /\ (IF m < i THEN m ELSE m + 1) # i
        BY <1>1, <4>1
      <4> QED BY <3>4, <4>1, <4>2
    <3>6. \A a1, a2 \in 1 .. Len(layers') : layers'[a1] = layers'[a2] => a1 = a2
      <4> TAKE a1, a2 \in 1 .. Len(layers')
      <4> HAVE layers'[a1] = layers'[a2]
      <4>1. PICK j1 \in 1 .. Len(layers) : j1 = (IF a1 < i THEN a1 ELSE a1 + 1) /\ layers'[a1] = layers[j1]
        BY <3>5
      <4>2. PICK j2 \in 1 .. Len(layers) : j2 = (IF a2 < i THEN a2 ELSE a2 + 1) /\ layers'[a2] = layers[j2]
        BY <3>5
      <4>3. j1 = j2
        BY <1>1, <4>1, <4>2
      <4> QED BY <4>1, <4>2, <4>3
    <3>7. ASSUME NEW n \in Names PROVE Has(n)' <=> Has(n) /\ n # l
      <4>1. ASSUME Has(n)' PROVE Has(n) /\ n # l
        <5>1. PICK m \in 1 .. Len(layers') : layers'[m] = n
          BY <4>1 DEF Has
        <5>2. PICK j \in 1 .. Len(layers) : j # i /\ layers'[m] = layers[j]
          BY <3>5
        <5> QED BY <1>1, <3>2, <5>1, <5>2 DEF Has
      <4>2. ASSUME Has(n), n # l PROVE Has(n)'
        <5>1. PICK j \in 1 .. Len(layers) : layers[j] = n
          BY <4>2 DEF Has
        <5>2. j # i
          BY <3>2, <4>2, <5>1
        <5>3. CASE j < i
          <6>1. j \in 1 .. Len(layers) - 1
            BY <1>1, <5>3
          <6>2. layers'[j] = n /\ j \in 1 .. Len(layers')
            BY <3>4, <5>1, <5>3, <6>1
          <6> QED BY <6>2 DEF Has
        <5>4. CASE j > i
          <6>1. j - 1 \in 1 .. Len(layers) - 1 /\ ~(j - 1 < i) /\ (j - 1) + 1 = j
            BY <1>1, <5>4
          <6>2. layers'[j - 1] = n /\ j - 1 \in 1 .. Len(layers')
            BY <3>4, <5>1, <6>1
          <6> QED BY <6>2 DEF Has
        <5> QED BY <5>2, <5>3, <5>4
      <4> QED BY <4>1, <4>2
    <3> QED BY <3>4, <3>6, <3>7
  <2> QED BY <2>1, <2>2
<1>4. openCount' = One("ritual")' + One("settings")' + One("confirm")'
  <2>1. openCount' = openCount - (IF Has(l) /\ l \in Layer!Modals THEN 1 ELSE 0)
    BY <1>2 DEF Layer!Popped
  <2>2. \A n \in Layer!Modals : n \in Names
    BY DEF Names
  <2>3. \A n \in Layer!Modals : One(n)' = IF n = l THEN 0 ELSE One(n)
    BY <1>3, <2>2 DEF One
  <2>4. One("ritual")' = (IF "ritual" = l THEN 0 ELSE One("ritual"))
        /\ One("settings")' = (IF "settings" = l THEN 0 ELSE One("settings"))
        /\ One("confirm")' = (IF "confirm" = l THEN 0 ELSE One("confirm"))
    BY <2>3 DEF Layer!Modals
  <2>5. One(l) = (IF Has(l) THEN 1 ELSE 0) /\ \A n \in Names : One(n) \in Nat
    BY DEF One
  <2>6. openCount = One("ritual") + One("settings") + One("confirm")
    BY DEF LayerStack
  <2> HIDE DEF One
  <2>7. One("ritual") \in Nat /\ One("settings") \in Nat /\ One("confirm") \in Nat
    BY <2>5 DEF Names, Layer!Modals
  <2>8. CASE l = "ritual"
    BY <2>1, <2>4, <2>5, <2>6, <2>7, <2>8 DEF Layer!Modals
  <2>9. CASE l = "settings"
    BY <2>1, <2>4, <2>5, <2>6, <2>7, <2>9 DEF Layer!Modals
  <2>10. CASE l = "confirm"
    BY <2>1, <2>4, <2>5, <2>6, <2>7, <2>10 DEF Layer!Modals
  <2>11. CASE l \notin Layer!Modals
    BY <2>1, <2>4, <2>6, <2>7, <2>11 DEF Layer!Modals
  <2> QED BY <2>8, <2>9, <2>10, <2>11 DEF Layer!Modals
<1> QED BY <1>3, <1>4, Zenon DEF LayerStack, One, Has

LEMMA FewElements ==
  ASSUME NEW S, S = {} \/ \E x : S = {x}
  PROVE  Layer!Cardinality(S) <= 1
<1>1. Layer!Cardinality(S) = Cardinality(S)
  BY Zenon DEF Layer!Cardinality, Cardinality
<1>2. Cardinality(S) = 0 \/ Cardinality(S) = 1
  BY FS_EmptySet, FS_Singleton
<1> QED BY <1>1, <1>2

\* A question that is answered is gone from the screen.
LEMMA SettleKeeps ==
  ASSUME LayerStack, OpenQuestion, shown # 0, NEW ok \in {"yes", "no"}, Layer!Settled(ok)
  PROVE  LayerStack' /\ OpenQuestion' /\ \A n \in Names : Has(n)' <=> Has(n) /\ n # "confirm"
<1>1. LayerStack' /\ \A n \in Names : Has(n)' <=> Has(n) /\ n # "confirm"
  BY PopKeeps DEF Layer!Settled, Names, Layer!Modals
<1>2. /\ answers \in Seq({"open", "yes", "no"}) /\ shown \in 1 .. Len(answers)
      /\ \A q \in 1 .. Len(answers) : answers[q] = "open" => q = shown
  BY DEF OpenQuestion
<1>3. answers' = [answers EXCEPT ![shown] = ok] /\ shown' = 0
  BY DEF Layer!Settled
<1>4. answers' \in Seq({"open", "yes", "no"}) /\ Len(answers') = Len(answers) /\ Len(answers) \in Nat
  BY <1>2, <1>3
<1>5. \A q \in 1 .. Len(answers') : answers'[q] # "open"
  BY <1>2, <1>3, <1>4
<1>6. ~Has("confirm")'
  BY <1>1 DEF Names, Layer!Modals
<1>7. shown' \in 0 .. Len(answers')
  BY <1>3, <1>4
<1> QED BY <1>1, <1>3, <1>4, <1>5, <1>6, <1>7, Zenon DEF OpenQuestion, Has

\* What closes and is no question leaves the question as it is.
LEMMA PopKeepsQuestion ==
  ASSUME LayerStack, OpenQuestion, NEW l \in Names, l # "confirm", Layer!Popped(l), UNCHANGED <<shown, answers>>
  PROVE  LayerStack' /\ OpenQuestion'
<1>1. LayerStack' /\ \A n \in Names : Has(n)' <=> Has(n) /\ n # l
  BY PopKeeps
<1>2. Has("confirm")' <=> Has("confirm")
  BY <1>1 DEF Names, Layer!Modals
<1> QED BY <1>1, <1>2, Zenon DEF OpenQuestion, Has

LEMMA PushKeepsQuestion ==
  ASSUME LayerStack, OpenQuestion, NEW l \in Names, l # "confirm", ~Has(l), Layer!Pushed(l),
         UNCHANGED <<shown, answers>>
  PROVE  LayerStack' /\ OpenQuestion'
<1>1. LayerStack' /\ \A n \in Names : Has(n)' <=> Has(n) \/ n = l
  BY PushKeeps
<1>2. Has("confirm")' <=> Has("confirm")
  BY <1>1 DEF Names, Layer!Modals
<1> QED BY <1>1, <1>2, Zenon DEF OpenQuestion, Has

LEMMA SameLayers ==
  ASSUME LayerStack, OpenQuestion, UNCHANGED <<layers, openCount, shown, answers>>
  PROVE  LayerStack' /\ OpenQuestion'
BY Zenon DEF LayerStack, OpenQuestion, One, Has

LEMMA AskKeeps ==
  ASSUME LayerStack, OpenQuestion, Layer!Ask
  PROVE  LayerStack' /\ OpenQuestion'
<1>1. /\ shown = 0 /\ answers' = Append(answers, "open") /\ shown' = Len(answers) + 1
      /\ Layer!Pushed("confirm")
  BY DEF Layer!Ask
<1>2. ~Has("confirm")
  BY <1>1 DEF OpenQuestion
<1>3. LayerStack' /\ \A n \in Names : Has(n)' <=> Has(n) \/ n = "confirm"
  BY <1>1, <1>2, PushKeeps DEF Names, Layer!Modals
<1>4. Has("confirm")'
  BY <1>3 DEF Names, Layer!Modals
<1>5. /\ answers \in Seq({"open", "yes", "no"}) /\ Len(answers) \in Nat
      /\ \A q \in 1 .. Len(answers) : answers[q] # "open"
  BY <1>1 DEF OpenQuestion
<1>6. /\ answers' \in Seq({"open", "yes", "no"}) /\ Len(answers') = Len(answers) + 1
      /\ \A q \in 1 .. Len(answers) : answers'[q] = answers[q]
  BY <1>1, <1>5
<1>7. \A q \in 1 .. Len(answers') : answers'[q] = "open" => q = shown'
  BY <1>1, <1>5, <1>6
<1>8. shown' \in 0 .. Len(answers') /\ shown' # 0
  BY <1>1, <1>5, <1>6
<1> QED BY <1>3, <1>4, <1>6, <1>7, <1>8, Zenon DEF OpenQuestion, Has

\* The entry on top of the stack goes, whatever it is.
LEMMA TopKeeps ==
  ASSUME LayerStack, OpenQuestion, layers # <<>>,
         \/ Layer!Last(layers) = "confirm" /\ Layer!Settled("no")
         \/ /\ Layer!Last(layers) # "confirm" /\ Layer!Popped(Layer!Last(layers))
            /\ UNCHANGED <<shown, answers>>
  PROVE  /\ LayerStack' /\ OpenQuestion'
         /\ Layer!ToSet(layers) \ Layer!ToSet(layers') = {Layer!Last(layers)}
<1> DEFINE top == Layer!Last(layers)
<1>1. layers \in Seq(Names) /\ Len(layers) \in Nat /\ Len(layers) > 0
  BY DEF LayerStack
<1>2. top = layers[Len(layers)] /\ top \in Names /\ Has(top)
  BY <1>1 DEF Layer!Last, Has
<1> HIDE DEF top
<1>3. /\ LayerStack' /\ OpenQuestion' /\ \A n \in Names : Has(n)' <=> Has(n) /\ n # top
  <2>1. CASE top = "confirm" /\ Layer!Settled("no")
    <3>1. shown # 0
      BY <1>2, <2>1 DEF OpenQuestion
    <3> QED BY <2>1, <3>1, SettleKeeps
  <2>2. CASE top # "confirm" /\ Layer!Popped(top) /\ UNCHANGED <<shown, answers>>
    BY <1>2, <2>2, PopKeeps, PopKeepsQuestion
  <2> QED BY <2>1, <2>2 DEF top
<1>4. layers' \in Seq(Names)
  BY <1>3 DEF LayerStack
<1>5. /\ Layer!ToSet(layers) = {n \in Names : Has(n)}
      /\ Layer!ToSet(layers') = {n \in Names : Has(n)'}
  <2>1. Layer!ToSet(layers) = {layers[i] : i \in 1 .. Len(layers)}
    BY <1>1 DEF Layer!ToSet
  <2>2. Layer!ToSet(layers') = {layers'[i] : i \in 1 .. Len(layers')}
    BY <1>4 DEF Layer!ToSet
  <2>3. \A i \in 1 .. Len(layers) : layers[i] \in Names
    BY <1>1
  <2>4. \A i \in 1 .. Len(layers') : layers'[i] \in Names
    BY <1>4
  <2> QED BY <2>1, <2>2, <2>3, <2>4 DEF Has
<1> QED BY <1>2, <1>3, <1>5 DEF top

\* One press of Escape, where the focus is.
LEMMA EscapeKeeps ==
  ASSUME LayerInv, Layer!Escape
  PROVE  LayerInv'
<1>0. LayerStack /\ OpenQuestion /\ layers \in Seq(Names)
  BY DEF LayerInv, LayerStack
<1>1. escaped' = [top |-> IF layers = <<>> THEN "none" ELSE Layer!Last(layers), closed |-> Layer!Closed]
  BY DEF Layer!Escape
\* Nothing lies on the stack: a draft, the panel, or one of the page.
<1>2. ASSUME layers = <<>>, UNCHANGED <<layers, openCount, shown, answers>>,
             Layer!Closed = {} \/ \E x : Layer!Closed = {x}
      PROVE  LayerInv'
  <2>1. LayerStack' /\ OpenQuestion'
    BY <1>0, <1>2, SameLayers
  <2>2. Layer!Cardinality(Layer!Closed) <= 1
    BY <1>2, FewElements
  <2>3. escaped'.top = "none" /\ escaped'.closed = Layer!Closed
    BY <1>1, <1>2
  <2>4. Layer!EscClosesTop'
    BY <2>2, <2>3 DEF Layer!EscClosesTop
  <2> QED BY <2>1, <2>4 DEF LayerInv
<1>3. CASE Layer!EscInField
  <2>1. /\ layers = <<>> /\ UNCHANGED <<layers, openCount, shown, answers>> /\ UNCHANGED <<multi, detail, nav>>
    BY <1>3 DEF Layer!EscInField
  <2>2. Layer!Closed = {} \/ Layer!Closed = {"draft"}
    BY <2>1, Zenon DEF Layer!Closed
  <2> QED BY <1>2, <2>1, <2>2
<1>4. CASE Layer!EscInPanel
  <2>1. layers = <<>> /\ UNCHANGED <<text, multi, nav, shown, answers>> /\ Layer!Popped("menu")
    BY <1>4 DEF Layer!EscInPanel
  <2>2. UNCHANGED <<layers, openCount>>
    <3>1. ~Layer!In("menu")
      BY <2>1 DEF Layer!In, Layer!ToSet
    <3>2. openCount' = openCount - 0
      BY <2>1, <3>1 DEF Layer!Popped
    <3>3. openCount \in Int
      BY <1>0 DEF LayerStack, One
    <3> QED BY <2>1, <3>1, <3>2, <3>3 DEF Layer!Popped
  <2>3. Layer!Closed = {} \/ Layer!Closed = {"detail"}
    BY <2>1, <2>2, Zenon DEF Layer!Closed
  <2> QED BY <1>2, <2>1, <2>2, <2>3
<1>5. CASE Layer!EscInStack
  <2>1. /\ layers # <<>> /\ UNCHANGED <<text, multi, detail, nav>>
        /\ \/ Layer!Last(layers) = "confirm" /\ Layer!Settled("no")
           \/ /\ Layer!Last(layers) # "confirm" /\ Layer!Popped(Layer!Last(layers))
              /\ UNCHANGED <<shown, answers>>
    BY <1>5 DEF Layer!EscInStack
  <2>2. /\ LayerStack' /\ OpenQuestion'
        /\ Layer!ToSet(layers) \ Layer!ToSet(layers') = {Layer!Last(layers)}
    BY <1>0, <2>1, TopKeeps
  <2>3. Layer!Closed = {Layer!Last(layers)}
    BY <2>1, <2>2, Zenon DEF Layer!Closed
  <2>4. escaped'.top = Layer!Last(layers) /\ escaped'.closed = {Layer!Last(layers)}
    BY <1>1, <2>1, <2>3
  <2>5. Layer!Cardinality({Layer!Last(layers)}) <= 1
    BY FewElements
  <2>6. Layer!EscClosesTop'
    BY <2>4, <2>5 DEF Layer!EscClosesTop
  <2> QED BY <2>2, <2>6 DEF LayerInv
<1>6. CASE Layer!EscOnPage
  <2>1. /\ layers = <<>> /\ UNCHANGED <<layers, openCount, text, shown, answers>>
        /\ \/ UNCHANGED <<detail, nav>>
           \/ UNCHANGED <<multi, nav>>
           \/ UNCHANGED <<multi, detail>>
    BY <1>6 DEF Layer!EscOnPage
  <2>2. Layer!Closed = {} \/ \E x : Layer!Closed = {x}
    <3>1. Layer!ToSet(layers) \ Layer!ToSet(layers') = {}
      BY <2>1
    <3>2. Layer!Closed = {} \/ Layer!Closed = {"multi"} \/ Layer!Closed = {"detail"} \/ Layer!Closed = {"nav"}
      <4>1. CASE UNCHANGED <<detail, nav>>
        BY <2>1, <3>1, <4>1, Zenon DEF Layer!Closed
      <4>2. CASE UNCHANGED <<multi, nav>>
        BY <2>1, <3>1, <4>2, Zenon DEF Layer!Closed
      <4>3. CASE UNCHANGED <<multi, detail>>
        BY <2>1, <3>1, <4>3, Zenon DEF Layer!Closed
      <4> QED BY <2>1, <4>1, <4>2, <4>3
    <3> QED BY <3>2
  <2> QED BY <1>2, <2>1, <2>2
<1> QED BY <1>3, <1>4, <1>5, <1>6 DEF Layer!Escape

LEMMA LayerStart ==
  ASSUME Layer!LayerInit
  PROVE  LayerInv
<1>1. layers = <<>> /\ openCount = 0 /\ shown = 0 /\ answers = <<>> /\ escaped = [top |-> "none", closed |-> {}]
  BY DEF Layer!LayerInit, Layer!NoEsc
<1>2. LayerStack /\ OpenQuestion
  BY <1>1 DEF LayerStack, OpenQuestion, One, Has
<1>3. Layer!EscClosesTop
  <2>1. Layer!Cardinality({}) <= 1
    BY FewElements
  <2> QED BY <1>1, <2>1 DEF Layer!EscClosesTop
<1> QED BY <1>2, <1>3 DEF LayerInv

LEMMA LayerNextKeeps ==
  ASSUME LayerInv, Layer!LayerNext
  PROVE  LayerInv'
<1>1. LayerStack /\ OpenQuestion
  BY DEF LayerInv
<1>2. \A l \in Names : Layer!In(l) <=> Has(l)
  BY <1>1, LayerIn
<1>3. /\ "ritual" \in Names /\ "settings" \in Names /\ "menu" \in Names /\ "reminders" \in Names
      /\ "confirm" \in Names
  BY DEF Names, Layer!Modals
\* Whatever opens and closes beside Escape leaves the last Escape alone.
<1>4. ASSUME LayerStack', OpenQuestion', escaped' = escaped PROVE LayerInv'
  <2>1. Layer!EscClosesTop'
    BY <1>4, Zenon DEF LayerInv, Layer!EscClosesTop
  <2> QED BY <1>4, <2>1 DEF LayerInv
<1>5. ASSUME NEW l \in Names, l # "confirm", Layer!Popped(l), UNCHANGED <<shown, answers, escaped>>
      PROVE  LayerInv'
  BY <1>1, <1>4, <1>5, PopKeepsQuestion
<1>6. ASSUME NEW l \in Names, l # "confirm", ~Has(l), Layer!Pushed(l), UNCHANGED <<shown, answers, escaped>>
      PROVE  LayerInv'
  BY <1>1, <1>4, <1>6, PushKeepsQuestion
<1>7. ASSUME UNCHANGED <<layers, openCount, shown, answers, escaped>> PROVE LayerInv'
  BY <1>1, <1>4, <1>7, SameLayers
<1>8. CASE Layer!OpenRitual
  BY <1>2, <1>3, <1>6, <1>8 DEF Layer!OpenRitual, Layer!Same
<1>9. CASE Layer!OpenSettings
  <2>1. ~Has("settings")
    <3>1. ~(openCount > 0)
      BY <1>9 DEF Layer!OpenSettings, Layer!Inert
    <3>2. openCount = One("ritual") + One("settings") + One("confirm")
      BY <1>1 DEF LayerStack
    <3> QED BY <3>1, <3>2 DEF One
  <2> QED BY <1>3, <1>6, <1>9, <2>1 DEF Layer!OpenSettings, Layer!Same
<1>10. CASE \E d \in {"ritual", "settings"} : Layer!CloseDialog(d)
  BY <1>3, <1>5, <1>10 DEF Layer!CloseDialog, Layer!Same
<1>11. CASE Layer!OpenMenu
  BY <1>2, <1>3, <1>6, <1>11 DEF Layer!OpenMenu, Layer!Same
<1>12. CASE Layer!ClickOutside
  BY <1>3, <1>5, <1>12 DEF Layer!ClickOutside, Layer!Same
<1>13. CASE Layer!RemindersArrive
  BY <1>2, <1>3, <1>6, <1>13 DEF Layer!RemindersArrive, Layer!Same
<1>14. CASE Layer!Collapse
  BY <1>3, <1>5, <1>14 DEF Layer!Collapse, Layer!Same
<1>15. CASE Layer!Ask
  <2>1. escaped' = escaped
    BY <1>15 DEF Layer!Ask
  <2> QED BY <1>1, <1>4, <1>15, <2>1, AskKeeps
<1>16. CASE \E ok \in {"yes", "no"} : Layer!Answer(ok)
  <2>1. PICK ok \in {"yes", "no"} : Layer!Answer(ok)
    BY <1>16
  <2>2. shown # 0 /\ Layer!Settled(ok) /\ escaped' = escaped
    BY <2>1 DEF Layer!Answer
  <2> QED BY <1>1, <1>4, <2>2, SettleKeeps
<1>17. CASE Layer!FocusPanel \/ Layer!TypeIn \/ Layer!SelectMany \/ Layer!OpenTask \/ Layer!OpenDrawer
  BY <1>7, <1>17 DEF Layer!FocusPanel, Layer!TypeIn, Layer!SelectMany, Layer!OpenTask, Layer!OpenDrawer, Layer!Same
<1>18. CASE \E b \in BOOLEAN : Layer!Shortcut(b)
  <2>1. PICK b \in BOOLEAN : Layer!Shortcut(b)
    BY <1>18
  <2>2. UNCHANGED <<shown, answers, escaped>> /\ (Layer!Popped("menu") \/ UNCHANGED <<layers, openCount>>)
    BY <2>1 DEF Layer!Shortcut
  <2> QED BY <1>3, <1>5, <1>7, <2>2
<1>19. CASE Layer!Escape
  BY <1>19, EscapeKeeps
<1> QED BY <1>8, <1>9, <1>10, <1>11, <1>12, <1>13, <1>14, <1>15, <1>16, <1>17, <1>18, <1>19
        DEF Layer!LayerNext

LEMMA LayerHolds ==
  ASSUME LayerInv
  PROVE  Layer!EscClosesTop /\ Layer!NoneStuck
<1>1. LayerStack /\ OpenQuestion /\ Layer!EscClosesTop
  BY DEF LayerInv
<1>2. \A n \in Names : Layer!In(n) <=> Has(n)
  BY <1>1, LayerIn
<1>3. Layer!Inert <=> Layer!ToSet(layers) \cap Layer!Modals # {}
  <2>1. openCount = One("ritual") + One("settings") + One("confirm")
    BY <1>1 DEF LayerStack
  <2>2. openCount > 0 <=> Has("ritual") \/ Has("settings") \/ Has("confirm")
    BY <2>1 DEF One
  <2>3. \A n \in Layer!Modals : n \in Layer!ToSet(layers) <=> Has(n)
    BY <1>2 DEF Layer!In, Names
  <2> QED BY <2>2, <2>3 DEF Layer!Inert, Layer!Modals
<1>4. \A q \in DOMAIN answers : answers[q] = "open" => q = shown /\ Layer!In("confirm")
  <2>1. DOMAIN answers = 1 .. Len(answers)
    BY <1>1 DEF OpenQuestion
  <2>2. \A q \in 1 .. Len(answers) : q # 0
    OBVIOUS
  <2> QED BY <1>1, <1>2, <2>1, <2>2 DEF OpenQuestion, Names, Layer!Modals
<1> QED BY <1>1, <1>3, <1>4 DEF Layer!NoneStuck

\* However dialogs, menus, panels and fields open and close over each other, Escape closes the
\* layer on top of the stack of escStack.ts and none below it, and every question of confirm
\* that lost its dialog has been answered, so that no caller waits for ever.
THEOREM EscapeClosesTheTop == ScreensSpec => []LayersTrue
<1> DEFINE Inv == part = "layers" => LayerInv
<1>1. ScreensInit => Inv
  BY LayerStart DEF ScreensInit
<1>2. Inv /\ [ScreensNext]_<<part, vars, layerVars, dropVars, laneVars, turnVars, parseVars,
                              viewVars, chipVars, hookVars, ruleVars, pickVars, subVars, orderVars>> => Inv'
  <2> SUFFICES ASSUME Inv, [ScreensNext]_<<part, vars, layerVars, dropVars, laneVars, turnVars, parseVars,
                              viewVars, chipVars, hookVars, ruleVars, pickVars, subVars, orderVars>>,
                      part' = "layers"
               PROVE  LayerInv'
    OBVIOUS
  <2>1. part = "layers" /\ (Layer!LayerNext \/ UNCHANGED layerVars)
    BY DEF ScreensNext
  <2>2. LayerInv
    BY <2>1
  <2>3. CASE UNCHANGED layerVars
    <3>1. UNCHANGED <<layers, openCount, shown, answers, escaped>>
      BY <2>3 DEF layerVars
    <3>2. LayerStack' /\ OpenQuestion'
      BY <2>2, <3>1, SameLayers DEF LayerInv
    <3> QED BY <2>2, <3>1, <3>2, Zenon DEF LayerInv, Layer!EscClosesTop
  <2> QED BY <2>1, <2>2, <2>3, LayerNextKeeps
<1>3. Inv => LayersTrue
  BY LayerHolds DEF LayersTrue
<1> QED BY <1>1, <1>2, <1>3, PTL DEF ScreensSpec

-----------------------------------------------------------------------------
(* Places, searches and saved filters.                                     *)

Places  == {<<"smart", "all">>} \cup {View!List(l) : l \in ListIds} \cup {View!TagPlace(g) : g \in TagIds}
             \cup {View!Search(w) : w \in {"w", "wo"}}
Filters == [tags : SUBSET TagIds, mode : {"any", "all"}, status : {"all", "todo", "done"}]
Scopes  == [place : Places, view : {"list", "board"}, sortBy : {"smart", "due"}]
Queries == [old : BOOLEAN, filter : Filters, scope : Scopes \cup {Nowhere}]

ViewTypes ==
  /\ filter \in Filters /\ saved \in Seq(Queries) /\ applied \in 0 .. Len(saved)
  /\ place \in Places /\ preSearch \in Places /\ keyword \in {"", "w", "wo"}
  /\ view \in {"list", "board"} /\ sortBy \in {"smart", "due"}
  /\ there \subseteq {View!List(l) : l \in ListIds} \cup {View!TagPlace(g) : g \in TagIds}

\* A word that is searched for is the place, and then alone a search has begun.
SearchUnderWay ==
  /\ keyword # "" => place = View!Search(keyword)
  /\ keyword # "" <=> began # Nowhere

NothingGone == View!Exists(place) /\ View!Exists(preSearch) /\ \A g \in filter.tags : View!TagPlace(g) \in there

ViewInv ==
  /\ ViewTypes /\ SearchUnderWay /\ NothingGone
  /\ began # Nowhere => preSearch = began
  /\ many = FALSE => picked = {}
  /\ View!SavedReturns /\ View!PicksInSight

LEMMA PlacesAre ==
  /\ Nowhere \notin Places
  /\ \A w \in {"w", "wo"} : View!Search(w) \in Places /\ View!Search(w)[1] = "search"
  /\ <<"smart", "all">> \in Places /\ View!Exists(<<"smart", "all">>)
  /\ \A p \in Places : p[1] = "search" => p = View!Search("w") \/ p = View!Search("wo")
<1>1. Nowhere \notin Places
  BY ScreensAssumption, Zenon DEF Places
<1>2. \A w \in {"w", "wo"} : View!Search(w) \in Places /\ View!Search(w)[1] = "search"
  BY DEF Places, View!Search
<1>3. <<"smart", "all">> \in Places /\ View!Exists(<<"smart", "all">>)
  BY DEF Places, View!Exists
<1>4. \A p \in Places : p[1] = "search" => p = View!Search("w") \/ p = View!Search("wo")
  BY DEF Places, View!Search, View!List, View!TagPlace
<1> QED BY <1>1, <1>2, <1>3, <1>4

\* A filter that is read back is one, and asks for the tags that were saved.
LEMMA ReadBack ==
  ASSUME NEW q \in Queries
  PROVE  View!Normalized(q) \in Filters /\ View!Normalized(q).tags = q.filter.tags
<1>1. q.filter \in Filters /\ q.filter.tags \in SUBSET TagIds
  BY DEF Queries, Filters
<1> QED BY <1>1 DEF View!Normalized, View!EmptyFilter, Filters

LEMMA NoneOfThem ==
  ASSUME NEW s \in Seq(Queries)
  PROVE  Len(s) \in Nat /\ 0 \in 0 .. Len(s)
<1>1. Len(s) \in Nat
  BY LenProperties
<1> QED BY <1>1

LEMMA ViewStart ==
  ASSUME View!ViewInit
  PROVE  ViewInv
<1>1. /\ place = <<"smart", "all">> /\ preSearch = <<"smart", "all">> /\ keyword = "" /\ view = "list"
      /\ sortBy = "smart" /\ filter = View!EmptyFilter /\ many = FALSE /\ picked = {} /\ applied = 0
      /\ began = Nowhere
      /\ there = {View!List(l) : l \in ListIds} \cup {View!TagPlace(g) : g \in TagIds}
  BY DEF View!ViewInit
<1>2. filter \in Filters /\ filter.tags = {}
  BY <1>1 DEF Filters, View!EmptyFilter
<1>3. saved \in Seq(Queries)
  <2>1. CASE saved = <<>>
    BY <2>1
  <2>2. CASE saved # <<>>
    <3>1. PICK g \in TagIds :
            saved = <<[old |-> TRUE, filter |-> [View!EmptyFilter EXCEPT !.tags = {g}], scope |-> Nowhere]>>
      BY <2>2 DEF View!ViewInit
    <3>2. [View!EmptyFilter EXCEPT !.tags = {g}] \in Filters
      BY DEF View!EmptyFilter, Filters
    <3>3. [old |-> TRUE, filter |-> [View!EmptyFilter EXCEPT !.tags = {g}], scope |-> Nowhere] \in Queries
      BY <3>2 DEF Queries
    <3> QED BY <3>1, <3>3
  <2> QED BY <2>1, <2>2
<1>4. ViewTypes
  <2>1. applied \in 0 .. Len(saved)
    BY <1>1, <1>3, NoneOfThem
  <2> QED BY <1>1, <1>2, <1>3, <2>1, PlacesAre DEF ViewTypes
<1>5. NothingGone /\ SearchUnderWay
  BY <1>1, <1>2, PlacesAre DEF NothingGone, SearchUnderWay
<1>6. View!SavedReturns /\ View!PicksInSight
  BY <1>1 DEF View!SavedReturns, View!PicksInSight
<1> QED BY <1>1, <1>4, <1>5, <1>6 DEF ViewInv

\* What is asked for is there: a word, or the place.
LEMMA AskedIs ==
  ASSUME ViewTypes, SearchUnderWay
  PROVE  View!Asked = place
BY DEF View!Asked, SearchUnderWay

\* A step that calls up no saved filter and leaves the picks alone.
SavedStay == saved' = saved \/ \E q \in Queries : saved' = Append(saved, q)

LEMMA SavedShown ==
  ASSUME ViewInv, SavedStay, UNCHANGED <<applied, filter, place, view, sortBy, keyword>>
  PROVE  View!SavedReturns' /\ saved' \in Seq(Queries) /\ applied' \in 0 .. Len(saved')
<1>1. saved \in Seq(Queries) /\ Len(saved) \in Nat /\ applied \in 0 .. Len(saved) /\ View!SavedReturns
  <2>1. saved \in Seq(Queries) /\ applied \in 0 .. Len(saved) /\ View!SavedReturns
    BY DEF ViewInv, ViewTypes
  <2> QED BY <2>1, NoneOfThem
<1>2. /\ saved' \in Seq(Queries) /\ Len(saved') \in Nat /\ Len(saved) <= Len(saved')
      /\ \A i \in 1 .. Len(saved) : saved'[i] = saved[i]
  <2>1. CASE saved' = saved
    BY <1>1, <2>1
  <2>2. CASE \E q \in Queries : saved' = Append(saved, q)
    BY <1>1, <2>2
  <2> QED BY <2>1, <2>2 DEF SavedStay
<1>3. applied # 0 => saved'[applied] = saved[applied]
  BY <1>1, <1>2
<1>4. View!SavedReturns'
  BY <1>1, <1>3, Zenon DEF View!SavedReturns, View!Asked, View!Normalized, View!Search, View!EmptyFilter
<1>5. applied' \in 0 .. Len(saved')
  BY <1>1, <1>2
<1> QED BY <1>2, <1>4, <1>5

\* Going somewhere.
LEMMA SelectKeeps ==
  ASSUME ViewInv, NEW p \in there \cup {<<"smart", "all">>}, View!Select(p)
  PROVE  ViewInv'
<1>1. /\ View!Exists(p) /\ place' = p /\ view' = "list" /\ keyword' = "" /\ many' = FALSE /\ picked' = {}
      /\ applied' = 0 /\ began' = Nowhere
      /\ UNCHANGED <<sortBy, preSearch, filter, saved, there>>
  BY DEF View!Select
<1>2. ViewTypes /\ NothingGone /\ p \in Places
  BY DEF ViewInv, ViewTypes, Places
<1>3. ViewTypes'
  <2>1. applied' \in 0 .. Len(saved')
    BY <1>1, <1>2, NoneOfThem DEF ViewTypes
  <2> QED BY <1>1, <1>2, <2>1 DEF ViewTypes
<1>4. NothingGone'
  BY <1>1, <1>2, Zenon DEF NothingGone, View!Exists, View!TagPlace
<1>5. SearchUnderWay'
  BY <1>1 DEF SearchUnderWay
<1>6. View!SavedReturns' /\ View!PicksInSight'
  BY <1>1 DEF View!SavedReturns, View!PicksInSight
<1> QED BY <1>1, <1>3, <1>4, <1>5, <1>6 DEF ViewInv

\* Another view, another order, or one task more or less that is picked, and what is saved.
LEMMA StaysThere ==
  ASSUME ViewInv, UNCHANGED <<place, keyword, preSearch, filter, there, began>>,
         many' = FALSE => picked' = {}, picked' \subseteq View!Visible(View!Asked, filter),
         view' \in {"list", "board"}, sortBy' \in {"smart", "due"}, SavedStay,
         applied' = 0 \/ UNCHANGED <<applied, view, sortBy>>
  PROVE  ViewInv'
<1>1. ViewTypes /\ NothingGone /\ SearchUnderWay /\ (began # Nowhere => preSearch = began)
  BY DEF ViewInv
<1>2. saved' \in Seq(Queries) /\ applied' \in 0 .. Len(saved') /\ View!SavedReturns'
  <2>1. CASE applied' = 0
    <3>1. saved' \in Seq(Queries)
      <4>1. saved \in Seq(Queries)
        BY <1>1 DEF ViewTypes
      <4>2. \A q \in Queries : Append(saved, q) \in Seq(Queries)
        BY <4>1, AppendProperties
      <4> QED BY <4>1, <4>2 DEF SavedStay
    <3> QED BY <2>1, <3>1, NoneOfThem DEF View!SavedReturns
  <2>2. CASE UNCHANGED <<applied, view, sortBy>>
    BY <2>2, SavedShown
  <2> QED BY <2>1, <2>2
<1>3. ViewTypes'
  BY <1>1, <1>2 DEF ViewTypes
<1>4. NothingGone' /\ SearchUnderWay' /\ (began' # Nowhere => preSearch' = began')
  BY <1>1, Zenon DEF NothingGone, SearchUnderWay, View!Exists, View!TagPlace, View!Search
<1>5. View!PicksInSight'
  BY Zenon DEF View!PicksInSight, View!Visible, View!Asked, View!InPlace, View!Matches, View!Search
<1> QED BY <1>2, <1>3, <1>4, <1>5 DEF ViewInv

\* The first word notes the place, the next ones do not, and none leads back.
LEMMA SetKeywordKeeps ==
  ASSUME ViewInv, NEW w \in {"", "w", "wo"}, View!SetKeyword(w)
  PROVE  ViewInv'
<1>1. /\ many = FALSE /\ (place[1] = "search" <=> keyword # "")
      /\ keyword' = w /\ applied' = 0
      /\ w # "" => /\ place' = View!Search(w)
                   /\ preSearch' = (IF place[1] # "search" THEN place ELSE preSearch)
      /\ w = "" => place' = preSearch /\ preSearch' = preSearch
      /\ began' = (IF w = "" THEN Nowhere ELSE IF began = Nowhere THEN place ELSE began)
      /\ UNCHANGED <<view, sortBy, filter, saved, there, many, picked>>
  BY DEF View!SetKeyword
<1>2. ViewTypes /\ NothingGone /\ SearchUnderWay /\ (began # Nowhere => preSearch = began) /\ picked = {}
  BY <1>1 DEF ViewInv
<1>3. ViewTypes'
  <2>1. applied' \in 0 .. Len(saved')
    BY <1>1, <1>2, NoneOfThem DEF ViewTypes
  <2>2. place' \in Places /\ preSearch' \in Places
    BY <1>1, <1>2, PlacesAre DEF ViewTypes
  <2> QED BY <1>1, <1>2, <2>1, <2>2 DEF ViewTypes
<1>4. SearchUnderWay' /\ (began' # Nowhere => preSearch' = began')
  <2>1. CASE w = ""
    BY <1>1, <2>1 DEF SearchUnderWay
  <2>2. CASE w # "" /\ place[1] = "search"
    <3>1. began # Nowhere
      BY <1>1, <1>2, <2>2 DEF SearchUnderWay
    <3>2. began' = began /\ preSearch' = preSearch /\ keyword' = w /\ place' = View!Search(w)
      BY <1>1, <2>2, <3>1
    <3> QED BY <1>2, <2>2, <3>1, <3>2, Zenon DEF SearchUnderWay, View!Search
  <2>3. CASE w # "" /\ place[1] # "search"
    <3>1. began = Nowhere
      BY <1>1, <1>2, <2>3 DEF SearchUnderWay
    <3>2. began' = place /\ preSearch' = place /\ keyword' = w /\ place' = View!Search(w)
      BY <1>1, <2>3, <3>1
    <3>3. place # Nowhere
      BY <1>2, PlacesAre DEF ViewTypes
    <3> QED BY <2>3, <3>2, <3>3, Zenon DEF SearchUnderWay, View!Search
  <2> QED BY <2>1, <2>2, <2>3
<1>5. NothingGone'
  <2>1. View!Exists(place) /\ View!Exists(preSearch)
    BY <1>2 DEF NothingGone
  <2>2. \A v \in {"w", "wo"} : View!Exists(View!Search(v))
    BY PlacesAre DEF View!Exists
  <2>3. /\ place' = preSearch \/ \E v \in {"w", "wo"} : place' = View!Search(v)
        /\ preSearch' = preSearch \/ preSearch' = place
    BY <1>1
  <2>4. View!Exists(place)' /\ View!Exists(preSearch)'
    BY <1>1, <2>1, <2>2, <2>3 DEF View!Exists
  <2>5. \A g \in filter'.tags : View!TagPlace(g) \in there'
    BY <1>1, <1>2, Zenon DEF NothingGone
  <2> QED BY <2>4, <2>5, Zenon DEF NothingGone, View!TagPlace
<1>6. View!SavedReturns' /\ View!PicksInSight'
  BY <1>1, <1>2 DEF View!SavedReturns, View!PicksInSight
<1> QED BY <1>1, <1>2, <1>3, <1>4, <1>5, <1>6 DEF ViewInv

\* Another filter, which names what is there and hides nothing that is picked.
LEMMA SetFilterKeeps ==
  ASSUME ViewInv, NEW f \in Filters, View!SetFilter(f), \A g \in f.tags : View!TagPlace(g) \in there
  PROVE  ViewInv'
<1>1. /\ picked \subseteq View!Visible(View!Asked, f) /\ filter' = f /\ applied' = 0
      /\ UNCHANGED <<place, view, sortBy, keyword, preSearch, saved, there, many, picked, began>>
  BY DEF View!SetFilter
<1>2. ViewTypes /\ NothingGone /\ SearchUnderWay /\ (began # Nowhere => preSearch = began)
      /\ (many = FALSE => picked = {})
  BY DEF ViewInv
<1>3. ViewTypes'
  <2>1. applied' \in 0 .. Len(saved')
    BY <1>1, <1>2, NoneOfThem DEF ViewTypes
  <2> QED BY <1>1, <1>2, <2>1 DEF ViewTypes
<1>4. NothingGone' /\ SearchUnderWay'
  BY <1>1, <1>2, Zenon DEF NothingGone, SearchUnderWay, View!Exists, View!TagPlace, View!Search
<1>5. View!PicksInSight'
  BY <1>1, Zenon DEF View!PicksInSight, View!Visible, View!Asked, View!InPlace, View!Matches, View!Search
<1>6. View!SavedReturns'
  BY <1>1 DEF View!SavedReturns
<1> QED BY <1>1, <1>2, <1>3, <1>4, <1>5, <1>6 DEF ViewInv

LEMMA PickKeeps ==
  ASSUME ViewInv, NEW t \in Todos, View!Pick(t)
  PROVE  ViewInv'
<1>1. /\ t \in View!Visible(View!Asked, filter) /\ many' = TRUE
      /\ picked' = View!SymDiff(picked, {t})
      /\ UNCHANGED <<place, view, sortBy, keyword, preSearch, filter, saved, there, applied, began>>
  BY DEF View!Pick
<1>2. picked \subseteq View!Visible(View!Asked, filter)
  BY DEF ViewInv, View!PicksInSight
<1>3. picked' \subseteq View!Visible(View!Asked, filter)
  BY <1>1, <1>2 DEF View!SymDiff
<1>4. view \in {"list", "board"} /\ sortBy \in {"smart", "due"}
  BY DEF ViewInv, ViewTypes
<1> QED BY <1>1, <1>3, <1>4, StaysThere DEF SavedStay

LEMMA SaveFilterKeeps ==
  ASSUME ViewInv, View!SaveFilter
  PROVE  ViewInv'
<1>1. /\ saved' = Append(saved, [old |-> FALSE, filter |-> filter,
                                scope |-> [place |-> place, view |-> view, sortBy |-> sortBy]])
      /\ UNCHANGED <<place, view, sortBy, keyword, preSearch, filter, there, many, picked, applied, began>>
  BY DEF View!SaveFilter
<1>2. filter \in Filters /\ place \in Places /\ view \in {"list", "board"} /\ sortBy \in {"smart", "due"}
      /\ (many = FALSE => picked = {}) /\ picked \subseteq View!Visible(View!Asked, filter)
  BY DEF ViewInv, ViewTypes, View!PicksInSight
<1>3. [old |-> FALSE, filter |-> filter, scope |-> [place |-> place, view |-> view, sortBy |-> sortBy]] \in Queries
  BY <1>2 DEF Queries, Scopes
<1>4. SavedStay
  BY <1>1, <1>3 DEF SavedStay
<1> QED BY <1>1, <1>2, <1>4, StaysThere

\* What is called up is what was saved.
LEMMA ApplyKeeps ==
  ASSUME ViewInv, NEW i \in DOMAIN saved, View!ApplySavedFilter(i)
  PROVE  ViewInv'
<1> DEFINE q == saved[i]
<1>1. ViewTypes /\ NothingGone /\ saved \in Seq(Queries) /\ Len(saved) \in Nat /\ i \in 1 .. Len(saved)
  <2>1. ViewTypes /\ NothingGone /\ saved \in Seq(Queries)
    BY DEF ViewInv, ViewTypes
  <2> QED BY <2>1, LenProperties
<1>2. q \in Queries
  BY <1>1
<1>3. /\ keyword = "" /\ picked = {} /\ View!Exists(View!PlaceOf(q))
      /\ \A g \in q.filter.tags : View!TagPlace(g) \in there
      /\ filter' = View!Normalized(q)
      /\ q.scope = Nowhere => UNCHANGED <<place, view, sortBy>>
      /\ q.scope # Nowhere => place' = q.scope.place /\ view' = q.scope.view /\ sortBy' = q.scope.sortBy
      /\ applied' = i /\ began' = Nowhere
      /\ UNCHANGED <<keyword, preSearch, saved, there, many, picked>>
  BY DEF View!ApplySavedFilter
<1> HIDE DEF q
<1>4. View!Normalized(q) \in Filters /\ View!Normalized(q).tags = q.filter.tags
  BY <1>2, ReadBack
<1>5. q.scope # Nowhere =>
        q.scope.place \in Places /\ q.scope.view \in {"list", "board"} /\ q.scope.sortBy \in {"smart", "due"}
  BY <1>2 DEF Queries, Scopes
<1>6. place' \in Places /\ view' \in {"list", "board"} /\ sortBy' \in {"smart", "due"}
  BY <1>1, <1>3, <1>5 DEF ViewTypes
<1>7. ViewTypes'
  <2>1. applied' \in 0 .. Len(saved')
    <3>1. i \in 0 .. Len(saved)
      BY <1>1
    <3> QED BY <1>3, <3>1
  <2> QED BY <1>1, <1>3, <1>4, <1>6, <2>1 DEF ViewTypes
<1>8. NothingGone'
  <2>1. View!Exists(place)'
    BY <1>1, <1>3, Zenon DEF NothingGone, View!Exists, View!PlaceOf
  <2>2. View!Exists(preSearch)'
    BY <1>1, <1>3, Zenon DEF NothingGone, View!Exists
  <2>3. \A g \in filter'.tags : View!TagPlace(g) \in there'
    BY <1>3, <1>4
  <2> QED BY <2>1, <2>2, <2>3, Zenon DEF NothingGone, View!TagPlace
<1>9. SearchUnderWay'
  BY <1>3 DEF SearchUnderWay
<1>10. View!SavedReturns'
  <2>1. View!Asked' = place'
    BY <1>3 DEF View!Asked
  <2>2. saved'[applied'] = q
    BY <1>3 DEF q
  <2>3. filter' = View!Normalized(saved'[applied'])
    BY <1>3, <2>2
  <2>4. saved'[applied'].scope # Nowhere =>
          <<View!Asked', view', sortBy'>> =
            <<saved'[applied'].scope.place, saved'[applied'].scope.view, saved'[applied'].scope.sortBy>>
    BY <1>3, <2>1, <2>2
  <2> QED BY <2>3, <2>4, Zenon DEF View!SavedReturns, View!Asked, View!Normalized, View!EmptyFilter, View!Search
<1>11. View!PicksInSight'
  BY <1>3 DEF View!PicksInSight
<1> QED BY <1>3, <1>7, <1>8, <1>9, <1>10, <1>11 DEF ViewInv

LEMMA DeleteSavedKeeps ==
  ASSUME ViewInv, NEW i \in DOMAIN saved, View!DeleteSavedFilter(i)
  PROVE  ViewInv'
<1>1. /\ saved' = View!RemoveAt(saved, i) /\ applied' = 0
      /\ UNCHANGED <<place, view, sortBy, keyword, preSearch, filter, there, many, picked, began>>
  BY DEF View!DeleteSavedFilter
<1>2. ViewTypes /\ NothingGone /\ SearchUnderWay /\ (began # Nowhere => preSearch = began)
      /\ (many = FALSE => picked = {}) /\ View!PicksInSight /\ saved \in Seq(Queries)
  BY DEF ViewInv, ViewTypes
<1>3. saved' \in Seq(Queries) /\ applied' \in 0 .. Len(saved')
  <2>1. i \in 1 .. Len(saved)
    BY <1>2, LenProperties
  <2>2. saved' = Without(saved, i)
    BY <1>1 DEF View!RemoveAt, Without
  <2>3. saved' \in Seq(Queries)
    BY <1>2, <2>1, <2>2, WithoutIs
  <2> QED BY <1>1, <2>3, NoneOfThem
<1>4. ViewTypes'
  BY <1>1, <1>2, <1>3 DEF ViewTypes
<1>5. NothingGone' /\ SearchUnderWay' /\ View!PicksInSight'
  BY <1>1, <1>2, Zenon DEF NothingGone, SearchUnderWay, View!Exists, View!TagPlace, View!Search,
     View!PicksInSight, View!Visible, View!Asked, View!InPlace, View!Matches
<1>6. View!SavedReturns'
  BY <1>1 DEF View!SavedReturns
<1> QED BY <1>1, <1>2, <1>4, <1>5, <1>6 DEF ViewInv

\* A list or a tag that is deleted is looked at by nobody.
LEMMA DeleteKeeps ==
  ASSUME ViewInv, NEW p \in there, View!Delete(p)
  PROVE  ViewInv'
<1>1. /\ many = FALSE /\ preSearch # p /\ (\A g \in filter.tags : p # View!TagPlace(g))
      /\ there' = there \ {p} /\ place' = (IF place = p THEN <<"smart", "all">> ELSE place) /\ applied' = 0
      /\ UNCHANGED <<view, sortBy, keyword, preSearch, filter, saved, many, picked, began>>
  BY DEF View!Delete
<1>2. ViewTypes /\ NothingGone /\ SearchUnderWay /\ (began # Nowhere => preSearch = began) /\ picked = {}
  BY <1>1 DEF ViewInv
<1>3. ViewTypes'
  <2>1. applied' \in 0 .. Len(saved')
    BY <1>1, <1>2, NoneOfThem DEF ViewTypes
  <2>2. place' \in Places
    BY <1>1, <1>2, PlacesAre DEF ViewTypes
  <2>3. there' \subseteq {View!List(l) : l \in ListIds} \cup {View!TagPlace(g) : g \in TagIds}
    BY <1>1, <1>2 DEF ViewTypes
  <2> QED BY <1>1, <1>2, <2>1, <2>2, <2>3 DEF ViewTypes
<1>4. NothingGone'
  <2>1. View!Exists(place)'
    <3>1. CASE place = p
      <4>1. place' = <<"smart", "all">>
        BY <1>1, <3>1
      <4> QED BY <4>1 DEF View!Exists
    <3>2. CASE place # p
      BY <1>1, <1>2, <3>2 DEF NothingGone, View!Exists
    <3> QED BY <3>1, <3>2
  <2>2. View!Exists(preSearch)'
    BY <1>1, <1>2 DEF NothingGone, View!Exists
  <2>3. \A g \in filter'.tags : View!TagPlace(g) \in there'
    BY <1>1, <1>2 DEF NothingGone
  <2> QED BY <2>1, <2>2, <2>3, Zenon DEF NothingGone, View!TagPlace
<1>5. SearchUnderWay'
  <2>1. keyword # "" => place # p
    <3> HAVE keyword # ""
    <3>1. place[1] = "search"
      BY <1>2, PlacesAre DEF SearchUnderWay, ViewTypes
    <3>2. p[1] # "search"
      <4>1. (\E l \in ListIds : p = View!List(l)) \/ \E g \in TagIds : p = View!TagPlace(g)
        BY <1>2 DEF ViewTypes
      <4>2. \A l : View!List(l)[1] = "list" /\ View!TagPlace(l)[1] = "tag"
        BY DEF View!List, View!TagPlace
      <4> QED BY <4>1, <4>2
    <3> QED BY <3>1, <3>2
  <2>2. keyword # "" => place' = View!Search(keyword)
    BY <1>1, <1>2, <2>1 DEF SearchUnderWay
  <2> QED BY <1>1, <1>2, <2>2, Zenon DEF SearchUnderWay, View!Search
<1>6. View!SavedReturns' /\ View!PicksInSight'
  BY <1>1, <1>2 DEF View!SavedReturns, View!PicksInSight
<1> QED BY <1>1, <1>2, <1>3, <1>4, <1>5, <1>6 DEF ViewInv

LEMMA ViewNextKeeps ==
  ASSUME ViewInv, View!ViewNext
  PROVE  ViewInv'
<1>1. /\ filter \in Filters /\ \A g \in filter.tags : View!TagPlace(g) \in there
      /\ view \in {"list", "board"} /\ sortBy \in {"smart", "due"}
      /\ (many = FALSE => picked = {}) /\ picked \subseteq View!Visible(View!Asked, filter)
  BY DEF ViewInv, ViewTypes, NothingGone, View!PicksInSight
<1>2. CASE \E p \in there \cup {<<"smart", "all">>} : View!Select(p)
  BY <1>2, SelectKeeps
<1>3. CASE \E v \in {"list", "board"} : View!SetView(v)
  <2>1. /\ UNCHANGED <<place, sortBy, keyword, preSearch, filter, saved, there, many, picked, began>>
        /\ view' \in {"list", "board"} /\ applied' = 0
    BY <1>3 DEF View!SetView
  <2> QED BY <1>1, <2>1, StaysThere DEF SavedStay
<1>4. CASE \E s \in {"smart", "due"} : View!SetSortBy(s)
  <2>1. /\ UNCHANGED <<place, view, keyword, preSearch, filter, saved, there, many, picked, began>>
        /\ sortBy' \in {"smart", "due"} /\ applied' = 0
    BY <1>4 DEF View!SetSortBy
  <2> QED BY <1>1, <2>1, StaysThere DEF SavedStay
<1>5. CASE \E w \in {"", "w", "wo"} : View!SetKeyword(w)
  BY <1>5, SetKeywordKeeps
<1>6. CASE \E g \in TagIds : View!ToggleTag(g)
  <2>1. PICK g \in TagIds : View!ToggleTag(g)
    BY <1>6
  <2> DEFINE f == [filter EXCEPT !.tags = View!SymDiff(@, {g})]
  <2>2. View!TagPlace(g) \in there /\ View!SetFilter(f)
    BY <2>1 DEF View!ToggleTag
  <2>3. f \in Filters /\ f.tags \subseteq filter.tags \cup {g}
    BY <1>1 DEF Filters, View!SymDiff
  <2> QED BY <1>1, <2>2, <2>3, SetFilterKeeps
<1>7. CASE View!ToggleMode
  <2> DEFINE f == [filter EXCEPT !.mode = IF @ = "all" THEN "any" ELSE "all"]
  <2>1. View!SetFilter(f)
    BY <1>7 DEF View!ToggleMode
  <2>2. f \in Filters /\ f.tags = filter.tags
    BY <1>1 DEF Filters
  <2> QED BY <1>1, <2>1, <2>2, SetFilterKeeps
<1>8. CASE View!ClearFilter
  <2>1. View!EmptyFilter \in Filters /\ View!EmptyFilter.tags = {}
    BY DEF Filters, View!EmptyFilter
  <2> QED BY <1>8, <2>1, SetFilterKeeps DEF View!ClearFilter
<1>9. CASE \E s \in {"all", "todo", "done"} : View!SetStatus(s)
  <2>1. PICK s \in {"all", "todo", "done"} : View!SetFilter([filter EXCEPT !.status = s])
    BY <1>9 DEF View!SetStatus
  <2>2. [filter EXCEPT !.status = s] \in Filters /\ [filter EXCEPT !.status = s].tags = filter.tags
    BY <1>1 DEF Filters
  <2> QED BY <1>1, <2>1, <2>2, SetFilterKeeps
<1>10. CASE \E t \in Todos : View!Pick(t)
  BY <1>10, PickKeeps
<1>11. CASE View!SaveFilter
  BY <1>11, SaveFilterKeeps
<1>12. CASE \E i \in DOMAIN saved : View!ApplySavedFilter(i) \/ View!DeleteSavedFilter(i)
  BY <1>12, ApplyKeeps, DeleteSavedKeeps
<1>13. CASE \E p \in there : View!Delete(p)
  BY <1>13, DeleteKeeps
<1> QED BY <1>2, <1>3, <1>4, <1>5, <1>6, <1>7, <1>8, <1>9, <1>10, <1>11, <1>12, <1>13 DEF View!ViewNext

LEMMA ViewHolds ==
  ASSUME ViewInv
  PROVE  View!SavedReturns /\ View!WayBack /\ View!PicksInSight
<1>1. /\ NothingGone /\ View!SavedReturns /\ View!PicksInSight /\ (began # Nowhere => preSearch = began)
      /\ View!Asked = place
  BY AskedIs DEF ViewInv
<1> QED BY <1>1 DEF NothingGone, View!WayBack

\* For any lists, tags and tasks, and through deletions of what a saved filter named: a filter
\* that is called up (filter.ts) shows what was saved, a search that ends leads back to the
\* place it began at (setKeyword of AppStore.tsx), and what is picked is in sight.
THEOREM SavedViewsReturn == ScreensSpec => []ViewsTrue
<1> DEFINE Inv == part = "views" => ViewInv
<1>1. ScreensInit => Inv
  BY ViewStart DEF ScreensInit
<1>2. Inv /\ [ScreensNext]_<<part, vars, layerVars, dropVars, laneVars, turnVars, parseVars,
                              viewVars, chipVars, hookVars, ruleVars, pickVars, subVars, orderVars>> => Inv'
  <2> SUFFICES ASSUME Inv, [ScreensNext]_<<part, vars, layerVars, dropVars, laneVars, turnVars, parseVars,
                              viewVars, chipVars, hookVars, ruleVars, pickVars, subVars, orderVars>>,
                      part' = "views"
               PROVE  ViewInv'
    OBVIOUS
  <2>1. part = "views" /\ (View!ViewNext \/ UNCHANGED viewVars)
    BY DEF ScreensNext
  <2>2. ViewInv
    BY <2>1
  <2>3. CASE UNCHANGED viewVars
    <3>1. UNCHANGED <<place, view, sortBy, keyword, preSearch, filter, saved, there, many, picked,
                      applied, began>>
      BY <2>3 DEF viewVars
    <3>2. /\ (many = FALSE => picked = {}) /\ picked \subseteq View!Visible(View!Asked, filter)
          /\ view \in {"list", "board"} /\ sortBy \in {"smart", "due"}
      BY <2>2 DEF ViewInv, ViewTypes, View!PicksInSight
    <3> QED BY <2>2, <3>1, <3>2, StaysThere DEF SavedStay
  <2> QED BY <2>1, <2>2, <2>3, ViewNextKeeps
<1>3. Inv => ViewsTrue
  BY ViewHolds DEF ViewsTrue
<1> QED BY <1>1, <1>2, <1>3, PTL DEF ScreensSpec

-----------------------------------------------------------------------------
(* One card that is dragged about: its marks are those of its day and its  *)
(* priority, or of the user's hand.                                        *)

Cards == [list : CardLists, priority : 0 .. 3, tags : SUBSET CardTags, due : Int \cup {NoDay},
          time : Nat \cup {NoTime}, endTime : {NoTime}, important : BOOLEAN, urgent : BOOLEAN]

\* In column col of the grouping g, and in no other it came from.
Landed(c, g, from, col) ==
  Drop!InColumn(c, g, col) /\ (from # col => ~Drop!InColumn(c, g, from))

MarksRight(c, b) ==
  /\ "urgent" \notin b => c.urgent = Drop!DeriveUrgent(c.due)
  /\ "important" \notin b => c.important = Drop!DeriveImportant(c.priority)

DropInv ==
  /\ card \in Cards /\ (card.time # NoTime => card.due # NoDay)
  /\ length[1] = length[2]
  /\ landed.group # "none" => Landed(card, landed.group, landed.from, landed.col)
  /\ MarksRight(card, byHand)

LEMMA DropHolds ==
  ASSUME DropInv
  PROVE  Drop!LandsWhereDropped /\ Drop!BlockKept /\ Drop!MarksFollow
BY Zenon DEF DropInv, Landed, MarksRight, Drop!LandsWhereDropped, Drop!BlockKept, Drop!MarksFollow

LEMMA CardIs ==
  ASSUME NEW c \in Cards
  PROVE  /\ c.list \in CardLists /\ c.priority \in 0 .. 3 /\ c.tags \subseteq CardTags
         /\ c.due \in Int \cup {NoDay} /\ c.time \in Nat \cup {NoTime} /\ c.endTime = NoTime
         /\ c.important \in BOOLEAN /\ c.urgent \in BOOLEAN
BY DEF Cards

LEMMA DropStart ==
  ASSUME Drop!DropInit
  PROVE  DropInv
<1>1. PICK l \in CardLists, g \in SUBSET CardTags, d \in CardDues \cup {NoDay}, t \in {NoTime, 540}, e \in {NoTime, 600} :
        card = [list |-> l, priority |-> 0, tags |-> g, due |-> d, time |-> t, endTime |-> e,
                important |-> FALSE, urgent |-> Drop!DeriveUrgent(d)]
  BY DEF Drop!DropInit
<1>2. /\ card.due = NoDay => card.time = NoTime
      /\ card.endTime = NoTime
      /\ landed = [group |-> "none", col |-> "none", from |-> "none"] /\ byHand = {} /\ length = <<0, 0>>
  BY DEF Drop!DropInit, Drop!NoLanding
<1>3. card \in Cards
  <2>1. e = NoTime
    BY <1>1, <1>2
  <2>2. d \in Int \cup {NoDay} /\ t \in Nat \cup {NoTime}
    BY ScreensAssumption
  <2>3. Drop!DeriveUrgent(d) \in BOOLEAN
    BY DEF Drop!DeriveUrgent
  <2> QED BY <1>1, <2>1, <2>2, <2>3 DEF Cards
<1>4. MarksRight(card, byHand)
  <2>1. card.urgent = Drop!DeriveUrgent(card.due) /\ card.important = FALSE /\ card.priority = 0
    BY <1>1
  <2>2. Drop!DeriveImportant(0) = FALSE
    BY DEF Drop!DeriveImportant
  <2> QED BY <2>1, <2>2, Zenon DEF MarksRight
<1> QED BY <1>2, <1>3, <1>4 DEF DropInv

\* The tags after a drop on the column of one: it has that one, and lost the one it came from.
LEMMA TagsLand ==
  ASSUME card \in Cards, NEW from \in CardTags \cup {"none"}, NEW col \in CardTags \cup {"none"},
         Drop!InColumn(card, "tag", from), ~(from \in CardTags /\ col \in CardTags \ card.tags)
  PROVE  /\ Drop!TagsAfter(from, col) \subseteq CardTags
         /\ \A c : c.tags = Drop!TagsAfter(from, col) => Landed(c, "tag", from, col)
<1> DEFINE T    == card.tags
           next == (IF from \in CardTags THEN T \ {from} ELSE T) \cup {col}
           A    == Drop!TagsAfter(from, col)
<1>1. T \subseteq CardTags /\ IsFiniteSet(T) /\ "none" \notin CardTags
  <2>1. T \subseteq CardTags
    BY CardIs
  <2> QED BY <2>1, ScreensAssumption, FS_Subset
<1>2. IF from = "none" THEN T = {} ELSE from \in T
  BY DEF Drop!InColumn
<1>3. A = IF col = "none" THEN {}
          ELSE IF Drop!Cardinality(next) = Drop!Cardinality(T) THEN T ELSE next
  BY DEF Drop!TagsAfter
<1>4. \A S : Drop!Cardinality(S) = Cardinality(S)
  BY Zenon DEF Drop!Cardinality, Cardinality
<1> HIDE DEF T
<1>5. /\ A \subseteq CardTags
      /\ IF col = "none" THEN A = {} ELSE col \in A
      /\ from # col => IF from = "none" THEN A # {} ELSE from \notin A
  <2>1. CASE col = "none"
    BY <1>1, <1>3, <2>1
  <2>2. CASE col # "none" /\ from = col
    <3>1. next = T
      BY <1>2, <2>2
    <3> QED BY <1>1, <1>2, <1>3, <2>2, <3>1
  <2>3. CASE col # "none" /\ from = "none"
    <3>1. next = {col} /\ T = {}
      BY <1>1, <1>2, <2>3
    <3>2. Cardinality(next) = 1 /\ Cardinality(T) = 0
      BY <3>1, FS_Singleton, FS_EmptySet
    <3>3. A = next
      BY <1>3, <1>4, <2>3, <3>2
    <3> QED BY <2>3, <3>1, <3>3
  <2>4. CASE col # "none" /\ from # "none" /\ from # col
    <3>1. from \in T /\ col \in T
      BY <1>1, <1>2, <2>4 DEF T
    <3>2. next = T \ {from}
      BY <1>1, <2>4, <3>1
    <3>3. Cardinality(next) = Cardinality(T) - 1 /\ Cardinality(T) \in Nat
      BY <1>1, <3>1, <3>2, FS_RemoveElement, FS_CardinalityType
    <3>4. A = next
      BY <1>3, <1>4, <2>4, <3>3
    <3> QED BY <1>1, <2>4, <3>1, <3>2, <3>4
  <2> QED BY <2>1, <2>2, <2>3, <2>4
<1> HIDE DEF A, next
<1>6. ASSUME NEW c, c.tags = A PROVE Landed(c, "tag", from, col)
  BY <1>5, <1>6 DEF Landed, Drop!InColumn
<1> QED BY <1>5, <1>6 DEF A

\* The day a column of the board stands for lies in that column, and in no other.
LEMMA DaysLand ==
  ASSUME NEW from \in Drop!Columns("due"), NEW col \in Drop!Columns("due"), NEW c,
         c.due = Drop!DayOf(col)
  PROVE  Drop!DayOf(col) \in Int \cup {NoDay} /\ Landed(c, "due", from, col)
<1>1. from \in {"overdue", "today", "tomorrow", "week", "later", "none"}
      /\ col \in {"overdue", "today", "tomorrow", "week", "later", "none"}
  BY DEF Drop!Columns
<1>2. NoDay \notin Int
  BY ScreensAssumption
<1>3. Drop!DayOf(col) = IF col = "overdue" THEN -1 ELSE IF col = "today" THEN 0 ELSE IF col = "tomorrow" THEN 1
                        ELSE IF col = "week" THEN 3 ELSE IF col = "later" THEN 14 ELSE NoDay
  BY <1>1 DEF Drop!DayOf
<1>4. \A k : Drop!InColumn(c, "due", k) <=>
        IF c.due = NoDay THEN k = "none"
        ELSE k = (IF c.due < 0 THEN "overdue" ELSE IF c.due = 0 THEN "today"
                  ELSE IF c.due = 1 THEN "tomorrow" ELSE IF c.due <= 7 THEN "week" ELSE "later")
  BY DEF Drop!InColumn
<1>5. \A k : Drop!InColumn(c, "due", k) <=> k = col
  <2>1. CASE col = "none"
    BY <1>3, <1>4, <2>1
  <2>2. CASE col # "none"
    <3>1. c.due \in Int /\ c.due # NoDay
      BY <1>1, <1>2, <1>3, <2>2
    <3> QED BY <1>1, <1>3, <1>4, <2>2, <3>1
  <2> QED BY <2>1, <2>2
<1> QED BY <1>1, <1>3, <1>5 DEF Landed

LEMMA BoardKeeps ==
  ASSUME DropInv, NEW g \in Drop!Groups, NEW from \in Drop!Columns(g), NEW col \in Drop!Columns(g),
         Drop!DropOnBoard(g, from, col)
  PROVE  DropInv'
<1>1. /\ Drop!InColumn(card, g, from)
      /\ ~(g = "tag" /\ from \in CardTags /\ col \in CardTags \ card.tags)
      /\ card' = Drop!OnBoard(g, from, col)
      /\ landed' = [group |-> g, col |-> col, from |-> from]
      /\ byHand' = byHand \ (IF g = "priority" THEN {"important"} ELSE IF g = "due" THEN {"urgent"} ELSE {})
      /\ length' = <<0, 0>>
  BY DEF Drop!DropOnBoard
<1>2. card \in Cards /\ (card.time # NoTime => card.due # NoDay) /\ MarksRight(card, byHand)
  BY DEF DropInv
<1>3. g \in {"priority", "list", "tag", "due"}
  BY DEF Drop!Groups
\* What is left to show of each grouping.
<1>4. ASSUME card' \in Cards, card'.time # NoTime => card'.due # NoDay, Landed(card', g, from, col),
             MarksRight(card', byHand')
      PROVE  DropInv'
  <2>1. landed'.group = g /\ landed'.from = from /\ landed'.col = col /\ length'[1] = length'[2]
    BY <1>1
  <2> QED BY <1>4, <2>1, Zenon DEF DropInv, Landed, MarksRight
<1>5. CASE g = "priority"
  <2>1. card' = [card EXCEPT !.priority = col, !.important = Drop!DeriveImportant(col)] /\ col \in 0 .. 3
    BY <1>1, <1>5 DEF Drop!OnBoard, Drop!Columns
  <2>2. Drop!DeriveImportant(col) \in BOOLEAN
    BY DEF Drop!DeriveImportant
  <2>3. /\ card' \in Cards /\ card'.priority = col /\ card'.important = Drop!DeriveImportant(col)
        /\ card'.time = card.time /\ card'.due = card.due /\ card'.urgent = card.urgent
    BY <1>2, <2>1, <2>2 DEF Cards
  <2>4. Landed(card', g, from, col)
    BY <1>5, <2>3 DEF Landed, Drop!InColumn
  <2>5. MarksRight(card', byHand')
    BY <1>1, <1>2, <1>5, <2>3, Zenon DEF MarksRight
  <2> QED BY <1>2, <1>4, <2>3, <2>4, <2>5
<1>6. CASE g = "list"
  <2>1. card' = [card EXCEPT !.list = col] /\ col \in CardLists
    BY <1>1, <1>6 DEF Drop!OnBoard, Drop!Columns
  <2>2. /\ card' \in Cards /\ card'.list = col /\ card'.priority = card.priority
        /\ card'.important = card.important
        /\ card'.time = card.time /\ card'.due = card.due /\ card'.urgent = card.urgent
    BY <1>2, <2>1 DEF Cards
  <2>3. Landed(card', g, from, col)
    BY <1>6, <2>2 DEF Landed, Drop!InColumn
  <2>4. MarksRight(card', byHand')
    BY <1>1, <1>2, <1>6, <2>2 DEF MarksRight
  <2> QED BY <1>2, <1>4, <2>2, <2>3, <2>4
<1>7. CASE g = "tag"
  <2>1. card' = [card EXCEPT !.tags = Drop!TagsAfter(from, col)] /\ col \in CardTags \cup {"none"}
        /\ from \in CardTags \cup {"none"}
    BY <1>1, <1>7 DEF Drop!OnBoard, Drop!Columns
  <2>2. /\ Drop!TagsAfter(from, col) \subseteq CardTags
        /\ \A c : c.tags = Drop!TagsAfter(from, col) => Landed(c, "tag", from, col)
    BY <1>1, <1>2, <1>7, <2>1, TagsLand
  <2>3. /\ card' \in Cards /\ card'.tags = Drop!TagsAfter(from, col) /\ card'.priority = card.priority
        /\ card'.important = card.important
        /\ card'.time = card.time /\ card'.due = card.due /\ card'.urgent = card.urgent
    BY <1>2, <2>1, <2>2 DEF Cards
  <2>4. MarksRight(card', byHand')
    BY <1>1, <1>2, <1>7, <2>3 DEF MarksRight
  <2> QED BY <1>2, <1>4, <1>7, <2>2, <2>3, <2>4
<1>8. CASE g = "due"
  <2> DEFINE stands == Drop!DayOf(col)
  <2>1. /\ card' = [card EXCEPT !.due = stands, !.urgent = Drop!DeriveUrgent(stands),
                                !.time = IF stands = NoDay THEN NoTime ELSE card.time]
    BY <1>1, <1>8 DEF Drop!OnBoard
  <2>2. stands \in Int \cup {NoDay} /\ \A c : c.due = stands => Landed(c, "due", from, col)
    <3>1. from \in Drop!Columns("due") /\ col \in Drop!Columns("due")
      BY <1>8
    <3>2. [due |-> stands].due = stands
      OBVIOUS
    <3> QED BY <3>1, <3>2, DaysLand
  <2>3. Drop!DeriveUrgent(stands) \in BOOLEAN
    BY DEF Drop!DeriveUrgent
  <2> HIDE DEF stands
  <2>4. /\ card' \in Cards /\ card'.due = stands /\ card'.urgent = Drop!DeriveUrgent(stands)
        /\ card'.time = (IF stands = NoDay THEN NoTime ELSE card.time)
        /\ card'.priority = card.priority /\ card'.important = card.important
    BY <1>2, <2>1, <2>2, <2>3 DEF Cards
  <2>5. MarksRight(card', byHand')
    BY <1>1, <1>2, <1>8, <2>4, Zenon DEF MarksRight
  <2> QED BY <1>4, <1>8, <2>2, <2>4, <2>5
<1> QED BY <1>3, <1>5, <1>6, <1>7, <1>8

LEMMA AddKeeps ==
  ASSUME DropInv, NEW g \in Drop!Groups, NEW col \in Drop!Columns(g), Drop!AddInColumn(g, col)
  PROVE  DropInv'
<1>1. PICK l \in CardLists, p \in {IF g = "priority" THEN col ELSE 0},
           t \in {IF g = "tag" /\ col \in CardTags THEN {col} ELSE {}},
           d \in {IF g = "due" THEN Drop!DayOf(col) ELSE NoDay} :
        card' = [list |-> IF g = "list" THEN col ELSE l, priority |-> p, tags |-> t, due |-> d,
                 time |-> NoTime, endTime |-> NoTime,
                 important |-> Drop!DeriveImportant(p), urgent |-> Drop!DeriveUrgent(d)]
  BY DEF Drop!AddInColumn
<1>2. landed' = [group |-> g, col |-> col, from |-> col] /\ byHand' = {} /\ length' = <<0, 0>>
  BY DEF Drop!AddInColumn
<1>3. g \in {"priority", "list", "tag", "due"}
  BY DEF Drop!Groups
<1>4. /\ g = "priority" => col \in 0 .. 3
      /\ g = "list" => col \in CardLists
      /\ g = "tag" => col \in CardTags \cup {"none"}
  BY DEF Drop!Columns
<1>5. g = "due" => /\ Drop!DayOf(col) \in Int \cup {NoDay}
                   /\ \A c : c.due = Drop!DayOf(col) => Landed(c, "due", col, col)
  <2> HAVE g = "due"
  <2>1. col \in Drop!Columns("due")
    OBVIOUS
  <2>2. [due |-> Drop!DayOf(col)].due = Drop!DayOf(col)
    OBVIOUS
  <2> QED BY <2>1, <2>2, DaysLand
<1>6. /\ (IF g = "list" THEN col ELSE l) \in CardLists /\ p \in 0 .. 3 /\ t \subseteq CardTags
      /\ d \in Int \cup {NoDay} /\ Drop!DeriveImportant(p) \in BOOLEAN /\ Drop!DeriveUrgent(d) \in BOOLEAN
  <2>1. Drop!DeriveImportant(p) \in BOOLEAN /\ Drop!DeriveUrgent(d) \in BOOLEAN
    BY DEF Drop!DeriveImportant, Drop!DeriveUrgent
  <2>2. d \in Int \cup {NoDay}
    BY <1>5
  <2>3. p \in 0 .. 3 /\ t \subseteq CardTags
    BY <1>4
  <2>4. (IF g = "list" THEN col ELSE l) \in CardLists
    BY <1>4
  <2> QED BY <2>1, <2>2, <2>3, <2>4
<1>7. /\ card'.list = (IF g = "list" THEN col ELSE l) /\ card'.priority = p /\ card'.tags = t
      /\ card'.due = d /\ card'.time = NoTime
      /\ card'.important = Drop!DeriveImportant(p) /\ card'.urgent = Drop!DeriveUrgent(d)
  BY <1>1
<1>8. card' \in Cards
  BY <1>1, <1>6 DEF Cards
<1>9. Landed(card', g, col, col)
  <2>1. CASE g = "due"
    BY <1>5, <1>7, <2>1
  <2>2. CASE g = "priority"
    BY <1>7, <2>2 DEF Landed, Drop!InColumn
  <2>3. CASE g = "list"
    BY <1>7, <2>3 DEF Landed, Drop!InColumn
  <2>4. CASE g = "tag"
    <3>1. IF col = "none" THEN card'.tags = {} ELSE col \in card'.tags
      BY <1>4, <1>7, <2>4, ScreensAssumption
    <3> QED BY <2>4, <3>1 DEF Landed, Drop!InColumn
  <2> QED BY <1>3, <2>1, <2>2, <2>3, <2>4
<1>10. MarksRight(card', byHand')
  BY <1>7, Zenon DEF MarksRight
<1>11. landed'.group = g /\ landed'.from = col /\ landed'.col = col /\ length'[1] = length'[2]
  BY <1>2
<1> QED BY <1>7, <1>8, <1>9, <1>10, <1>11, Zenon DEF DropInv, Landed, MarksRight

\* A day, an hour or a quadrant: no column is landed on.
LEMMA ElsewhereKeeps ==
  ASSUME card' \in Cards, card'.time # NoTime => card'.due # NoDay, MarksRight(card', byHand'),
         length'[1] = length'[2], landed' = Drop!NoLanding
  PROVE  DropInv'
<1>1. landed'.group = "none"
  BY DEF Drop!NoLanding
<1> QED BY <1>1, Zenon DEF DropInv, MarksRight, Landed

LEMMA QuadrantKeeps ==
  ASSUME DropInv, NEW i \in BOOLEAN, NEW u \in BOOLEAN, Drop!DropOnQuadrant(i, u)
  PROVE  DropInv'
<1>1. /\ card' = [card EXCEPT !.important = i, !.urgent = u] /\ byHand' = {"important", "urgent"}
      /\ landed' = Drop!NoLanding /\ length' = <<0, 0>>
  BY DEF Drop!DropOnQuadrant
<1>2. card \in Cards /\ (card.time # NoTime => card.due # NoDay)
  BY DEF DropInv
<1>3. card' \in Cards /\ card'.time = card.time /\ card'.due = card.due
  BY <1>1, <1>2 DEF Cards
<1>4. MarksRight(card', byHand') /\ length'[1] = length'[2]
  BY <1>1 DEF MarksRight
<1> QED BY <1>1, <1>2, <1>3, <1>4, ElsewhereKeeps

LEMMA DayKeeps ==
  ASSUME DropInv, NEW d \in CardDues, Drop!DropOnDay(d)
  PROVE  DropInv'
<1>1. /\ card' = [card EXCEPT !.due = d, !.urgent = Drop!DeriveUrgent(d)] /\ byHand' = byHand \ {"urgent"}
      /\ landed' = Drop!NoLanding /\ length' = <<0, 0>>
  BY DEF Drop!DropOnDay
<1>2. card \in Cards /\ MarksRight(card, byHand)
  BY DEF DropInv
<1>3. d \in Int /\ d # NoDay /\ Drop!DeriveUrgent(d) \in BOOLEAN
  BY ScreensAssumption DEF Drop!DeriveUrgent
<1>4. /\ card' \in Cards /\ card'.due = d /\ card'.urgent = Drop!DeriveUrgent(d)
      /\ card'.priority = card.priority /\ card'.important = card.important
  BY <1>1, <1>2, <1>3 DEF Cards
<1>5. MarksRight(card', byHand') /\ length'[1] = length'[2]
  <2>1. MarksRight(card', byHand')
    BY <1>1, <1>2, <1>4, Zenon DEF MarksRight
  <2> QED BY <1>1, <2>1
<1> QED BY <1>1, <1>3, <1>4, <1>5, ElsewhereKeeps

\* Where a card is let go is a minute of the day.
LEMMA SnapIs ==
  ASSUME NEW min \in Nat
  PROVE  Drop!Snap(min) \in Nat
BY DEF Drop!Snap, Drop!SnapMin, Drop!DayMinutes

LEMMA AxisKeeps ==
  ASSUME DropInv, NEW d \in CardDues, NEW min \in Times \cup {NoTime}, Drop!DropOnAxis(d, min)
  PROVE  DropInv'
<1> DEFINE t == IF min = NoTime THEN NoTime ELSE Drop!Snap(min)
<1>1. /\ card.due = d
      /\ card' = [card EXCEPT !.time = t, !.urgent = Drop!DeriveUrgent(d)]
      /\ byHand' = byHand \ {"urgent"} /\ landed' = Drop!NoLanding
      /\ length' = IF card.time = NoTime \/ min = NoTime THEN <<0, 0>>
                   ELSE <<Drop!Minutes(card), Drop!Minutes(card')>>
  BY DEF Drop!DropOnAxis
<1>2. card \in Cards /\ MarksRight(card, byHand) /\ card.endTime = NoTime /\ card.time \in Nat \cup {NoTime}
  BY CardIs DEF DropInv
<1>3. d \in Int /\ d # NoDay /\ Drop!DeriveUrgent(d) \in BOOLEAN
  BY ScreensAssumption DEF Drop!DeriveUrgent
<1>4. t \in Nat \cup {NoTime} /\ (min # NoTime => t \in Nat /\ t # NoTime)
  <2>1. min # NoTime => Drop!Snap(min) \in Nat
    BY ScreensAssumption, SnapIs
  <2> QED BY <2>1, ScreensAssumption
<1> HIDE DEF t
<1>5. /\ card' \in Cards /\ card'.due = d /\ card'.urgent = Drop!DeriveUrgent(d) /\ card'.time = t
      /\ card'.priority = card.priority /\ card'.important = card.important /\ card'.endTime = NoTime
  BY <1>1, <1>2, <1>3, <1>4 DEF Cards
<1>6. MarksRight(card', byHand')
  BY <1>1, <1>2, <1>5, Zenon DEF MarksRight
<1>7. length'[1] = length'[2]
  <2>1. ASSUME card.time # NoTime, min # NoTime PROVE length'[1] = length'[2]
    <3>1. Drop!Minutes(card) = (card.time + Drop!Lasts) - card.time /\ card.time \in Nat
      BY <1>2, <2>1 DEF Drop!Minutes, Drop!End, Drop!Start
    <3>2. Drop!Minutes(card') = (t + Drop!Lasts) - t /\ t \in Nat
      BY <1>4, <1>5, <2>1 DEF Drop!Minutes, Drop!End, Drop!Start
    <3>3. Drop!Lasts \in Nat
      BY ScreensAssumption DEF Drop!Lasts, Drop!DefaultDuration
    <3> QED BY <1>1, <2>1, <3>1, <3>2, <3>3
  <2>2. ASSUME card.time = NoTime \/ min = NoTime PROVE length'[1] = length'[2]
    BY <1>1, <2>2
  <2> QED BY <2>1, <2>2
<1> QED BY <1>1, <1>3, <1>5, <1>6, <1>7, ElsewhereKeeps

\* What the board, the quadrants, the calendar and the axis of a day send for a card that is
\* dropped, and what UpdateTask and MoveTask of tasks.go make of it: the card is in the column
\* it was dropped on and no longer in the other, its block is as long as before, it has a time
\* only with a day, and a mark nobody has set is the one its day and priority ask for.
THEOREM CardsLandWhereDropped ==
  ScreensSpec => [](part = "drops" => Drop!LandsWhereDropped /\ Drop!BlockKept /\ Drop!MarksFollow)
<1> DEFINE Inv == part = "drops" => DropInv
<1>1. ScreensInit => Inv
  BY DropStart DEF ScreensInit
<1>2. Inv /\ [ScreensNext]_<<part, vars, layerVars, dropVars, laneVars, turnVars, parseVars,
                              viewVars, chipVars, hookVars, ruleVars, pickVars, subVars, orderVars>> => Inv'
  <2> SUFFICES ASSUME Inv, [ScreensNext]_<<part, vars, layerVars, dropVars, laneVars, turnVars, parseVars,
                              viewVars, chipVars, hookVars, ruleVars, pickVars, subVars, orderVars>>,
                      part' = "drops"
               PROVE  DropInv'
    OBVIOUS
  <2>1. part = "drops" /\ (Drop!DropNext \/ UNCHANGED dropVars)
    BY DEF ScreensNext
  <2>2. DropInv
    BY <2>1
  <2>3. CASE UNCHANGED dropVars
    BY <2>2, <2>3, Zenon DEF DropInv, Landed, MarksRight, dropVars
  <2>4. ~Drop!DayPasses
    BY DEF Drop!DayPasses
  <2> QED BY <2>1, <2>2, <2>3, <2>4, BoardKeeps, AddKeeps, QuadrantKeeps, DayKeeps, AxisKeeps DEF Drop!DropNext
<1>3. Inv => (part = "drops" => Drop!LandsWhereDropped /\ Drop!BlockKept /\ Drop!MarksFollow)
  BY DropHolds
<1> QED BY <1>1, <1>2, <1>3, PTL DEF ScreensSpec

-----------------------------------------------------------------------------
(* The pages of the calendar: the newest request is the one waited for.    *)

Modes    == {"day", "week", "month"}
Ranges   == {Pages!RangeOf(m, e, w) : m \in Modes, e \in Int, w \in {0, 1}}
LoadType == [range : Ranges, version : Nat, alive : BOOLEAN, answer : Nat \cup {NoAnswer}]

PageTypes ==
  /\ mode \in Modes /\ anchor \in Int /\ weekStart \in {0, 1}
  /\ loads \in Seq(LoadType) /\ loading \in BOOLEAN /\ failed \in BOOLEAN
  /\ rev \in Nat /\ version \in Nat /\ version <= rev /\ items.rev \in Int

\* Only the newest request is waited for, and it is the one for what the page shows and has
\* heard of; an answer is no older than its request.
LoadsSound ==
  \A i \in 1 .. Len(loads) :
    /\ loads[i].alive => i = Len(loads) /\ loads[i].range = Pages!Page /\ loads[i].version = version
    /\ loads[i].answer # NoAnswer => loads[i].version <= loads[i].answer
    /\ loads[i].version <= version

FreshInv ==
  /\ PageTypes /\ LoadsSound
  /\ loading <=> loads # <<>> /\ loads[Len(loads)].alive
  /\ ~loading /\ ~failed => items.range = Pages!Page /\ items.rev >= version

\* What is under way is the text of the field, or of a field that was emptied since.
DraftInv ==
  /\ typed \in Nat /\ newTask \in 0 .. typed /\ typed <= MaxTexts
  /\ nMade \in [1 .. MaxTexts -> Nat]
  /\ \A x \in 1 .. MaxTexts : nMade[x] <= 1 /\ (x > typed \/ x = newTask => nMade[x] = 0)
  /\ creating \in Seq(1 .. typed) /\ Len(creating) <= 1
  /\ creating # <<>> => nMade[creating[1]] = 0 /\ newTask \in {0, creating[1]}
  /\ Pages!DraftKept

PagesInv == FreshInv /\ Pages!LunarComplete /\ DraftInv

LEMMA RemovedIs ==
  ASSUME NEW T, NEW s \in Seq(T), NEW i \in DOMAIN s
  PROVE  /\ Pages!RemoveAt(s, i) \in Seq(T) /\ Len(Pages!RemoveAt(s, i)) = Len(s) - 1
         /\ \A m \in 1 .. Len(s) - 1 : Pages!RemoveAt(s, i)[m] = (IF m < i THEN s[m] ELSE s[m + 1])
<1>1. i \in 1 .. Len(s)
  OBVIOUS
<1>2. Pages!RemoveAt(s, i) = Without(s, i)
  BY DEF Pages!RemoveAt, Without
<1> QED BY <1>1, <1>2, WithoutIs

LEMMA LoadIn ==
  ASSUME PageTypes, NEW i \in 1 .. Len(loads)
  PROVE  /\ Len(loads) \in Nat /\ loads[i] \in LoadType /\ loads[i].range \in Ranges
         /\ loads[i].version \in Nat /\ loads[i].alive \in BOOLEAN
         /\ loads[i].answer \in Nat \cup {NoAnswer}
<1>1. Len(loads) \in Nat /\ loads[i] \in LoadType
  BY LenProperties, ElementOfSeq DEF PageTypes
<1> QED BY <1>1 DEF LoadType

\* The page that changed waits for its own request and for no other.
LEMMA FetchedIs ==
  ASSUME PageTypes, NEW r \in Ranges, NEW v \in Nat, Pages!Fetched(r, v)
  PROVE  /\ loads' \in Seq(LoadType) /\ Len(loads') = Len(loads) + 1 /\ Len(loads) \in Nat /\ loading'
         /\ loads'[Len(loads')] = [range |-> r, version |-> v, alive |-> TRUE, answer |-> NoAnswer]
         /\ \A i \in 1 .. Len(loads) :
              ~loads'[i].alive /\ loads'[i].version = loads[i].version /\ loads'[i].answer = loads[i].answer
<1> DEFINE old  == [i \in DOMAIN loads |-> [loads[i] EXCEPT !.alive = FALSE]]
           load == [range |-> r, version |-> v, alive |-> TRUE, answer |-> NoAnswer]
<1>1. Len(loads) \in Nat /\ DOMAIN loads = 1 .. Len(loads) /\ loads \in Seq(LoadType)
  BY LenProperties DEF PageTypes
<1>2. \A i \in 1 .. Len(loads) :
        /\ old[i] \in LoadType /\ ~old[i].alive
        /\ old[i].version = loads[i].version /\ old[i].answer = loads[i].answer
  <2>1. \A i \in 1 .. Len(loads) : loads[i] \in LoadType /\ old[i] = [loads[i] EXCEPT !.alive = FALSE]
    BY <1>1, LoadIn
  <2> HIDE DEF old
  <2> QED BY <2>1 DEF LoadType
<1>3. old \in Seq(LoadType) /\ Len(old) = Len(loads)
  <2>1. old \in [1 .. Len(loads) -> LoadType]
    <3>1. old = [i \in 1 .. Len(loads) |-> old[i]]
      BY <1>1
    <3> HIDE DEF old
    <3> QED BY <1>2, <3>1
  <2> HIDE DEF old
  <2>2. old \in Seq(LoadType)
    BY <1>1, <2>1, IsASeq
  <2> QED BY <1>1, <2>1, <2>2, LenProperties
<1>4. load \in LoadType
  BY DEF LoadType
<1>5. loads' = Append(old, load) /\ loading'
  BY DEF Pages!Fetched
<1> HIDE DEF old, load
<1>6. /\ loads' \in Seq(LoadType) /\ Len(loads') = Len(loads) + 1 /\ loads'[Len(loads')] = load
      /\ \A i \in 1 .. Len(loads) : loads'[i] = old[i]
  BY <1>1, <1>3, <1>4, <1>5, AppendProperties
<1> QED BY <1>1, <1>2, <1>5, <1>6 DEF load

\* A request for what the page is to show, made when the page turned or heard of a change.
LEMMA FetchedKeeps ==
  ASSUME FreshInv, mode' \in Modes, anchor' \in Int, weekStart' \in {0, 1}, Pages!Page' \in Ranges,
         rev' = rev, version' \in Nat, version <= version', version' <= rev,
         Pages!Fetched(Pages!Page', version'), UNCHANGED <<items, failed>>
  PROVE  FreshInv'
<1>1. PageTypes /\ LoadsSound
  BY DEF FreshInv
<1>2. /\ loads' \in Seq(LoadType) /\ Len(loads') = Len(loads) + 1 /\ Len(loads) \in Nat /\ loading' = TRUE
      /\ loads'[Len(loads')] = [range |-> Pages!Page', version |-> version', alive |-> TRUE, answer |-> NoAnswer]
      /\ \A i \in 1 .. Len(loads) :
           ~loads'[i].alive /\ loads'[i].version = loads[i].version /\ loads'[i].answer = loads[i].answer
  <2>1. loading' = TRUE
    BY DEF Pages!Fetched
  <2> QED BY <1>1, <2>1, FetchedIs
<1>3. PageTypes'
  BY <1>1, <1>2 DEF PageTypes
<1>4. LoadsSound'
  <2> SUFFICES ASSUME NEW i \in 1 .. Len(loads')
               PROVE  /\ loads'[i].alive => i = Len(loads') /\ loads'[i].range = Pages!Page'
                                            /\ loads'[i].version = version'
                      /\ loads'[i].answer # NoAnswer => loads'[i].version <= loads'[i].answer
                      /\ loads'[i].version <= version'
    BY DEF LoadsSound
  <2>1. CASE i = Len(loads')
    <3>1. /\ loads'[i].range = Pages!Page' /\ loads'[i].version = version'
          /\ loads'[i].answer = NoAnswer
      BY <1>2, <2>1
    <3> QED BY <1>1, <2>1, <3>1 DEF PageTypes
  <2>2. CASE i # Len(loads')
    <3>1. i \in 1 .. Len(loads)
      BY <1>2, <2>2
    <3>2. /\ loads[i].answer # NoAnswer => loads[i].version <= loads[i].answer
          /\ loads[i].version <= version
      BY <1>1, <3>1 DEF LoadsSound
    <3>3. loads[i].version \in Nat /\ version \in Nat
      BY <1>1, <3>1, LoadIn DEF PageTypes
    <3>4. /\ ~loads'[i].alive /\ loads'[i].version = loads[i].version
          /\ loads'[i].answer = loads[i].answer
      BY <1>2, <3>1
    <3>5. loads[i].version <= version'
      BY <3>2, <3>3
    <3> QED BY <3>2, <3>4, <3>5
  <2> QED BY <2>1, <2>2
<1>5. loads' # <<>> /\ loads'[Len(loads')].alive
  <2>1. Len(loads') # 0
    BY <1>2
  <2>2. Len(<<>>) = 0
    OBVIOUS
  <2> QED BY <1>2, <2>1, <2>2
<1> QED BY <1>2, <1>3, <1>4, <1>5 DEF FreshInv

\* Nothing of what the freshness of a page is about has changed but the revision.
LEMMA FreshStays ==
  ASSUME FreshInv, mode' \in Modes, anchor' \in Int, weekStart' \in {0, 1}, Pages!Page' = Pages!Page,
         rev' \in Nat, rev <= rev', UNCHANGED <<items, loads, loading, failed, version>>
  PROVE  FreshInv'
<1>1. PageTypes /\ LoadsSound
  BY DEF FreshInv
<1>2. PageTypes'
  BY <1>1 DEF PageTypes
<1>3. LoadsSound'
  BY <1>1 DEF LoadsSound
<1> QED BY <1>2, <1>3 DEF FreshInv

LEMMA PageIn ==
  ASSUME mode \in Modes, anchor \in Int, weekStart \in {0, 1}
  PROVE  Pages!Page \in Ranges
<1>1. Pages!RangeOf(mode, anchor, weekStart) \in Ranges
  BY DEF Ranges
<1> QED BY <1>1 DEF Pages!Page

LEMMA ShowsKeeps ==
  ASSUME FreshInv, Pages!LunarComplete, NEW m \in Modes, NEW e \in Int, NEW w \in {0, 1},
         Pages!Shows(m, e, w)
  PROVE  FreshInv' /\ Pages!LunarComplete'
<1> DEFINE range == Pages!RangeOf(m, e, w)
<1>1. /\ mode' = m /\ anchor' = e /\ weekStart' = w /\ UNCHANGED <<items, failed, known, rev, version>>
      /\ Pages!Page' = range /\ range \in Ranges
  <2>1. mode' = m /\ anchor' = e /\ weekStart' = w /\ UNCHANGED <<items, failed, known, rev, version>>
    BY DEF Pages!Shows
  <2> QED BY <2>1 DEF Pages!Page, Ranges
<1>2. PageTypes
  BY DEF FreshInv
<1>3. CASE range = Pages!Page
  <2>1. UNCHANGED <<loads, loading, asked, wanted>>
    BY <1>3 DEF Pages!Shows
  <2>2. FreshInv'
    BY <1>1, <1>2, <1>3, <2>1, FreshStays DEF PageTypes
  <2> QED BY <1>1, <2>1, <2>2 DEF Pages!LunarComplete
<1>4. CASE range # Pages!Page
  <2>1. Pages!Fetched(range, version) /\ Pages!Ensured(range)
    BY <1>4 DEF Pages!Shows
  <2> HIDE DEF range
  <2>2. FreshInv'
    BY <1>1, <1>2, <2>1, FetchedKeeps DEF PageTypes
  <2>3. asked' \ wanted' \subseteq asked \ wanted
    BY <2>1 DEF Pages!Ensured
  <2> QED BY <1>1, <2>2, <2>3 DEF Pages!LunarComplete
<1> QED BY <1>3, <1>4

\* A request that ends is one less; where it was the one waited for, nothing is.
LEMMA LoadEnds ==
  ASSUME FreshInv, NEW i \in DOMAIN loads, loads' = Pages!RemoveAt(loads, i),
         UNCHANGED <<mode, anchor, weekStart, rev, version>>,
         IF loads[i].alive
         THEN /\ loading' = FALSE /\ failed' \in BOOLEAN /\ items'.rev \in Int
              /\ ~failed' => items'.range = Pages!Page /\ items'.rev >= version
         ELSE UNCHANGED <<loading, failed, items>>
  PROVE  FreshInv'
<1>1. PageTypes /\ LoadsSound /\ (loading <=> loads # <<>> /\ loads[Len(loads)].alive)
  BY DEF FreshInv
<1>2. Len(loads) \in Nat /\ i \in 1 .. Len(loads) /\ i \in Nat
  BY <1>1, LenProperties DEF PageTypes
<1>3. /\ loads' \in Seq(LoadType) /\ Len(loads') = Len(loads) - 1
      /\ \A k \in 1 .. Len(loads) - 1 : loads'[k] = (IF k < i THEN loads[k] ELSE loads[k + 1])
  BY <1>1, RemovedIs DEF PageTypes
<1>4. Pages!Page' = Pages!Page
  BY DEF Pages!Page
<1>5. PageTypes'
  BY <1>1, <1>3 DEF PageTypes
<1>6. ASSUME NEW k \in 1 .. Len(loads')
      PROVE  \E j \in 1 .. Len(loads) :
               loads'[k] = loads[j] /\ (j = Len(loads) <=> k = Len(loads') /\ i # Len(loads))
  <2>1. k \in 1 .. Len(loads) - 1
    BY <1>3
  <2>2. CASE k < i
    <3>1. k \in 1 .. Len(loads) /\ k # Len(loads) /\ (k = Len(loads') => i = Len(loads)) /\ loads'[k] = loads[k]
      BY <1>2, <1>3, <2>1, <2>2
    <3> QED BY <3>1
  <2>3. CASE ~(k < i)
    <3>1. /\ k + 1 \in 1 .. Len(loads) /\ i # Len(loads) /\ loads'[k] = loads[k + 1]
          /\ (k + 1 = Len(loads) <=> k = Len(loads'))
      BY <1>2, <1>3, <2>1, <2>3
    <3> QED BY <3>1
  <2> QED BY <2>2, <2>3
<1>7. LoadsSound'
  <2> SUFFICES ASSUME NEW k \in 1 .. Len(loads')
               PROVE  /\ loads'[k].alive => k = Len(loads') /\ loads'[k].range = Pages!Page'
                                            /\ loads'[k].version = version'
                      /\ loads'[k].answer # NoAnswer => loads'[k].version <= loads'[k].answer
                      /\ loads'[k].version <= version'
    BY DEF LoadsSound
  <2>1. PICK j \in 1 .. Len(loads) :
               loads'[k] = loads[j] /\ (j = Len(loads) <=> k = Len(loads') /\ i # Len(loads))
    BY <1>6
  <2>2. /\ loads[j].alive => j = Len(loads) /\ loads[j].range = Pages!Page /\ loads[j].version = version
        /\ loads[j].answer # NoAnswer => loads[j].version <= loads[j].answer
        /\ loads[j].version <= version
    BY <1>1 DEF LoadsSound
  <2> QED BY <1>4, <2>1, <2>2
<1>8. loads' # <<>> <=> Len(loads') # 0
  BY <1>3
<1>9. loads # <<>> /\ Len(loads) # 0
  BY <1>1, <1>2 DEF PageTypes
<1>10. CASE loads[i].alive
  <2>1. i = Len(loads)
    BY <1>1, <1>2, <1>10 DEF LoadsSound
  <2>2. loads' # <<>> => ~loads'[Len(loads')].alive
    <3> SUFFICES ASSUME loads' # <<>> PROVE ~loads'[Len(loads')].alive
      OBVIOUS
    <3>1. Len(loads') \in 1 .. Len(loads')
      BY <1>2, <1>3, <1>8
    <3>2. PICK j \in 1 .. Len(loads) : loads'[Len(loads')] = loads[j] /\ j # Len(loads)
      BY <1>6, <2>1, <3>1
    <3> QED BY <1>1, <3>2 DEF LoadsSound
  <2> QED BY <1>4, <1>5, <1>7, <1>10, <2>2 DEF FreshInv
<1>11. CASE ~loads[i].alive
  <2>1. UNCHANGED <<loading, failed, items>>
    BY <1>11
  <2>2. loads' # <<>> /\ loads'[Len(loads')].alive <=> loading
    <3>1. CASE i = Len(loads)
      <4>1. ~loading
        BY <1>1, <1>11, <3>1
      <4>2. ASSUME loads' # <<>> PROVE ~loads'[Len(loads')].alive
        <5>1. Len(loads') \in 1 .. Len(loads')
          BY <1>2, <1>3, <1>8, <4>2
        <5>2. PICK j \in 1 .. Len(loads) : loads'[Len(loads')] = loads[j] /\ j # Len(loads)
          BY <1>6, <3>1, <5>1
        <5> QED BY <1>1, <5>2 DEF LoadsSound
      <4> QED BY <4>1, <4>2
    <3>2. CASE i # Len(loads)
      <4>1. Len(loads') \in 1 .. Len(loads')
        BY <1>2, <1>3, <3>2
      <4>2. PICK j \in 1 .. Len(loads) : loads'[Len(loads')] = loads[j] /\ j = Len(loads)
        BY <1>6, <3>2, <4>1
      <4>3. loads' # <<>>
        BY <1>2, <1>3, <1>8, <3>2
      <4> QED BY <1>1, <1>9, <4>2, <4>3
    <3> QED BY <3>1, <3>2
  <2>3. ~loading /\ ~failed => items.range = Pages!Page /\ items.rev >= version
    BY DEF FreshInv
  <2> QED BY <1>4, <1>5, <1>7, <2>1, <2>2, <2>3 DEF FreshInv
<1> QED BY <1>10, <1>11

LEMMA PageNextKeeps ==
  ASSUME FreshInv, Pages!LunarComplete, Pages!PageNext
  PROVE  FreshInv' /\ Pages!LunarComplete'
<1> DEFINE Kept == UNCHANGED <<mode, anchor, weekStart, items, loads, loading, failed, version>>
<1>1. /\ PageTypes /\ LoadsSound /\ (loading <=> loads # <<>> /\ loads[Len(loads)].alive)
      /\ mode \in Modes /\ anchor \in Int /\ weekStart \in {0, 1} /\ 1 - weekStart \in {0, 1}
      /\ rev \in Nat /\ version \in Nat /\ version <= rev
  BY DEF FreshInv, PageTypes
<1>2. ASSUME Kept, rev' \in {rev, rev + 1} PROVE FreshInv'
  <2>1. Pages!Page' = Pages!Page
    BY <1>2 DEF Pages!Page
  <2> QED BY <1>1, <1>2, <2>1, FreshStays
<1>3. ASSUME UNCHANGED <<asked, wanted, known>> PROVE Pages!LunarComplete'
  BY <1>3 DEF Pages!LunarComplete
<1>4. CASE \E dir \in {-1, 1} : Pages!Shift(dir)
  <2>1. PICK dir \in {-1, 1} : Pages!Shift(dir)
    BY <1>4
  <2>2. PICK e \in Pages!FirstOf(1) .. Pages!FirstOf(Len(Months) - 1) - 1 : Pages!Shows(mode, e, weekStart)
    BY <2>1, Zenon DEF Pages!Shift
  <2>3. e \in Int
    BY <2>2
  <2> QED BY <1>1, <2>2, <2>3, ShowsKeeps
<1>5. CASE Pages!BackToToday
  <2>1. OpenedAt \in Int /\ Pages!Shows(mode, OpenedAt, weekStart)
    BY <1>5, ScreensAssumption DEF Pages!BackToToday
  <2> QED BY <1>1, <2>1, ShowsKeeps
<1>6. CASE Pages!SetWeekStart
  <2>1. Pages!Shows(mode, anchor, 1 - weekStart)
    BY <1>6 DEF Pages!SetWeekStart
  <2> QED BY <1>1, <2>1, ShowsKeeps
<1>7. CASE \E m \in {"day", "week", "month"} : Pages!SetMode(m)
  <2>1. PICK m \in Modes : Pages!Shows(m, anchor, weekStart)
    BY <1>7 DEF Pages!SetMode, Modes
  <2> QED BY <1>1, <2>1, ShowsKeeps
<1>8. CASE Pages!ServerChanges
  <2>1. Kept /\ rev' = rev + 1 /\ UNCHANGED <<asked, wanted, known>>
    BY <1>8 DEF Pages!ServerChanges
  <2> QED BY <1>2, <1>3, <2>1
<1>9. CASE Pages!VersionRises
  <2>1. /\ version' = rev /\ Pages!Fetched(Pages!Page, rev)
        /\ UNCHANGED <<mode, anchor, weekStart, items, failed, asked, wanted, known, rev>>
    BY <1>9 DEF Pages!VersionRises
  <2>2. Pages!Page' = Pages!Page /\ Pages!Page \in Ranges
    BY <1>1, <2>1, PageIn DEF Pages!Page
  <2>3. Pages!Fetched(Pages!Page', version') /\ Pages!Page' \in Ranges
    BY <2>1, <2>2
  <2>4. FreshInv'
    BY <1>1, <2>1, <2>3, FetchedKeeps
  <2> QED BY <1>3, <2>1, <2>4
<1>10. ASSUME NEW i \in DOMAIN loads, Pages!ServerReads(i) PROVE FreshInv' /\ Pages!LunarComplete'
  <2>1. /\ loads[i].answer = NoAnswer /\ loads' = [loads EXCEPT ![i].answer = rev]
        /\ UNCHANGED <<mode, anchor, weekStart, items, loading, failed, asked, wanted, known, rev, version>>
    BY <1>10 DEF Pages!ServerReads
  <2>2. Len(loads) \in Nat /\ DOMAIN loads = 1 .. Len(loads) /\ loads \in Seq(LoadType)
    BY <1>1, LenProperties DEF PageTypes
  <2>3. loads[i] \in LoadType /\ loads[i].version \in Nat
    BY <2>2, LoadIn, <1>1
  <2>4. [loads[i] EXCEPT !.answer = rev] \in LoadType
    BY <1>1, <2>3 DEF LoadType
  <2>5. loads' = [loads EXCEPT ![i] = [loads[i] EXCEPT !.answer = rev]]
    BY <2>1
  <2>6. loads' \in Seq(LoadType) /\ Len(loads') = Len(loads)
    BY <2>2, <2>4, <2>5, ExceptSeq
  <2>7. ASSUME NEW k \in 1 .. Len(loads)
        PROVE  /\ loads'[k].alive = loads[k].alive /\ loads'[k].range = loads[k].range
               /\ loads'[k].version = loads[k].version
               /\ loads'[k].answer = (IF k = i THEN rev ELSE loads[k].answer)
    <3>1. loads[k] \in LoadType
      BY <1>1, LoadIn
    <3>2. CASE k = i
      <4>1. loads'[k] = [loads[k] EXCEPT !.answer = rev]
        BY <2>2, <2>5, <3>2
      <4> QED BY <3>1, <3>2, <4>1 DEF LoadType
    <3>3. CASE k # i
      <4>1. loads'[k] = loads[k]
        BY <2>2, <2>5, <3>3
      <4> QED BY <3>3, <4>1
    <3> QED BY <3>2, <3>3
  <2>8. Pages!Page' = Pages!Page
    BY <2>1 DEF Pages!Page
  <2>9. LoadsSound'
    <3> SUFFICES ASSUME NEW k \in 1 .. Len(loads')
                 PROVE  /\ loads'[k].alive => k = Len(loads') /\ loads'[k].range = Pages!Page'
                                              /\ loads'[k].version = version'
                        /\ loads'[k].answer # NoAnswer => loads'[k].version <= loads'[k].answer
                        /\ loads'[k].version <= version'
      BY DEF LoadsSound
    <3>1. k \in 1 .. Len(loads) /\ loads[k].version \in Nat
      BY <1>1, <2>6, LoadIn
    <3>2. /\ loads[k].alive => k = Len(loads) /\ loads[k].range = Pages!Page /\ loads[k].version = version
          /\ loads[k].answer # NoAnswer => loads[k].version <= loads[k].answer
          /\ loads[k].version <= version
      BY <1>1, <3>1 DEF LoadsSound
    <3>3. version' = version /\ loads[k].version <= rev
      BY <1>1, <2>1, <3>1, <3>2
    <3> QED BY <2>6, <2>7, <2>8, <3>1, <3>2, <3>3
  <2>10. loads' # <<>> /\ loads'[Len(loads')].alive <=> loads # <<>> /\ loads[Len(loads)].alive
    <3>1. loads # <<>> /\ loads' # <<>> /\ Len(loads) \in 1 .. Len(loads)
      BY <2>2, <2>6
    <3> QED BY <2>6, <2>7, <3>1
  <2>11. PageTypes'
    BY <1>1, <2>1, <2>6 DEF PageTypes
  <2>12. FreshInv'
    BY <2>1, <2>8, <2>9, <2>10, <2>11 DEF FreshInv
  <2> QED BY <1>3, <2>1, <2>12
<1>11. ASSUME NEW i \in DOMAIN loads, Pages!ListLands(i) PROVE FreshInv' /\ Pages!LunarComplete'
  <2>1. /\ loads[i].answer # NoAnswer /\ loads' = Pages!RemoveAt(loads, i)
        /\ UNCHANGED <<mode, anchor, weekStart, asked, wanted, known, rev, version>>
    BY <1>11 DEF Pages!ListLands
  <2>2. i \in 1 .. Len(loads)
    BY <1>1 DEF PageTypes
  <2>3. CASE loads[i].alive
    <3>1. /\ items' = [range |-> loads[i].range, rev |-> loads[i].answer]
          /\ loading' = FALSE /\ failed' = FALSE
      BY <1>11, <2>3 DEF Pages!ListLands
    <3>2. loads[i].range = Pages!Page /\ loads[i].version = version /\ loads[i].version <= loads[i].answer
      BY <1>1, <2>1, <2>2, <2>3 DEF LoadsSound
    <3>3. loads[i].answer \in Nat
      BY <1>1, <2>1, <2>2, LoadIn
    <3>4. items'.range = Pages!Page /\ items'.rev >= version /\ items'.rev \in Int
      BY <1>1, <3>1, <3>2, <3>3
    <3>5. FreshInv'
      BY <2>1, <2>3, <3>1, <3>4, LoadEnds
    <3> QED BY <1>3, <2>1, <3>5
  <2>4. CASE ~loads[i].alive
    <3>1. UNCHANGED <<items, loading, failed>>
      BY <1>11, <2>4 DEF Pages!ListLands
    <3>2. FreshInv'
      BY <2>1, <2>4, <3>1, LoadEnds
    <3> QED BY <1>3, <2>1, <3>2
  <2> QED BY <2>3, <2>4
<1>12. ASSUME NEW i \in DOMAIN loads, Pages!ListFails(i) PROVE FreshInv' /\ Pages!LunarComplete'
  <2>1. /\ loads' = Pages!RemoveAt(loads, i) /\ items.rev \in Int
        /\ UNCHANGED <<mode, anchor, weekStart, items, asked, wanted, known, rev, version>>
        /\ IF loads[i].alive THEN loading' = FALSE /\ failed' = TRUE ELSE UNCHANGED <<loading, failed>>
    BY <1>1, <1>12 DEF Pages!ListFails, PageTypes
  <2>2. FreshInv'
    <3>1. items'.rev \in Int
      BY <2>1
    <3>2. CASE loads[i].alive
      BY <2>1, <3>1, <3>2, LoadEnds
    <3>3. CASE ~loads[i].alive
      BY <2>1, <3>3, LoadEnds
    <3> QED BY <3>2, <3>3
  <2> QED BY <1>3, <2>1, <2>2
<1>13. ASSUME NEW range \in wanted, Pages!LunarLands(range) \/ Pages!LunarFails(range)
       PROVE  FreshInv' /\ Pages!LunarComplete'
  <2>1. Kept /\ rev' = rev
    BY <1>13 DEF Pages!LunarLands, Pages!LunarFails
  <2>2. CASE Pages!LunarLands(range)
    <3>1. asked' = asked /\ wanted' = wanted \ {range} /\ known' = known \cup (range[1] .. range[2])
      BY <2>2 DEF Pages!LunarLands
    <3> QED BY <1>2, <2>1, <3>1 DEF Pages!LunarComplete
  <2>3. CASE Pages!LunarFails(range)
    <3>1. asked' = asked \ {range} /\ wanted' = wanted \ {range} /\ known' = known
      BY <2>3 DEF Pages!LunarFails
    <3> QED BY <1>2, <2>1, <3>1 DEF Pages!LunarComplete
  <2> QED BY <1>13, <2>2, <2>3
<1> QED BY <1>4, <1>5, <1>6, <1>7, <1>8, <1>9, <1>10, <1>11, <1>12, <1>13 DEF Pages!PageNext

\* Of the field, one text is typed, sent or given up at a time.
LEMMA TypeKeeps ==
  ASSUME DraftInv, Pages!TypeText
  PROVE  DraftInv'
<1>1. /\ typed < MaxTexts /\ creating = <<>> /\ typed' = typed + 1 /\ newTask' = typed + 1
      /\ given' = Pages!GivenUp /\ UNCHANGED <<creating, nMade>>
  BY DEF Pages!TypeText
<1>2. /\ typed \in Nat /\ newTask \in 0 .. typed /\ nMade \in [1 .. MaxTexts -> Nat] /\ MaxTexts \in Nat
      /\ \A x \in 1 .. MaxTexts : nMade[x] <= 1 /\ (x > typed \/ x = newTask => nMade[x] = 0)
      /\ Pages!DraftKept
  BY ScreensAssumption DEF DraftInv
<1>3. /\ typed' \in Nat /\ newTask' \in 0 .. typed' /\ typed' <= MaxTexts /\ nMade' \in [1 .. MaxTexts -> Nat]
      /\ \A x \in 1 .. MaxTexts : nMade'[x] <= 1 /\ (x > typed' \/ x = newTask' => nMade'[x] = 0)
  BY <1>1, <1>2
<1>4. creating' \in Seq(1 .. typed') /\ Len(creating') <= 1 /\ creating' = <<>>
  BY <1>1
<1>5. Pages!DraftKept'
  <2>1. given \subseteq given' /\ (newTask # 0 => newTask \in given')
    BY <1>1 DEF Pages!GivenUp, Pages!NoText
  <2>2. ASSUME NEW x \in 1 .. typed' PROVE x = newTask' \/ x \in given' \/ nMade'[x] > 0
    <3>1. x = typed + 1 \/ x \in 1 .. typed
      BY <1>1, <1>2
    <3> QED BY <1>1, <1>2, <2>1, <3>1 DEF Pages!DraftKept
  <2>3. \A x \in 1 .. typed' : nMade'[x] <= 1
    BY <1>2, <1>3
  <2> QED BY <2>2, <2>3 DEF Pages!DraftKept
<1> QED BY <1>3, <1>4, <1>5 DEF DraftInv

\* The text of the field stays, or it was given up before.
LEMMA FieldKeeps ==
  ASSUME DraftInv, UNCHANGED <<creating, typed, nMade>>, given \subseteq given',
         newTask' = newTask \/ (newTask' = 0 /\ newTask \in given \cup {0})
  PROVE  DraftInv'
<1>1. typed \in Nat /\ newTask \in 0 .. typed /\ newTask' \in 0 .. typed
  BY DEF DraftInv
<1>2. \A x \in 1 .. MaxTexts : x = newTask' => x = newTask
  BY <1>1
<1>3. Pages!DraftKept'
  <2>1. Pages!DraftKept
    BY DEF DraftInv
  <2>2. \A x \in 1 .. typed : x = newTask => x = newTask' \/ x \in given
    BY <1>1
  <2> QED BY <2>1, <2>2 DEF Pages!DraftKept
<1> QED BY <1>1, <1>2, <1>3 DEF DraftInv

LEMMA SubmitKeeps ==
  ASSUME DraftInv, Pages!SubmitDraft
  PROVE  DraftInv'
<1>1. /\ newTask # 0 /\ creating = <<>> /\ creating' = Append(creating, newTask)
      /\ UNCHANGED <<newTask, typed, given, nMade>>
  BY DEF Pages!SubmitDraft, Pages!NoText
<1>2. typed \in Nat /\ newTask \in 1 .. typed /\ typed <= MaxTexts /\ MaxTexts \in Nat
  BY <1>1, ScreensAssumption DEF DraftInv
<1>3. creating' \in Seq(1 .. typed) /\ Len(creating') = 1 /\ creating'[1] = newTask
  BY <1>1, <1>2
<1>4. nMade[newTask] = 0
  BY <1>2 DEF DraftInv
<1>5. Pages!DraftKept'
  BY <1>1 DEF DraftInv, Pages!DraftKept
<1> QED BY <1>1, <1>2, <1>3, <1>4, <1>5 DEF DraftInv

LEMMA AnsweredKeeps ==
  ASSUME DraftInv, NEW i \in DOMAIN creating, NEW ok \in BOOLEAN, Pages!DraftAnswered(i, ok)
  PROVE  DraftInv'
<1>1. /\ typed \in Nat /\ newTask \in 0 .. typed /\ typed <= MaxTexts /\ MaxTexts \in Nat
      /\ nMade \in [1 .. MaxTexts -> Nat]
      /\ \A x \in 1 .. MaxTexts : nMade[x] <= 1 /\ (x > typed \/ x = newTask => nMade[x] = 0)
      /\ creating \in Seq(1 .. typed) /\ Len(creating) <= 1 /\ Len(creating) \in Nat
      /\ (creating # <<>> => nMade[creating[1]] = 0 /\ newTask \in {0, creating[1]})
      /\ Pages!DraftKept
  BY ScreensAssumption DEF DraftInv
<1>2. i = 1 /\ creating # <<>> /\ creating[1] \in 1 .. typed
  BY <1>1
<1>3. /\ creating' = Pages!RemoveAt(creating, i) /\ UNCHANGED <<typed, given>>
      /\ (ok => nMade' = [nMade EXCEPT ![creating[1]] = @ + 1] /\ newTask' = 0)
      /\ (~ok => UNCHANGED <<nMade, newTask>>)
  BY <1>2 DEF Pages!DraftAnswered, Pages!NoText
<1>4. creating' \in Seq(1 .. typed) /\ creating' = <<>>
  <2>1. creating' \in Seq(1 .. typed) /\ Len(creating') = Len(creating) - 1
    BY <1>1, <1>3, RemovedIs
  <2> QED BY <1>1, <1>2, <2>1
<1>5. CASE ok
  <2>1. /\ nMade' \in [1 .. MaxTexts -> Nat] /\ nMade'[creating[1]] = 1
        /\ \A x \in 1 .. MaxTexts : x # creating[1] => nMade'[x] = nMade[x]
    BY <1>1, <1>2, <1>3, <1>5
  <2>2. \A x \in 1 .. MaxTexts : nMade'[x] <= 1 /\ (x > typed' \/ x = newTask' => nMade'[x] = 0)
    BY <1>1, <1>2, <1>3, <1>5, <2>1
  <2>3. Pages!DraftKept'
    <3>1. ASSUME NEW x \in 1 .. typed PROVE x = newTask' \/ x \in given' \/ nMade'[x] > 0
      <4>1. x \in 1 .. MaxTexts /\ (x = newTask \/ x \in given \/ nMade[x] > 0)
        BY <1>1 DEF Pages!DraftKept
      <4> QED BY <1>1, <1>2, <1>3, <2>1, <4>1
    <3>2. \A x \in 1 .. typed : nMade'[x] <= 1
      BY <1>1, <2>2
    <3> QED BY <1>3, <3>1, <3>2 DEF Pages!DraftKept
  <2> QED BY <1>1, <1>3, <1>4, <1>5, <2>1, <2>2, <2>3 DEF DraftInv
<1>6. CASE ~ok
  <2>1. Pages!DraftKept'
    BY <1>1, <1>3, <1>6 DEF Pages!DraftKept
  <2> QED BY <1>1, <1>3, <1>4, <1>6, <2>1 DEF DraftInv
<1> QED BY <1>5, <1>6

LEMMA DraftNextKeeps ==
  ASSUME DraftInv, Pages!DraftNext
  PROVE  DraftInv'
<1>1. CASE \E e \in {anchor, Pages!Page[1]} : Pages!OpenInCell(e)
  <2>1. UNCHANGED <<newTask, creating, typed, nMade>> /\ given \subseteq given'
    BY <1>1 DEF Pages!OpenInCell, Pages!GivenUp
  <2> QED BY <2>1, FieldKeeps
<1>2. CASE \E e \in Hours : Pages!OpenOnAxis(e)
  <2>1. PICK e \in Hours : Pages!OpenOnAxis(e)
    BY <1>2
  <2>2. UNCHANGED <<creating, typed, given, nMade>>
    BY <2>1 DEF Pages!OpenOnAxis
  <2>3. newTask' = newTask \/ (newTask' = 0 /\ newTask \in given \cup {0})
    BY <2>1 DEF Pages!OpenOnAxis, Pages!NoText
  <2> QED BY <2>2, <2>3, FieldKeeps
<1>3. CASE Pages!TypeText
  BY <1>3, TypeKeeps
<1>4. CASE Pages!CloseField
  <2>1. UNCHANGED <<newTask, creating, typed, nMade>> /\ given \subseteq given'
    BY <1>4 DEF Pages!CloseField, Pages!GivenUp
  <2> QED BY <2>1, FieldKeeps
<1>5. CASE Pages!SubmitDraft
  BY <1>5, SubmitKeeps
<1>6. CASE \E i \in DOMAIN creating, ok \in BOOLEAN : Pages!DraftAnswered(i, ok)
  BY <1>6, AnsweredKeeps
<1> QED BY <1>1, <1>2, <1>3, <1>4, <1>5, <1>6 DEF Pages!DraftNext

\* Where only the field moves, the page is as fresh as it was.
LEMMA FieldLeavesPage ==
  ASSUME FreshInv, Pages!LunarComplete, rev' \in {rev, rev + 1},
         UNCHANGED <<mode, anchor, weekStart, items, loads, loading, failed, asked, wanted, known, version>>
  PROVE  FreshInv' /\ Pages!LunarComplete'
<1>1. mode \in Modes /\ anchor \in Int /\ weekStart \in {0, 1} /\ rev \in Nat
  BY DEF FreshInv, PageTypes
<1>2. Pages!Page' = Pages!Page
  BY DEF Pages!Page
<1>3. FreshInv'
  BY <1>1, <1>2, FreshStays
<1> QED BY <1>3 DEF Pages!LunarComplete

LEMMA CalendarNextKeeps ==
  ASSUME PagesInv, Pages!CalendarNext
  PROVE  PagesInv'
<1>1. FreshInv /\ Pages!LunarComplete /\ DraftInv
  BY DEF PagesInv
<1>2. CASE Pages!PageNext /\ UNCHANGED <<adding, newTask, creating, typed, given, nMade>>
  <2>1. FreshInv' /\ Pages!LunarComplete'
    BY <1>1, <1>2, PageNextKeeps
  <2>2. DraftInv'
    <3>1. newTask' = newTask \/ (newTask' = 0 /\ newTask \in given \cup {0})
      BY <1>2
    <3> QED BY <1>1, <1>2, <3>1, FieldKeeps
  <2> QED BY <2>1, <2>2 DEF PagesInv
<1>3. CASE Pages!DraftNext
  <2>1. DraftInv'
    BY <1>1, <1>3, DraftNextKeeps
  <2>2. /\ UNCHANGED <<mode, anchor, weekStart, items, loads, loading, failed, asked, wanted, known, version>>
        /\ rev' \in {rev, rev + 1}
    <3>1. CASE UNCHANGED Pages!pageVars
      BY <3>1 DEF Pages!pageVars
    <3>2. CASE /\ \E i \in DOMAIN creating, ok \in BOOLEAN : Pages!DraftAnswered(i, ok)
               /\ UNCHANGED <<mode, anchor, weekStart, items, loads, loading, failed, asked, wanted,
                              known, version, turned>>
      BY <3>2 DEF Pages!DraftAnswered
    <3> QED BY <1>3, <3>1, <3>2 DEF Pages!DraftNext
  <2> QED BY <1>1, <2>1, <2>2, FieldLeavesPage DEF PagesInv
<1> QED BY <1>2, <1>3 DEF Pages!CalendarNext, Pages!draftVars

LEMMA PagesStart ==
  ASSUME Pages!CalendarInit
  PROVE  PagesInv
<1> DEFINE load == [range |-> Pages!Page, version |-> 0, alive |-> TRUE, answer |-> NoAnswer]
<1>1. /\ mode \in Modes /\ anchor \in Int /\ weekStart \in {0, 1}
      /\ loads = <<load>> /\ loading = TRUE /\ failed = FALSE /\ rev = 0 /\ version = 0
      /\ items.rev = -1 /\ asked = wanted
      /\ typed = 0 /\ newTask = 0 /\ creating = <<>> /\ nMade = [x \in 1 .. MaxTexts |-> 0]
      /\ MaxTexts \in Nat
  BY ScreensAssumption DEF Pages!CalendarInit, Modes, Pages!NoText
<1>2. load \in LoadType
  BY <1>1, PageIn DEF LoadType
<1>3. /\ load.alive /\ load.range = Pages!Page /\ load.version = 0 /\ load.answer = NoAnswer
  OBVIOUS
<1> HIDE DEF load
<1>4. loads \in Seq(LoadType) /\ Len(loads) = 1 /\ loads[1] = load /\ loads # <<>>
  BY <1>1, <1>2
<1>5. PageTypes
  <2>1. items.rev = -1 /\ rev = 0 /\ version = 0
    BY <1>1, Zenon
  <2>2. items.rev \in Int /\ rev \in Nat /\ version \in Nat /\ version <= rev
    BY ONLY <2>1
  <2>3. loading \in BOOLEAN /\ failed \in BOOLEAN
    BY <1>1, Zenon
  <2> QED BY <1>1, <1>4, <2>2, <2>3, Zenon DEF PageTypes
<1>6. LoadsSound
  BY <1>1, <1>3, <1>4 DEF LoadsSound
<1>7. FreshInv
  BY <1>1, <1>3, <1>4, <1>5, <1>6 DEF FreshInv
<1>8. Pages!LunarComplete
  BY <1>1 DEF Pages!LunarComplete
<1>9. Pages!DraftKept
  BY <1>1 DEF Pages!DraftKept
<1>10. creating \in Seq(1 .. typed) /\ Len(creating) <= 1
  BY <1>1
<1> QED BY <1>1, <1>7, <1>8, <1>9, <1>10 DEF PagesInv, DraftInv

\* However pages turn and data change while requests are under way (CalendarView.tsx): a page
\* that is not loading shows the tasks of its range, no older than the last change it heard of,
\* and says it is loading only while an answer will end that; the lunar days of a range that
\* was asked for are known once no request for it is under way; and a text typed into a cell
\* is in the field, became one task, or was given up.
THEOREM PagesStayTrue ==
  ScreensSpec => [](part = "pages" => Pages!PageIsFresh /\ Pages!LunarComplete /\ Pages!DraftKept)
<1> DEFINE Inv == part = "pages" => PagesInv
<1>1. ScreensInit => Inv
  BY PagesStart DEF ScreensInit
<1>2. Inv /\ [ScreensNext]_<<part, vars, layerVars, dropVars, laneVars, turnVars, parseVars,
                              viewVars, chipVars, hookVars, ruleVars, pickVars, subVars, orderVars>> => Inv'
  <2> SUFFICES ASSUME Inv, [ScreensNext]_<<part, vars, layerVars, dropVars, laneVars, turnVars, parseVars,
                              viewVars, chipVars, hookVars, ruleVars, pickVars, subVars, orderVars>>,
                      part' = "pages"
               PROVE  PagesInv'
    OBVIOUS
  <2>1. part = "pages" /\ (Pages!CalendarNext \/ UNCHANGED turnVars)
    BY DEF ScreensNext
  <2>2. PagesInv
    BY <2>1
  <2>3. CASE UNCHANGED turnVars
    <3>1. /\ UNCHANGED <<mode, anchor, weekStart, items, loads, loading, failed, asked, wanted, known, version>>
          /\ UNCHANGED <<creating, typed, given, nMade, newTask, rev>>
      BY <2>3 DEF turnVars
    <3>2. FreshInv /\ Pages!LunarComplete /\ DraftInv
      BY <2>2 DEF PagesInv
    <3>3. rev' \in {rev, rev + 1} /\ given \subseteq given'
      BY <3>1
    <3>4. FreshInv' /\ Pages!LunarComplete'
      BY <3>1, <3>2, <3>3, FieldLeavesPage
    <3>5. newTask' = newTask \/ (newTask' = 0 /\ newTask \in given \cup {0})
      BY <3>1
    <3>6. DraftInv'
      BY <3>1, <3>2, <3>3, <3>5, FieldKeeps
    <3> QED BY <3>4, <3>6 DEF PagesInv
  <2> QED BY <2>1, <2>2, <2>3, CalendarNextKeeps
<1>3. Inv => (part = "pages" => Pages!PageIsFresh /\ Pages!LunarComplete /\ Pages!DraftKept)
  <2>1. Pages!Last(loads) = loads[Len(loads)]
    BY DEF Pages!Last
  <2> QED BY <2>1 DEF PagesInv, FreshInv, DraftInv, Pages!PageIsFresh
<1> QED BY <1>1, <1>2, <1>3, PTL DEF ScreensSpec
=============================================================================
