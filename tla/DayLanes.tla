------------------------------ MODULE DayLanes ------------------------------
(***************************************************************************)
(* The blocks of one day side by side (placeDay and the rows of DayView in  *)
(* CalendarView.tsx): tasks that overlap share the width, one that overlaps *)
(* none has all of it.  One step is one row of the loop.                    *)
(***************************************************************************)
EXTENDS Integers, Sequences, FiniteSetsExt

CONSTANTS
  Moments,      \* minutes of the day at which tasks begin or end
  Estimates,    \* estimated minutes, 0 for none
  NoEnd,
  MaxRows,      \* bound: tasks of the day
  Shortest      \* bound: minutes of the shortest task

VARIABLES rows, cluster, clusterEnd, placed

laneVars == <<rows, cluster, clusterEnd, placed>>

Duration(e) == IF e > 0 THEN e ELSE 45
Midnight    == 24 * 60

\* A task of the day as a row: an end before its start is an end on the next day.
RowOf(at, till, estimate) ==
  [start |-> at,
   end   |-> IF till = NoEnd THEN at + Duration(estimate) ELSE IF till > at THEN till ELSE Midnight]

RowSet == {r \in {RowOf(at, till, e) : at \in Moments, till \in Moments \cup {NoEnd}, e \in Estimates} :
             r.end - r.start >= Shortest}

Sorted(s) == \A i \in 1 .. Len(s) - 1 :
               s[i].start < s[i + 1].start \/ (s[i].start = s[i + 1].start /\ s[i].end <= s[i + 1].end)

LaneInit ==
  /\ \E n \in 0 .. MaxRows : rows \in {s \in [1 .. n -> RowSet] : Sorted(s)}
  /\ cluster = <<>> /\ clusterEnd = -1 /\ placed = <<>>

Lanes(c) == Max({c[i].lane : i \in DOMAIN c}) + 1
Flushed  == placed \o [i \in DOMAIN cluster |->
                 [start |-> cluster[i].start, end |-> cluster[i].end, lane |-> cluster[i].lane,
                  lanes |-> Lanes(cluster)]]

\* Mutant: a block that ends before the last one frees the lane of the last.
FirstFree_Next(c, r) == IF c = <<>> \/ c[Len(c)].end <= r.start THEN 0 ELSE c[Len(c)].lane + 1

\* The first lane in which no block of the cluster is still running.
FirstFree(c, r) ==
  LET taken == {c[i].lane : i \in {j \in DOMAIN c : c[j].end > r.start}}
  IN  CHOOSE l \in 0 .. Len(c) : l \notin taken /\ \A m \in 0 .. l - 1 : m \in taken

\* A row that begins after all of the cluster have ended begins a new one.
PlaceRow ==
  /\ rows # <<>>
  /\ LET r     == Head(rows)
         fresh == cluster # <<>> /\ r.start >= clusterEnd
         c     == IF fresh THEN <<>> ELSE cluster
     IN  /\ placed' = IF fresh THEN Flushed ELSE placed
         /\ cluster' = Append(c, [start |-> r.start, end |-> r.end, lane |-> FirstFree(c, r)])
         /\ clusterEnd' = IF fresh \/ r.end > clusterEnd THEN r.end ELSE clusterEnd
  /\ rows' = Tail(rows)

LastFlush ==
  /\ rows = <<>> /\ cluster # <<>>
  /\ placed' = Flushed
  /\ cluster' = <<>> /\ clusterEnd' = -1
  /\ UNCHANGED rows

LaneNext == PlaceRow \/ LastFlush

-----------------------------------------------------------------------------
LaneTypeOK ==
  /\ \A i \in DOMAIN cluster : cluster[i].lane \in 0 .. MaxRows - 1
  /\ clusterEnd \in -1 .. 2 * Midnight
  /\ \A i \in DOMAIN placed : placed[i].lanes \in 1 .. MaxRows

\* On the screen a block is never shorter than half an hour (BLOCK_MIN_H of HOUR_H).
DrawnEnd(b)  == IF b.end - b.start < 30 THEN b.start + 30 ELSE b.end
Meet(a, b)   == a.start < DrawnEnd(b) /\ b.start < DrawnEnd(a)
\* The part of the width two blocks take: lane l of n is from l / n to (l + 1) / n.
Beside(a, b) == (a.lane + 1) * b.lanes <= b.lane * a.lanes \/ (b.lane + 1) * a.lanes <= a.lane * b.lanes

\* No block of the day lies on another, none leaves the width, and one that meets no
\* other has all of it.
NoneCovered ==
  \A i \in DOMAIN placed :
    /\ placed[i].lane < placed[i].lanes
    /\ \A j \in DOMAIN placed \ {i} : Meet(placed[i], placed[j]) => Beside(placed[i], placed[j])
    /\ (\A j \in DOMAIN placed \ {i} : ~Meet(placed[i], placed[j])) => placed[i].lanes = 1
=============================================================================
