----------------------------- MODULE ManualOrder -----------------------------
(***************************************************************************)
(* The order of a list: how the server sorts it (orderByFor, tasks.go), how *)
(* the page cuts it into days (bucketize, TaskViews.tsx), rows dragged and  *)
(* moved by the menu where the order is the user's own, and the head of the *)
(* table, that says how it is sorted (TableView.tsx).  An order that was    *)
(* saved is announced to nobody, and the page that saved it reads nothing.  *)
(***************************************************************************)
EXTENDS Integers, Sequences, FiniteSets, SequencesExt

CONSTANTS
  Begin,      \* rows there are at first
  Today,
  Columns,    \* of the table: "title", "priority", "dueDate"
  Nobody,
  Haste,      \* of {"past_pinned", "narrowed", "crossing", "elsewhere"}
  MaxUses     \* bound: clicks of the user and of another device

VARIABLES
  rows,       \* tasks of the list on the server; a due day of 0 is none
  shown,      \* rows of the page, in its order
  hidden,     \* of them, those the filter leaves out
  sortBy,
  calls,      \* orders on their way
  reread, reading,
  wish,       \* history: rows of a day as the user has left them, <<>> where that is void
  nUses

orderVars == <<rows, shown, hidden, sortBy, calls, reread, reading, wish, nUses>>

Ids  == DOMAIN Begin
Step == 1024
Use  == nUses < MaxUses /\ nUses' = nUses + 1
ToInt(b) == IF b THEN 1 ELSE 0

-----------------------------------------------------------------------------
\* What is done goes last, then what is pinned first; a task without a day after those with one,
\* and like rows by the number they have, backwards where the order is by title backwards.
Group(t)    == <<ToInt(t.done), ToInt(t.done \/ ~t.pinned)>>
Undated(t) == ToInt(t.due = 0)
Key(t, s) ==
  Group(t) \o
  (CASE s = "manual"       -> <<t.order>>
     [] s = "priority"     -> <<-t.priority, t.order>>
     [] s = "priority_asc" -> <<t.priority, t.order>>
     [] s = "due"          -> <<Undated(t), t.due, t.order>>
     [] s = "due_desc"     -> <<Undated(t), -t.due, t.order>>
     [] s = "title"        -> <<t.title>>
     [] s = "title_desc"   -> <<-t.title>>
     [] s = "smart"        -> <<Undated(t), t.due, -t.priority, t.order>>) \o
  <<IF s = "title_desc" THEN -t.id ELSE t.id>>
Less(x, y)   == \E k \in DOMAIN x : x[k] < y[k] /\ \A j \in 1 .. k - 1 : x[j] = y[j]
Sorted(r, s) == SetToSortSeq({r[i] : i \in DOMAIN r}, LAMBDA t, u : Less(Key(t, s), Key(u, s)))

\* The days a list is cut into.
Bucket(t) ==
  IF t.done THEN "done"
  ELSE IF t.due = 0 THEN "nodate"
  ELSE IF t.due < Today THEN "overdue"
  ELSE IF t.due = Today THEN "today"
  ELSE IF t.due = Today + 1 THEN "tomorrow"
  ELSE IF t.due <= Today + 7 THEN "soon" ELSE "later"

IdsOf(s)     == [k \in DOMAIN s |-> s[k].id]
Visible      == SelectSeq(shown, LAMBDA t : t.id \notin hidden)
DayOf(s, x)  == SelectSeq(s, LAMBDA t : Bucket(t) = Bucket(x))
Place(s, id) == CHOOSE k \in DOMAIN s : s[k] = id

OrderInit ==
  /\ rows = Begin /\ sortBy \in {"manual", "smart"}
  /\ shown = Sorted(rows, sortBy) /\ hidden = {}
  /\ calls = <<>> /\ reread = FALSE /\ reading = Nobody
  /\ wish = <<>> /\ nUses = 0

-----------------------------------------------------------------------------
\* Rows are put in the places their like have taken; others stay where they are.
Reordered(s, ids) ==
  LET told  == {k \in DOMAIN s : \E j \in DOMAIN ids : ids[j] = s[k].id}
      Nth(k) == Cardinality({j \in told : j <= k})
      here  == SelectSeq(ids, LAMBDA i : \E k \in told : s[k].id = i)
  IN  [k \in DOMAIN s |-> IF k \in told THEN s[CHOOSE j \in told : s[j].id = here[Nth(k)]] ELSE s[k]]

\* Shown at once, then sent.  Without "crossing" nothing else is under way.
Reorder(ids, left) ==
  /\ "crossing" \notin Haste => calls = <<>> /\ ~reread /\ reading = Nobody
  /\ shown' = Reordered(shown, ids)
  /\ calls' = Append(calls, [ids |-> ids, taken |-> FALSE])
  /\ wish' = left
  /\ UNCHANGED <<rows, hidden, sortBy, reread, reading>>

\* A row is dropped above or below another of its day: the new order is of all rows that are
\* visible.  Without "past_pinned" both are pinned or none, without "narrowed" all are visible.
Drop(x, y, after) ==
  /\ Use /\ sortBy = "manual"
  /\ x # y /\ Bucket(x) = Bucket(y)
  /\ "narrowed" \notin Haste => hidden = {}
  /\ "past_pinned" \notin Haste => Group(x) = Group(y)
  /\ LET Put(s) == LET rest == SelectSeq(s, LAMBDA i : i # x.id)
                       at   == Place(rest, y.id) + ToInt(after)
                   IN  InsertAt(rest, at, x.id)
     IN  Reorder(Put(IdsOf(Visible)), Put(IdsOf(DayOf(Visible, x))))

\* The menu swaps a row with the one before or after it that day, visible or not.
MoveWithinBucket(x, delta) ==
  /\ Use /\ sortBy = "manual"
  /\ "narrowed" \notin Haste => hidden = {}
  /\ LET ids == IdsOf(DayOf(shown, x))
         j   == Place(ids, x.id) + delta
         seen == IdsOf(DayOf(Visible, x))
         k   == Place(seen, x.id) + delta
         Swap(s, a, b) == [n \in DOMAIN s |-> IF s[n] = a THEN b ELSE IF s[n] = b THEN a ELSE s[n]]
     IN  /\ j \in DOMAIN ids
         /\ "past_pinned" \notin Haste => Group(x) = Group(rows[ids[j]])
         /\ Reorder(Swap(IdsOf(shown), x.id, ids[j]), IF k \in DOMAIN seen THEN Swap(seen, x.id, seen[k]) ELSE seen)

\* The server numbers those it was sent, by steps, and leaves the others their numbers.
ServerReorders(i) ==
  /\ i \in DOMAIN calls /\ ~calls[i].taken
  /\ rows' = [r \in Ids |-> IF \E k \in DOMAIN calls[i].ids : calls[i].ids[k] = r
                            THEN [rows[r] EXCEPT !.order = Place(calls[i].ids, r) * Step] ELSE rows[r]]
  /\ calls' = [calls EXCEPT ![i].taken = TRUE]
  /\ UNCHANGED <<shown, hidden, sortBy, reread, reading, wish, nUses>>

ReorderAnswered(i) ==
  /\ i \in DOMAIN calls /\ calls[i].taken
  /\ calls' = RemoveAt(calls, i)
  /\ UNCHANGED <<rows, shown, hidden, sortBy, reread, reading, wish, nUses>>

\* One that fails is taken back by reading the list.
ReorderFails(i) ==
  /\ i \in DOMAIN calls /\ ~calls[i].taken
  /\ calls' = RemoveAt(calls, i)
  /\ reread' = TRUE /\ wish' = <<>>
  /\ UNCHANGED <<rows, shown, hidden, sortBy, reading, nUses>>

-----------------------------------------------------------------------------
\* A row is ticked or pinned, here or elsewhere, and the list read again.
Mark(id, new, here) ==
  /\ Use
  /\ "crossing" \notin Haste => calls = <<>>
  /\ rows' = [rows EXCEPT ![id] = new]
  /\ shown' = IF here THEN [k \in DOMAIN shown |-> IF shown[k].id = id THEN new ELSE shown[k]] ELSE shown
  /\ wish' = IF \E k \in DOMAIN wish : wish[k] = id THEN <<>> ELSE wish
  /\ reread' = TRUE
  /\ UNCHANGED <<hidden, sortBy, calls, reading>>
Marked(t) == {[t EXCEPT !.done = ~@], [t EXCEPT !.pinned = ~@]}

\* Another device leaves another order: no page hears of it.
OrderedElsewhere(ids) ==
  /\ "elsewhere" \in Haste /\ Use
  /\ rows' = [r \in Ids |-> [rows[r] EXCEPT !.order = Place(ids, r) * Step]]
  /\ wish' = <<>>
  /\ UNCHANGED <<shown, hidden, sortBy, calls, reread, reading>>

\* The panel over the list: what a choice says of its order.
SortOptions == {"smart", "manual", "priority", "due", "title"}
SetSortBy(s) ==
  /\ Use
  /\ "crossing" \notin Haste => calls = <<>>
  /\ sortBy' = s /\ reread' = TRUE /\ wish' = <<>>
  /\ UNCHANGED <<rows, shown, hidden, calls, reading>>

\* The head of a column: its own direction first, then the other.
SortCols == [title    |-> [asc |-> "title", desc |-> "title_desc", base |-> "title"],
             priority |-> [asc |-> "priority_asc", desc |-> "priority", base |-> "priority"],
             dueDate  |-> [asc |-> "due", desc |-> "due_desc", base |-> "due"]]
ClickHead(col) ==
  LET c == SortCols[col]
  IN  SetSortBy(IF sortBy # c.base THEN c.base ELSE IF c.base = c.asc THEN c.desc ELSE c.asc)
Direction(col) ==
  IF sortBy = SortCols[col].asc THEN "ascending" ELSE IF sortBy = SortCols[col].desc THEN "descending" ELSE "none"

Narrow(ids) ==
  /\ Use /\ hidden' = ids /\ ids # hidden
  /\ UNCHANGED <<rows, shown, sortBy, calls, reread, reading, wish>>

\* A read that begins is the one that counts.
ReadStarts ==
  /\ reread /\ reread' = FALSE
  /\ reading' = {Sorted(rows, sortBy)}
  /\ UNCHANGED <<rows, shown, hidden, sortBy, calls, wish, nUses>>
ReadShown ==
  /\ reading # Nobody /\ reading' = Nobody
  /\ shown' = CHOOSE s \in reading : TRUE
  /\ UNCHANGED <<rows, hidden, sortBy, calls, reread, wish, nUses>>

OrderNext ==
  \/ \E k, n \in DOMAIN Visible, after \in BOOLEAN : Drop(Visible[k], Visible[n], after)
  \/ \E k \in DOMAIN Visible, delta \in {-1, 1} : MoveWithinBucket(Visible[k], delta)
  \/ \E i \in DOMAIN calls : ServerReorders(i) \/ ReorderAnswered(i) \/ ReorderFails(i)
  \/ \E id \in Ids, here \in BOOLEAN : \E new \in Marked(rows[id]) : Mark(id, new, here)
  \/ OrderedElsewhere(Reverse(IdsOf(shown)))
  \/ \E s \in SortOptions : SetSortBy(s)
  \/ \E col \in Columns : ClickHead(col)
  \/ \E ids \in {{}} \cup {{i} : i \in Ids} : Narrow(ids)
  \/ ReadStarts \/ ReadShown

OrderSpec == OrderInit /\ [][OrderNext]_orderVars

-----------------------------------------------------------------------------
OrderTypeOK ==
  /\ DOMAIN rows = Ids /\ {shown[k].id : k \in DOMAIN shown} = Ids /\ Len(shown) = Cardinality(Ids)
  /\ hidden \subseteq Ids /\ reread \in BOOLEAN /\ nUses \in 0 .. MaxUses
  /\ sortBy \in SortOptions \cup {"priority_asc", "due_desc", "title_desc"}

AtRest == calls = <<>> /\ ~reread /\ reading = Nobody

\* What the page has put in order by itself is the order the server will give.
OrderAgrees == AtRest => IdsOf(shown) = IdsOf(Sorted(rows, sortBy))

\* Rows of a day stand as the user has left them.
OrderKept ==
  AtRest /\ sortBy = "manual" =>
    SelectSeq(IdsOf(shown), LAMBDA i : \E k \in DOMAIN wish : wish[k] = i) = wish

\* A column whose head has an arrow is sorted the way the arrow points, apart from what is
\* done, what is pinned and what has no day.
SaysHowSorted ==
  AtRest => \A col \in Columns, k \in 1 .. Len(shown) - 1 :
    LET x == shown[k]
        y == shown[k + 1]
        f == IF col = "dueDate" THEN "due" ELSE col
    IN  Group(x) = Group(y) /\ (col = "dueDate" => Undated(x) = Undated(y)) =>
          /\ Direction(col) = "ascending"  => x[f] <= y[f]
          /\ Direction(col) = "descending" => x[f] >= y[f]
=============================================================================
