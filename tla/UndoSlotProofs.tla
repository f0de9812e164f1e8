--------------------------- MODULE UndoSlotProofs ---------------------------
(***************************************************************************)
(* Proofs about UndoSlot, for any number of requests in flight, any tasks, *)
(* any bound, with and without restarts: the types, that Undo never puts a *)
(* copy beside a task that is still there, and that the tasks nobody asks  *)
(* to delete keep their files.  Where one request follows the other and    *)
(* nothing restarts, rows, files and the slot agree, and Undo is complete. *)
(***************************************************************************)
EXTENDS UndoSlot, SequenceTheorems, TLAPS

-----------------------------------------------------------------------------
(* The inductive invariant.                                                *)

\* What a request has in its hands at each of its statements.
Control(r) ==
  /\ pc[r] \in {"stage", "erase", "row"} => doomed[r] # {}
  /\ pc[r] \in {"peek", "unlink"} /\ call[r].kind = "delete" => doomed[r] # {}
  /\ pc[r] = "expire" => call[r].kind # "delete"
  /\ pc[r] = "find" => call[r].ids \subseteq asked.tasks
  /\ pc[r] \in {"look", "detach", "remove"} => call[r].file \in asked.files
  /\ pc[r] \in {"probe", "place", "register"} => \E i \in Nat : call[r].ids = {i}

Controlled == \A r \in Reqs : Control(r)

\* Ids in rows, in the slot and in memory are ids of rows that exist or existed.
Known ==
  /\ \A i \in DOMAIN tasks : tasks[i].from \in {0} \union DOMAIN tasks
  /\ \A a \in atts : a.task \in DOMAIN tasks
  /\ IdsOf(slot.held) \subseteq DOMAIN tasks
  /\ \A r \in Reqs : IdsOf(held[r]) \subseteq DOMAIN tasks

\* What the transaction of Undo is about to insert has no original any more.
Gone == \A r \in Reqs : pc[r] = "restore" => \A h \in held[r] : ~Live(h.id)

\* The files of deleted tasks, in the slot or in the memory of a request.
Loose == FilesOf(slot.held) \union UNION {FilesOf(held[r]) : r \in Reqs}

\* Every file that somebody knows has been uploaded.
Uploaded ==
  /\ \A a \in atts : a.file <= uploads
  /\ \A f \in Loose \union asked.files : f <= uploads
  /\ \A r \in Reqs : \A f \in names[r] : f <= uploads

\* The attachments of the tasks, and none of their copies, that nobody asked to delete.
SafeRows ==
  {a \in atts : a.task \notin asked.tasks /\ a.file \notin asked.files /\ tasks[a.task].from = 0}

\* Their files are there, belong to one task, and nobody else knows them.
SafeOnDisk == \A a \in SafeRows : a.file \in disk
SafeOwned  == \A a \in SafeRows, b \in atts : a.file = b.file => a.task = b.task
SafeUnused == \A a \in SafeRows : a.file \notin Loose /\ \A r \in Reqs : a.file \notin names[r]

\* A file that waits for its row is on the disk and nobody else's.
Fresh(r) ==
  /\ \E f \in Nat : names[r] = {f}
  /\ \A f \in names[r] :
       /\ f \in disk /\ f \notin asked.files /\ f \notin Loose
       /\ \A a \in atts : a.file # f
       /\ \A q \in Reqs \ {r} : f \notin names[q]

AllFresh == \A r \in Reqs : pc[r] = "register" => Fresh(r)

Typed  == TypeOK /\ Controlled
Rooted == Typed /\ Known /\ Gone /\ NoCopyBesideOriginal
Filed  == Uploaded /\ SafeOnDisk /\ SafeOwned /\ SafeUnused /\ AllFresh
IInv   == Rooted /\ Filed

-----------------------------------------------------------------------------
(* Sequences of rows.                                                      *)

\* What BeginUndo leaves is put into some order.
LEMMA OrderIsSeq ==
  ASSUME NEW S, NEW o \in Orders(S), tasks \in Seq(Rows)
  PROVE  o \in Seq(S) /\ DOMAIN o = 1 .. Len(o)
<1>1. PICK n \in 0 .. Len(tasks) : o \in [1 .. n -> S]
  BY DEF Orders
<1>2. n \in Nat
  BY <1>1
<1> QED BY <1>1, <1>2

\* The rows that Restore appends.
Copies(o) == [k \in 1 .. Len(o) |-> [live |-> TRUE, from |-> o[k].id]]

LEMMA AppendCopies ==
  ASSUME NEW o \in Seq(Held), tasks \in Seq(Rows)
  PROVE  /\ tasks \o Copies(o) \in Seq(Rows)
         /\ Len(tasks \o Copies(o)) = Len(tasks) + Len(o)
         /\ \A i \in 1 .. Len(tasks) : (tasks \o Copies(o))[i] = tasks[i]
         /\ \A k \in 1 .. Len(o) :
              (tasks \o Copies(o))[Len(tasks) + k] = [live |-> TRUE, from |-> o[k].id]
<1>1. \A k \in 1 .. Len(o) : o[k] \in Held
  OBVIOUS
<1>2. \A k \in 1 .. Len(o) : [live |-> TRUE, from |-> o[k].id] \in Rows
  BY <1>1 DEF Held, Rows
<1>3. Copies(o) \in Seq(Rows) /\ Len(Copies(o)) = Len(o)
  <2>1. Len(o) \in Nat
    OBVIOUS
  <2>2. Copies(o) \in [1 .. Len(o) -> Rows]
    BY <1>2 DEF Copies
  <2> QED BY <2>1, <2>2
<1>4. \A k \in 1 .. Len(o) : Copies(o)[k] = [live |-> TRUE, from |-> o[k].id]
  BY DEF Copies
<1> HIDE DEF Copies
<1>5. /\ tasks \o Copies(o) \in Seq(Rows)
      /\ Len(tasks \o Copies(o)) = Len(tasks) + Len(o)
      /\ \A i \in 1 .. Len(tasks) + Len(o) : (tasks \o Copies(o))[i] =
           IF i <= Len(tasks) THEN tasks[i] ELSE Copies(o)[i - Len(tasks)]
  <2>1. ASSUME NEW c \in Seq(Rows)
        PROVE  /\ tasks \o c \in Seq(Rows) /\ Len(tasks \o c) = Len(tasks) + Len(c)
               /\ \A i \in 1 .. Len(tasks) + Len(c) : (tasks \o c)[i] =
                    IF i <= Len(tasks) THEN tasks[i] ELSE c[i - Len(tasks)]
    BY <2>1, ConcatProperties, Zenon
  <2> QED BY <1>3, <2>1
<1>6. Len(tasks) \in Nat /\ Len(o) \in Nat
  OBVIOUS
<1>7. \A k \in 1 .. Len(o) : (tasks \o Copies(o))[Len(tasks) + k] = Copies(o)[k]
  BY <1>5, <1>6
<1> QED BY <1>4, <1>5, <1>6, <1>7

\* The row EraseRow takes away keeps its place.
LEMMA EraseKeepsSeq ==
  ASSUME tasks \in Seq(Rows), NEW i \in DOMAIN tasks
  PROVE  /\ [tasks EXCEPT ![i].live = FALSE] \in Seq(Rows)
         /\ DOMAIN [tasks EXCEPT ![i].live = FALSE] = DOMAIN tasks
         /\ \A j \in DOMAIN tasks :
              /\ [tasks EXCEPT ![i].live = FALSE][j].from = tasks[j].from
              /\ [tasks EXCEPT ![i].live = FALSE][j].live => tasks[j].live
<1>1. tasks \in [1 .. Len(tasks) -> Rows] /\ Len(tasks) \in Nat
  OBVIOUS
<1>2. [tasks EXCEPT ![i].live = FALSE] \in [1 .. Len(tasks) -> Rows]
  BY <1>1 DEF Rows
<1>3. [tasks EXCEPT ![i].live = FALSE] \in Seq(Rows)
  BY <1>1, <1>2
<1>4. \A j \in DOMAIN tasks :
        /\ [tasks EXCEPT ![i].live = FALSE][j].from = tasks[j].from
        /\ [tasks EXCEPT ![i].live = FALSE][j].live => tasks[j].live
  BY <1>1 DEF Rows
<1> QED BY <1>1, <1>2, <1>3, <1>4
-----------------------------------------------------------------------------
(* Types, and what a request has in its hands.                             *)

\* What the rest of TypeOK says of the requests' variables, together.
LEMMA AnswerTyped ==
  ASSUME Typed, NEW r \in Reqs, Answer(r), stale' \subseteq Reqs,
         DOMAIN tasks' = DOMAIN tasks, asked' = asked
  PROVE  RequestsOK' /\ Controlled'
<1>1. NoCall \in Calls /\ NoMark \in Marks
  BY DEF NoCall, NoMark, Calls, Marks, AllKinds
<1>2. RequestsOK'
  BY <1>1 DEF Typed, TypeOK, RequestsOK, Answer, Statements
<1>3. Controlled'
  BY DEF Typed, TypeOK, RequestsOK, Controlled, Control, Answer
<1> QED BY <1>2, <1>3

LEMMA FilesAreNumbers ==
  ASSUME NEW hs \in SUBSET Held
  PROVE  FilesOf(hs) \subseteq Nat /\ IdsOf(hs) \subseteq Nat
BY DEF FilesOf, IdsOf, Held

\* A request of one of the kinds, with what the kinds say of its arguments.
LEMMA ArriveFacts ==
  ASSUME Typed, NEW r \in Reqs, Arrives(r)
  PROVE  \E kind \in AllKinds, S \in SUBSET Nat, f \in Nat :
           /\ Arrive(r, kind, S, f)
           /\ kind = "upload" => \E i \in Nat : S = {i}
           /\ kind = "unattach" => \E a \in atts : f = a.file
<1>1. Present \subseteq Nat /\ atts \subseteq Atts /\ 0 \in Nat /\ {} \in SUBSET Nat
  BY DEF Typed, TypeOK, TablesOK, Present
<1>2. CASE \E S \in SUBSET Present : Arrive(r, "delete", S, 0)
  <2>1. PICK S \in SUBSET Nat : Arrive(r, "delete", S, 0)
    BY <1>1, <1>2
  <2> QED BY <1>1, <2>1 DEF AllKinds
<1>3. CASE \E kind \in Kinds \intersect {"undo", "state", "drop"} : Arrive(r, kind, {}, 0)
  BY <1>1, <1>3 DEF AllKinds
<1>4. CASE \E i \in Present : Arrive(r, "upload", {i}, 0)
  <2>1. PICK i \in Nat : Arrive(r, "upload", {i}, 0)
    BY <1>1, <1>4
  <2>2. {i} \in SUBSET Nat
    OBVIOUS
  <2> QED BY <1>1, <2>1, <2>2 DEF AllKinds
<1>5. CASE \E a \in atts : Arrive(r, "unattach", {a.task}, a.file)
  <2>1. PICK a \in atts : Arrive(r, "unattach", {a.task}, a.file)
    BY <1>5
  <2>2. {a.task} \in SUBSET Nat /\ a.file \in Nat
    BY <1>1 DEF Atts
  <2> QED BY <2>1, <2>2 DEF AllKinds
<1> QED BY <1>2, <1>3, <1>4, <1>5 DEF Arrives

LEMMA ArriveTyped ==
  ASSUME Typed, NEW r \in Reqs, Arrives(r)
  PROVE  Typed'
<1>1. PICK kind \in AllKinds, S \in SUBSET Nat, f \in Nat :
        Arrive(r, kind, S, f) /\ (kind = "upload" => \E i \in Nat : S = {i})
  BY ArriveFacts
<1>2. [kind |-> kind, ids |-> S, file |-> f] \in Calls
  BY DEF Calls
<1>3. First(kind) \in Statements
  BY DEF First, Statements, AllKinds
<1>4. TablesOK'
  BY <1>1, ConstantsAssumption DEF Typed, TypeOK, TablesOK, Arrive
<1>5. RequestsOK'
  <2>1. /\ pc' \in [Reqs -> Statements] /\ call' \in [Reqs -> Calls]
        /\ held' \in [Reqs -> SUBSET Held] /\ mark' \in [Reqs -> Marks]
        /\ names' \in [Reqs -> SUBSET Nat]
        /\ doomed' \in [Reqs -> SUBSET DOMAIN tasks'] /\ stale' \subseteq Reqs
    BY <1>1, <1>2, <1>3 DEF Typed, TypeOK, RequestsOK, Arrive, Goto
  <2>2. \A q \in Reqs : pc'[q] \in {"erase", "row"} => doomed'[q] # {}
    BY <1>1 DEF Typed, TypeOK, RequestsOK, Arrive, Goto, First, AllKinds
  <2> QED BY <2>1, <2>2 DEF RequestsOK
<1>6. ASSUME NEW q \in Reqs PROVE Control(q)'
  <2>1. asked.tasks \subseteq asked'.tasks /\ asked.files \subseteq asked'.files
    BY <1>1 DEF Typed, TypeOK, TablesOK, Arrive
  <2>2. CASE q # r
    BY <1>1, <2>1, <2>2 DEF Typed, TypeOK, RequestsOK, Controlled, Control, Arrive, Goto
  <2>3. CASE q = r
    <3>1. pc'[r] = First(kind) /\ call'[r] = [kind |-> kind, ids |-> S, file |-> f]
      BY <1>1 DEF Typed, TypeOK, RequestsOK, Arrive, Goto
    <3>2. kind = "delete" => S \subseteq asked'.tasks
      BY <1>1 DEF Typed, TypeOK, TablesOK, Arrive
    <3>3. kind = "unattach" => f \in asked'.files
      BY <1>1 DEF Typed, TypeOK, TablesOK, Arrive
    <3>4. pc'[r] \notin {"stage", "erase", "row", "unlink"}
      BY <3>1 DEF First, AllKinds
    <3>5. /\ pc'[r] \in {"peek"} => kind = "drop"
          /\ pc'[r] = "expire" => kind \in {"undo", "state"}
          /\ pc'[r] = "find" => kind = "delete"
          /\ pc'[r] \in {"look", "detach", "remove"} => kind = "unattach"
          /\ pc'[r] \in {"probe", "place", "register"} => kind = "upload"
      BY <3>1 DEF First, AllKinds
    <3> QED BY <1>1, <2>3, <3>1, <3>2, <3>3, <3>4, <3>5 DEF Control
  <2> QED BY <2>2, <2>3
<1> QED BY <1>4, <1>5, <1>6 DEF Typed, TypeOK, Controlled

LEMMA DropTyped ==
  ASSUME Typed, NEW r \in Reqs, Dropping(r)
  PROVE  Typed'
<1> USE DEF Typed, TypeOK
<1>1. CASE PeekSlot(r)
  <2>1. FilesOf(slot.held) \subseteq Nat
    BY FilesAreNumbers DEF TablesOK, Slots
  <2>2. TablesOK'
    BY <1>1 DEF TablesOK, PeekSlot
  <2>3. RequestsOK'
    BY <1>1, <2>1 DEF RequestsOK, PeekSlot, Goto, Statements
  <2>4. Controlled'
    BY <1>1 DEF RequestsOK, Controlled, Control, PeekSlot, Goto
  <2> QED BY <2>2, <2>3, <2>4
<1>2. CASE UnlinkOne(r)
  BY <1>2 DEF TablesOK, RequestsOK, Controlled, Control, UnlinkOne
<1>3. CASE ClearSlot(r)
  <2>1. NoSlot \in Slots
    BY DEF NoSlot, Slots
  <2>2. TablesOK'
    BY <1>3, <2>1 DEF TablesOK, ClearSlot
  <2>3. CASE call[r].kind \in {"delete", "undo"}
    <3>1. RequestsOK'
      BY <1>3, <2>3 DEF RequestsOK, Controlled, Control, ClearSlot, Commits, Goto, Statements
    <3>2. Controlled'
      BY <1>3, <2>3 DEF RequestsOK, Controlled, Control, ClearSlot, Goto
    <3> QED BY <2>2, <3>1, <3>2
  <2>4. CASE call[r].kind \notin {"delete", "undo"}
    BY <1>3, <2>2, <2>4, AnswerTyped DEF ClearSlot, Commits
  <2> QED BY <2>3, <2>4
<1> QED BY <1>1, <1>2, <1>3 DEF Dropping
LEMMA HeldTyped ==
  ASSUME Typed, NEW i \in Nat
  PROVE  HeldOf(i) \in Held
BY DEF Typed, TypeOK, TablesOK, HeldOf, Held, Atts

LEMMA DeleteTyped ==
  ASSUME Typed, NEW r \in Reqs, Deleting(r)
  PROVE  Typed'
<1>1. CASE FindDoomed(r)
  <2>1. CASE Doomed(r) # {}
    <3>1. Doomed(r) \subseteq DOMAIN tasks /\ DOMAIN tasks \subseteq Nat
      BY DEF Typed, TypeOK, TablesOK, Doomed, Live
    <3>2. {HeldOf(i) : i \in Doomed(r)} \subseteq Held
      BY <3>1, HeldTyped
    <3>3. TablesOK'
      BY <1>1, <2>1 DEF Typed, TypeOK, TablesOK, FindDoomed
    <3>4. RequestsOK'
      BY <1>1, <2>1, <3>1, <3>2 DEF Typed, TypeOK, RequestsOK, FindDoomed, Goto, Statements
    <3>5. Controlled'
      BY <1>1, <2>1 DEF Typed, TypeOK, RequestsOK, Controlled, Control, FindDoomed, Goto
    <3> QED BY <3>3, <3>4, <3>5 DEF Typed, TypeOK
  <2>2. CASE Doomed(r) = {}
    <3>1. Answer(r) /\ UNCHANGED <<tasks, atts, disk, slot, now, stale, uploads, stagings,
                                    asked, requests, crashes>>
      BY <1>1, <2>2 DEF FindDoomed
    <3>2. stale' \subseteq Reqs
      BY <3>1 DEF Typed, TypeOK, RequestsOK
    <3>3. TablesOK'
      BY <3>1 DEF Typed, TypeOK, TablesOK
    <3> QED BY <3>1, <3>2, <3>3, AnswerTyped DEF Typed, TypeOK
  <2> QED BY <2>1, <2>2
<1>2. CASE Stage(r)
  <2>1. slot' \in Slots
    BY <1>2 DEF Typed, TypeOK, TablesOK, RequestsOK, Stage, Slots
  <2>2. TablesOK'
    BY <1>2, <2>1 DEF Typed, TypeOK, TablesOK, Stage
  <2>3. RequestsOK'
    BY <1>2 DEF Typed, TypeOK, RequestsOK, Controlled, Control, Stage, Goto, Commits, Statements
  <2>4. Controlled'
    BY <1>2 DEF Typed, TypeOK, RequestsOK, Controlled, Control, Stage, Goto
  <2> QED BY <2>2, <2>3, <2>4 DEF Typed, TypeOK
<1>3. CASE EraseAtts(r)
  <2>1. TablesOK'
    BY <1>3 DEF Typed, TypeOK, TablesOK, EraseAtts
  <2>2. RequestsOK'
    BY <1>3 DEF Typed, TypeOK, RequestsOK, EraseAtts, Goto, Commits, Statements
  <2>3. Controlled'
    BY <1>3 DEF Typed, TypeOK, RequestsOK, Controlled, Control, EraseAtts, Goto
  <2> QED BY <2>1, <2>2, <2>3 DEF Typed, TypeOK
<1>4. CASE EraseRow(r)
  <2> DEFINE i == CHOOSE j \in doomed[r] : TRUE
  <2>1. i \in DOMAIN tasks /\ i \in doomed[r]
    BY <1>4 DEF Typed, TypeOK, RequestsOK, EraseRow
  <2>2. tasks' = [tasks EXCEPT ![i].live = FALSE] /\ atts' = {a \in atts : a.task # i}
    BY <1>4 DEF EraseRow
  <2>3. IF doomed[r] = {i}
          THEN Answer(r)
          ELSE /\ Goto(r, "erase") /\ doomed' = [doomed EXCEPT ![r] = @ \ {i}]
               /\ UNCHANGED <<call, held, mark, names>>
    BY <1>4 DEF EraseRow
  <2> HIDE DEF i
  <2>4. tasks' \in Seq(Rows) /\ DOMAIN tasks' = DOMAIN tasks
    BY <2>1, <2>2, EraseKeepsSeq DEF Typed, TypeOK, TablesOK
  <2>5. TablesOK'
    BY <1>4, <2>2, <2>4 DEF Typed, TypeOK, TablesOK, EraseRow
  <2>6. stale' \subseteq Reqs /\ asked' = asked /\ pc[r] = "row"
    BY <1>4 DEF EraseRow, Commits
  <2>7. CASE doomed[r] = {i}
    BY <2>3, <2>4, <2>5, <2>6, <2>7, AnswerTyped DEF Typed, TypeOK
  <2>8. CASE doomed[r] # {i}
    <3>1. doomed[r] \ {i} # {}
      BY <2>1, <2>8
    <3>2. RequestsOK'
      BY <2>3, <2>4, <2>6, <2>8, <3>1 DEF Typed, TypeOK, RequestsOK, Goto, Statements
    <3>3. Controlled'
      BY <2>3, <2>6, <2>8, <3>1
      DEF Typed, TypeOK, RequestsOK, Controlled, Control, Goto
    <3> QED BY <2>5, <3>2, <3>3 DEF Typed, TypeOK
  <2> QED BY <2>7, <2>8
<1> QED BY <1>1, <1>2, <1>3, <1>4 DEF Deleting

\* What Restore does, in terms of an order of what it holds.
LEMMA RestoreFacts ==
  ASSUME Typed, NEW r \in Reqs, Restore(r)
  PROVE  \E o \in Orders(held[r]) :
           /\ o \in Seq(held[r]) /\ o \in Seq(Held) /\ DOMAIN o = 1 .. Len(o)
           /\ tasks' = tasks \o Copies(o)
           /\ atts' = atts \union
                UNION {{[task |-> Len(tasks) + k, file |-> f] : f \in o[k].files} : k \in 1 .. Len(o)}
<1>1. PICK o \in Orders(held[r]) :
        /\ tasks' = tasks \o [k \in 1 .. Len(o) |-> [live |-> TRUE, from |-> o[k].id]]
        /\ atts' = atts \union
             UNION {{[task |-> Len(tasks) + k, file |-> f] : f \in o[k].files} : k \in DOMAIN o}
  BY DEF Restore
<1>2. tasks \in Seq(Rows) /\ held[r] \subseteq Held
  BY DEF Typed, TypeOK, TablesOK, RequestsOK
<1>3. o \in Seq(held[r]) /\ DOMAIN o = 1 .. Len(o)
  BY <1>2, OrderIsSeq
<1>4. o \in Seq(Held)
  BY <1>2, <1>3
<1> QED BY <1>1, <1>3, <1>4 DEF Copies
LEMMA UndoTyped ==
  ASSUME Typed, NEW r \in Reqs, Undoing(r)
  PROVE  Typed'
<1> DEFINE Frame == UNCHANGED <<tasks, atts, disk, slot, now, stale, uploads, stagings,
                                asked, requests, crashes>>
<1>0. ASSUME Frame PROVE TablesOK' /\ stale' \subseteq Reqs
  BY <1>0 DEF Typed, TypeOK, TablesOK, RequestsOK
<1>1. CASE ExpireUndo(r)
  <2>1. Frame /\ pc[r] = "expire"
    BY <1>1 DEF ExpireUndo
  <2>2. CASE Answer(r)
    BY <1>0, <2>1, <2>2, AnswerTyped DEF Typed, TypeOK
  <2>3. ASSUME NEW s \in {"peek", "fetch"}, Goto(r, s), UNCHANGED <<call, held, mark, names, doomed>>
        PROVE  Typed'
    <3>1. RequestsOK'
      BY <2>1, <2>3 DEF Typed, TypeOK, RequestsOK, Goto, Statements
    <3>2. Controlled'
      BY <2>1, <2>3 DEF Typed, TypeOK, RequestsOK, Controlled, Control, Goto
    <3> QED BY <1>0, <2>1, <3>1, <3>2 DEF Typed, TypeOK
  <2> QED BY <1>1, <2>2, <2>3 DEF ExpireUndo
<1>2. CASE FetchSlot(r)
  <2>1. Frame /\ pc[r] = "fetch"
    BY <1>2 DEF FetchSlot
  <2>2. CASE slot = NoSlot
    BY <1>0, <1>2, <2>1, <2>2, AnswerTyped DEF Typed, TypeOK, FetchSlot
  <2>3. CASE slot # NoSlot
    <3>1. slot.held \in SUBSET Held /\ [at |-> slot.at, nr |-> slot.nr] \in Marks
      BY DEF Typed, TypeOK, TablesOK, Slots, Marks
    <3>2. RequestsOK'
      BY <1>2, <2>1, <2>3, <3>1 DEF Typed, TypeOK, RequestsOK, FetchSlot, Goto, Statements
    <3>3. Controlled'
      BY <1>2, <2>1, <2>3 DEF Typed, TypeOK, RequestsOK, Controlled, Control, FetchSlot, Goto
    <3> QED BY <1>0, <2>1, <3>2, <3>3 DEF Typed, TypeOK
  <2> QED BY <2>2, <2>3
<1>3. CASE BeginUndo(r)
  <2>1. Frame /\ pc[r] = "begin"
    BY <1>3 DEF BeginUndo
  <2>2. {[id |-> h.id, files |-> h.files \intersect disk] : h \in ToRestore(r)} \subseteq Held
    BY DEF Typed, TypeOK, RequestsOK, ToRestore, Held
  <2>3. RequestsOK'
    BY <1>3, <2>1, <2>2 DEF Typed, TypeOK, RequestsOK, BeginUndo, Goto, Statements
  <2>4. Controlled'
    BY <1>3, <2>1 DEF Typed, TypeOK, RequestsOK, Controlled, Control, BeginUndo, Goto
  <2> QED BY <1>0, <2>1, <2>3, <2>4 DEF Typed, TypeOK
<1>4. CASE Restore(r)
  <2>1. PICK o \in Seq(Held) :
          /\ DOMAIN o = 1 .. Len(o)
          /\ tasks' = tasks \o Copies(o)
          /\ atts' = atts \union
               UNION {{[task |-> Len(tasks) + k, file |-> f] : f \in o[k].files} : k \in 1 .. Len(o)}
    BY <1>4, RestoreFacts
  <2>2. /\ tasks' \in Seq(Rows) /\ Len(tasks') = Len(tasks) + Len(o)
        /\ Len(tasks) \in Nat /\ Len(o) \in Nat
    BY <2>1, AppendCopies DEF Typed, TypeOK, TablesOK
  <2>3. DOMAIN tasks \subseteq DOMAIN tasks'
    BY <2>2 DEF Typed, TypeOK, TablesOK
  <2>4. \A k \in 1 .. Len(o) : o[k].files \subseteq Nat /\ Len(tasks) + k \in Nat
    <3>1. \A k \in 1 .. Len(o) : o[k] \in Held
      BY <2>1
    <3>2. \A k \in 1 .. Len(o) : Len(tasks) + k \in Nat
      BY <2>2
    <3> QED BY <3>1, <3>2 DEF Held
  <2>5. atts' \subseteq Atts
    <3>1. \A a \in atts' : a \in atts \/ \E k \in 1 .. Len(o) : \E f \in o[k].files :
                             a = [task |-> Len(tasks) + k, file |-> f]
      BY <2>1
    <3> QED BY <2>4, <3>1 DEF Typed, TypeOK, TablesOK, Atts
  <2>6. TablesOK'
    BY <1>4, <2>2, <2>5 DEF Typed, TypeOK, TablesOK, Restore
  <2>7. stale' \subseteq Reqs
    BY <1>4 DEF Typed, TypeOK, RequestsOK, Restore, Commits
  <2>8. RequestsOK'
    BY <1>4, <2>3, <2>7 DEF Typed, TypeOK, RequestsOK, Restore, Goto, Statements
  <2>9. Controlled'
    BY <1>4 DEF Typed, TypeOK, RequestsOK, Controlled, Control, Restore, Goto
  <2> QED BY <2>6, <2>8, <2>9 DEF Typed, TypeOK
<1>5. CASE RestoreFails(r)
  <2>1. TablesOK' /\ stale' \subseteq Reqs
    BY <1>5 DEF Typed, TypeOK, TablesOK, RequestsOK, RestoreFails
  <2> QED BY <1>5, <2>1, AnswerTyped DEF Typed, TypeOK, RestoreFails
<1>6. CASE DiscardSlot(r)
  <2>1. slot' \in Slots
    BY <1>6 DEF Typed, TypeOK, TablesOK, DiscardSlot, NoSlot, Slots
  <2>2. TablesOK'
    BY <1>6, <2>1 DEF Typed, TypeOK, TablesOK, DiscardSlot
  <2> QED BY <1>6, <2>2, AnswerTyped DEF Typed, TypeOK, DiscardSlot, Commits
<1> QED BY <1>1, <1>2, <1>3, <1>4, <1>5, <1>6 DEF Undoing

LEMMA AttachTyped ==
  ASSUME Typed, NEW r \in Reqs, Attaching(r)
  PROVE  Typed'
<1> DEFINE Move(s) ==
      Goto(r, s) /\ UNCHANGED <<call, held, mark, doomed, tasks, asked>> /\ stale' \subseteq Reqs
<1>0. ASSUME NEW s \in Statements, Move(s), names' = names, TablesOK',
             s \notin {"stage", "erase", "row", "peek", "unlink", "expire", "find"},
             s \in {"look", "detach", "remove"} => pc[r] \in {"look", "detach"},
             s \in {"probe", "place", "register"} => pc[r] \in {"probe", "place"}
      PROVE  Typed'
  <2>1. RequestsOK'
    BY <1>0 DEF Typed, TypeOK, RequestsOK, Goto
  <2>2. Controlled'
    BY <1>0 DEF Typed, TypeOK, RequestsOK, Controlled, Control, Goto
  <2> QED BY <1>0, <2>1, <2>2 DEF Typed, TypeOK
<1>1. CASE ProbeTask(r)
  <2>1. TablesOK' /\ stale' \subseteq Reqs /\ tasks' = tasks /\ asked' = asked
    BY <1>1 DEF Typed, TypeOK, TablesOK, RequestsOK, ProbeTask
  <2>2. CASE Answer(r)
    BY <2>1, <2>2, AnswerTyped DEF Typed, TypeOK
  <2> QED BY <1>0, <1>1, <2>1, <2>2 DEF ProbeTask, Statements
<1>2. CASE PlaceFile(r)
  <2>1. TablesOK'
    BY <1>2 DEF Typed, TypeOK, TablesOK, PlaceFile
  <2>2. RequestsOK'
    BY <1>2 DEF Typed, TypeOK, TablesOK, RequestsOK, PlaceFile, Goto, Statements
  <2>3. Controlled'
    BY <1>2 DEF Typed, TypeOK, RequestsOK, Controlled, Control, PlaceFile, Goto
  <2> QED BY <2>1, <2>2, <2>3 DEF Typed, TypeOK
<1>3. CASE RegisterFile(r)
  <2>1. call[r].ids \subseteq Nat /\ names[r] \subseteq Nat
    BY DEF Typed, TypeOK, RequestsOK, Calls
  <2>2. [task : call[r].ids, file : names[r]] \subseteq Atts
    BY <2>1 DEF Atts
  <2>3. TablesOK'
    BY <1>3, <2>2 DEF Typed, TypeOK, TablesOK, RegisterFile
  <2>4. stale' \subseteq Reqs
    BY <1>3 DEF Typed, TypeOK, RequestsOK, RegisterFile, Commits
  <2> QED BY <1>3, <2>3, <2>4, AnswerTyped DEF Typed, TypeOK, RegisterFile
<1>4. CASE LookUpAtt(r)
  <2>1. TablesOK' /\ stale' \subseteq Reqs /\ tasks' = tasks /\ asked' = asked
    BY <1>4 DEF Typed, TypeOK, TablesOK, RequestsOK, LookUpAtt
  <2>2. CASE Answer(r)
    BY <2>1, <2>2, AnswerTyped DEF Typed, TypeOK
  <2> QED BY <1>0, <1>4, <2>1, <2>2 DEF LookUpAtt, Statements
<1>5. CASE DetachAtt(r)
  <2>1. TablesOK' /\ stale' \subseteq Reqs
    BY <1>5 DEF Typed, TypeOK, TablesOK, DetachAtt, Commits
  <2> QED BY <1>0, <1>5, <2>1 DEF DetachAtt, Statements
<1>6. CASE RemoveFile(r)
  <2>1. TablesOK' /\ stale' \subseteq Reqs
    BY <1>6 DEF Typed, TypeOK, TablesOK, RequestsOK, RemoveFile
  <2> QED BY <1>6, <2>1, AnswerTyped DEF Typed, TypeOK, RemoveFile
<1> QED BY <1>1, <1>2, <1>3, <1>4, <1>5, <1>6 DEF Attaching
LEMMA ServerTyped ==
  ASSUME Typed, Tick \/ Crash \/ UNCHANGED vars
  PROVE  Typed'
<1>1. CASE Tick
  <2>1. TablesOK'
    BY <1>1, ConstantsAssumption DEF Typed, TypeOK, TablesOK, Tick
  <2>2. RequestsOK' /\ Controlled'
    BY <1>1 DEF Typed, TypeOK, RequestsOK, Controlled, Control, Tick, request
  <2> QED BY <2>1, <2>2 DEF Typed, TypeOK
<1>2. CASE Crash
  <2>1. TablesOK'
    BY <1>2, ConstantsAssumption DEF Typed, TypeOK, TablesOK, Crash
  <2>2. NoCall \in Calls /\ NoMark \in Marks
    BY DEF NoCall, NoMark, Calls, Marks, AllKinds
  <2>3. RequestsOK'
    BY <1>2, <2>2 DEF RequestsOK, Crash, Statements
  <2>4. Controlled'
    BY <1>2 DEF Controlled, Control, Crash
  <2> QED BY <2>1, <2>3, <2>4 DEF Typed, TypeOK
<1>3. CASE UNCHANGED vars
  BY <1>3 DEF Typed, TypeOK, TablesOK, RequestsOK, Controlled, Control, vars
<1> QED BY <1>1, <1>2, <1>3

LEMMA StepTyped ==
  ASSUME Typed, [Next]_vars
  PROVE  Typed'
BY ArriveTyped, DeleteTyped, DropTyped, UndoTyped, AttachTyped, ServerTyped DEF Next

-----------------------------------------------------------------------------
(* Ids, and no copy beside its original.                                   *)

\* Most steps change no row of a task and put nothing in a request's hands.
LEMMA RootedFrame ==
  ASSUME Rooted, Typed', DOMAIN tasks' = DOMAIN tasks,
         \A i \in DOMAIN tasks : /\ tasks'[i].from = tasks[i].from
                                 /\ tasks'[i].live => tasks[i].live,
         \A a \in atts' : a.task \in DOMAIN tasks,
         IdsOf(slot'.held) \subseteq DOMAIN tasks,
         \A q \in Reqs : /\ IdsOf(held'[q]) \subseteq DOMAIN tasks
                         /\ pc'[q] = "restore" => \A h \in held'[q] : ~Live(h.id)
  PROVE  Rooted'
<1>1. Known'
  BY DEF Rooted, Known, IdsOf
<1>2. Gone'
  BY DEF Rooted, Gone, Live
<1>3. NoCopyBesideOriginal'
  BY DEF Rooted, NoCopyBesideOriginal, Live
<1> QED BY <1>1, <1>2, <1>3 DEF Rooted

\* The one step that makes rows: what it copies is gone, and nothing is a copy of a copy
\* it makes.
LEMMA RestoreRooted ==
  ASSUME Rooted, Typed', NEW r \in Reqs, Restore(r)
  PROVE  Rooted'
<1>1. PICK o \in Orders(held[r]) :
        /\ o \in Seq(held[r]) /\ o \in Seq(Held) /\ DOMAIN o = 1 .. Len(o)
        /\ tasks' = tasks \o Copies(o)
        /\ atts' = atts \union
             UNION {{[task |-> Len(tasks) + k, file |-> f] : f \in o[k].files} : k \in 1 .. Len(o)}
  BY RestoreFacts DEF Rooted
<1>2. /\ tasks' \in Seq(Rows) /\ Len(tasks') = Len(tasks) + Len(o)
      /\ \A i \in 1 .. Len(tasks) : tasks'[i] = tasks[i]
      /\ \A k \in 1 .. Len(o) : tasks'[Len(tasks) + k] = [live |-> TRUE, from |-> o[k].id]
  BY <1>1, AppendCopies DEF Rooted, Typed, TypeOK, TablesOK
<1>3. /\ DOMAIN tasks = 1 .. Len(tasks) /\ DOMAIN tasks' = 1 .. Len(tasks) + Len(o)
      /\ Len(tasks) \in Nat /\ Len(o) \in Nat
  BY <1>1, <1>2 DEF Rooted, Typed, TypeOK, TablesOK
<1>4. \A k \in 1 .. Len(o) : o[k] \in held[r]
  BY <1>1
<1>5. \A k \in 1 .. Len(o) : o[k].id \in DOMAIN tasks /\ ~tasks[o[k].id].live
  BY <1>4 DEF Rooted, Known, Gone, Live, IdsOf, Restore
<1>6. \A i \in DOMAIN tasks' :
        \/ i \in DOMAIN tasks /\ tasks'[i] = tasks[i]
        \/ \E k \in 1 .. Len(o) : i = Len(tasks) + k
                                /\ tasks'[i] = [live |-> TRUE, from |-> o[k].id]
  <2>1. \A i \in DOMAIN tasks' : i \in DOMAIN tasks \/ i - Len(tasks) \in 1 .. Len(o)
    BY <1>3
  <2>2. \A i \in DOMAIN tasks' : i = Len(tasks) + (i - Len(tasks))
    BY <1>3
  <2> QED BY <1>2, <1>3, <2>1, <2>2
<1>7. \A i \in DOMAIN tasks' : tasks'[i].from \in {0} \union DOMAIN tasks
  BY <1>5, <1>6 DEF Rooted, Known
<1>8. DOMAIN tasks \subseteq DOMAIN tasks' /\ 0 \notin DOMAIN tasks'
  BY <1>3
<1>9. Known'
  <2>1. \A a \in atts' : a.task \in DOMAIN tasks'
    <3>1. \A a \in atts' : a \in atts \/ \E k \in 1 .. Len(o) : a.task = Len(tasks) + k
      BY <1>1
    <3>2. \A k \in 1 .. Len(o) : Len(tasks) + k \in DOMAIN tasks'
      BY <1>3
    <3> QED BY <1>8, <3>1, <3>2 DEF Rooted, Known
  <2>2. slot' = slot /\ held' = held
    BY DEF Restore
  <2> QED BY <1>7, <1>8, <2>1, <2>2 DEF Rooted, Known
<1>10. Gone'
  <2>1. \A q \in Reqs : pc'[q] = "restore" => pc[q] = "restore"
    BY DEF Rooted, Typed, TypeOK, RequestsOK, Restore, Goto
  <2>2. \A q \in Reqs : \A h \in held[q] : h.id \in DOMAIN tasks
    BY DEF Rooted, Known, IdsOf
  <2>3. held' = held
    BY DEF Restore
  <2> QED BY <1>2, <1>3, <2>1, <2>2, <2>3 DEF Rooted, Gone, Live
<1>11. NoCopyBesideOriginal'
  <2>1. ASSUME NEW i \in DOMAIN tasks', tasks'[i].live, tasks'[i].from \in DOMAIN tasks
        PROVE  ~tasks'[tasks'[i].from].live
    <3>1. tasks'[tasks'[i].from] = tasks[tasks'[i].from]
      BY <1>2, <1>3, <2>1
    <3> QED BY <1>5, <1>6, <2>1, <3>1 DEF Rooted, NoCopyBesideOriginal, Live
  <2> QED BY <1>7, <1>8, <2>1 DEF NoCopyBesideOriginal, Live
<1> QED BY <1>9, <1>10, <1>11 DEF Rooted
\* What a request holds stays, or goes, in most steps.
LEMMA HandsFrame ==
  ASSUME Rooted, NEW q \in Reqs,
         held'[q] = {} \/ (held'[q] = held[q] /\ (pc'[q] = "restore" => pc[q] = "restore"))
  PROVE  /\ IdsOf(held'[q]) \subseteq DOMAIN tasks
         /\ pc'[q] = "restore" => \A h \in held'[q] : ~Live(h.id)
BY DEF Rooted, Known, Gone, IdsOf

\* A step that changes neither rows nor slot nor what requests hold.
LEMMA QuietRooted ==
  ASSUME Rooted, Typed', UNCHANGED <<tasks, slot>> \/ (tasks' = tasks /\ slot' = NoSlot),
         \A a \in atts' : a.task \in DOMAIN tasks,
         \A q \in Reqs : held'[q] = {}
                         \/ (held'[q] = held[q] /\ (pc'[q] = "restore" => pc[q] = "restore"))
  PROVE  Rooted'
<1>1. IdsOf(slot'.held) \subseteq DOMAIN tasks
  BY DEF Rooted, Known, NoSlot, IdsOf
<1> QED BY <1>1, HandsFrame, RootedFrame

LEMMA AnswerHands ==
  ASSUME Typed, NEW r \in Reqs, Answer(r), NEW q \in Reqs
  PROVE  held'[q] = {} \/ (held'[q] = held[q] /\ (pc'[q] = "restore" => pc[q] = "restore"))
BY DEF Typed, TypeOK, RequestsOK, Answer

LEMMA GotoHands ==
  ASSUME Typed, NEW r \in Reqs, NEW s, Goto(r, s), s # "restore", held' = held, NEW q \in Reqs
  PROVE  held'[q] = {} \/ (held'[q] = held[q] /\ (pc'[q] = "restore" => pc[q] = "restore"))
BY DEF Typed, TypeOK, RequestsOK, Goto

LEMMA DeleteRooted ==
  ASSUME Rooted, Typed', NEW r \in Reqs, Deleting(r)
  PROVE  Rooted'
<1>0. Typed /\ \A a \in atts : a.task \in DOMAIN tasks
  BY DEF Rooted, Known
<1>1. CASE FindDoomed(r)
  <2>1. CASE Doomed(r) = {}
    BY <1>0, <1>1, <2>1, AnswerHands, QuietRooted DEF FindDoomed
  <2>2. CASE Doomed(r) # {}
    <3>1. UNCHANGED <<tasks, atts, slot>> /\ Goto(r, "peek")
          /\ held' = [held EXCEPT ![r] = {HeldOf(i) : i \in Doomed(r)}]
      BY <1>1, <2>2 DEF FindDoomed
    <3>2. \A q \in Reqs : IdsOf(held'[q]) \subseteq DOMAIN tasks
      BY <1>0, <3>1
      DEF Rooted, Known, Typed, TypeOK, RequestsOK, IdsOf, HeldOf, Doomed, Live
    <3>3. \A q \in Reqs : pc'[q] = "restore" => pc[q] = "restore" /\ held'[q] = held[q]
      BY <1>0, <3>1 DEF Typed, TypeOK, RequestsOK, Goto
    <3>4. \A q \in Reqs : pc'[q] = "restore" => \A h \in held'[q] : ~Live(h.id)
      BY <3>3 DEF Rooted, Gone
    <3>5. IdsOf(slot'.held) \subseteq DOMAIN tasks
      BY <3>1 DEF Rooted, Known
    <3> QED BY <1>0, <3>1, <3>2, <3>4, <3>5, RootedFrame
  <2> QED BY <2>1, <2>2
<1>2. CASE Stage(r)
  <2>1. UNCHANGED <<tasks, atts, held>> /\ Goto(r, "erase") /\ slot'.held = held[r]
    BY <1>2 DEF Stage
  <2>2. IdsOf(slot'.held) \subseteq DOMAIN tasks
    BY <2>1 DEF Rooted, Known
  <2> QED BY <1>0, <2>1, <2>2, GotoHands, HandsFrame, RootedFrame
<1>3. CASE EraseAtts(r)
  BY <1>0, <1>3, GotoHands, QuietRooted DEF EraseAtts
<1>4. CASE EraseRow(r)
  <2> DEFINE i == CHOOSE j \in doomed[r] : TRUE
  <2>1. i \in DOMAIN tasks
    BY <1>0, <1>4 DEF Typed, TypeOK, RequestsOK, EraseRow
  <2>2. tasks' = [tasks EXCEPT ![i].live = FALSE] /\ atts' \subseteq atts /\ slot' = slot
    BY <1>4 DEF EraseRow
  <2>3. Answer(r) \/ (Goto(r, "erase") /\ held' = held)
    BY <1>4 DEF EraseRow
  <2> HIDE DEF i
  <2>4. /\ DOMAIN tasks' = DOMAIN tasks
        /\ \A j \in DOMAIN tasks : /\ tasks'[j].from = tasks[j].from
                                   /\ tasks'[j].live => tasks[j].live
    BY <1>0, <2>1, <2>2, EraseKeepsSeq DEF Typed, TypeOK, TablesOK
  <2>5. \A a \in atts' : a.task \in DOMAIN tasks
    BY <1>0, <2>2
  <2>6. IdsOf(slot'.held) \subseteq DOMAIN tasks
    BY <2>2 DEF Rooted, Known
  <2>7. \A q \in Reqs : /\ IdsOf(held'[q]) \subseteq DOMAIN tasks
                        /\ pc'[q] = "restore" => \A h \in held'[q] : ~Live(h.id)
    BY <1>0, <2>3, AnswerHands, GotoHands, HandsFrame
  <2> QED BY <2>4, <2>5, <2>6, <2>7, RootedFrame
<1> QED BY <1>1, <1>2, <1>3, <1>4 DEF Deleting

LEMMA UndoRooted ==
  ASSUME Rooted, Typed', NEW r \in Reqs, Undoing(r)
  PROVE  Rooted'
<1>0. Typed /\ \A a \in atts : a.task \in DOMAIN tasks
  BY DEF Rooted, Known
<1>1. CASE ExpireUndo(r)
  BY <1>0, <1>1, AnswerHands, GotoHands, QuietRooted DEF ExpireUndo
<1>2. CASE FetchSlot(r)
  <2>1. CASE slot = NoSlot
    BY <1>0, <1>2, <2>1, AnswerHands, QuietRooted DEF FetchSlot
  <2>2. CASE slot # NoSlot
    <3>1. UNCHANGED <<tasks, atts, slot>> /\ Goto(r, "begin")
          /\ held' = [held EXCEPT ![r] = slot.held]
      BY <1>2, <2>2 DEF FetchSlot
    <3>2. \A q \in Reqs : IdsOf(held'[q]) \subseteq DOMAIN tasks
      BY <1>0, <3>1 DEF Rooted, Known, Typed, TypeOK, RequestsOK
    <3>3. \A q \in Reqs : pc'[q] = "restore" => pc[q] = "restore" /\ held'[q] = held[q]
      BY <1>0, <3>1 DEF Typed, TypeOK, RequestsOK, Goto
    <3>4. \A q \in Reqs : pc'[q] = "restore" => \A h \in held'[q] : ~Live(h.id)
      BY <3>3 DEF Rooted, Gone
    <3>5. IdsOf(slot'.held) \subseteq DOMAIN tasks
      BY <3>1 DEF Rooted, Known
    <3> QED BY <1>0, <3>1, <3>2, <3>4, <3>5, RootedFrame
  <2> QED BY <2>1, <2>2
<1>3. CASE BeginUndo(r)
  <2>1. UNCHANGED <<tasks, atts, slot>> /\ Goto(r, "restore")
        /\ held' = [held EXCEPT ![r] =
             {[id |-> h.id, files |-> h.files \intersect disk] : h \in ToRestore(r)}]
    BY <1>3 DEF BeginUndo
  <2>2. /\ \A h \in held'[r] : h.id \in DOMAIN tasks /\ ~Live(h.id)
        /\ \A q \in Reqs : q # r => held'[q] = held[q] /\ pc'[q] = pc[q]
    BY <1>0, <2>1 DEF Rooted, Known, Typed, TypeOK, RequestsOK, IdsOf, ToRestore, Goto
  <2>3. \A q \in Reqs : /\ IdsOf(held'[q]) \subseteq DOMAIN tasks
                        /\ pc'[q] = "restore" => \A h \in held'[q] : ~Live(h.id)
    BY <2>2 DEF Rooted, Known, Gone, IdsOf
  <2>4. IdsOf(slot'.held) \subseteq DOMAIN tasks
    BY <2>1 DEF Rooted, Known
  <2> QED BY <1>0, <2>1, <2>3, <2>4, RootedFrame
<1>4. CASE Restore(r)
  BY <1>4, RestoreRooted
<1>5. CASE RestoreFails(r)
  BY <1>0, <1>5, AnswerHands, QuietRooted DEF RestoreFails
<1>6. CASE DiscardSlot(r)
  BY <1>0, <1>6, AnswerHands, QuietRooted DEF DiscardSlot
<1> QED BY <1>1, <1>2, <1>3, <1>4, <1>5, <1>6 DEF Undoing

LEMMA OthersRooted ==
  ASSUME Rooted, Typed',
         \/ \E r \in Reqs : Arrives(r) \/ Dropping(r) \/ Attaching(r)
         \/ Tick \/ Crash \/ UNCHANGED vars
  PROVE  Rooted'
<1>0. Typed /\ \A a \in atts : a.task \in DOMAIN tasks
  BY DEF Rooted, Known
<1>1. ASSUME NEW r \in Reqs, Arrives(r) PROVE Rooted'
  <2>1. PICK kind \in AllKinds : UNCHANGED <<tasks, atts, slot, held>> /\ Goto(r, First(kind))
    BY <1>1 DEF Arrives, Arrive, AllKinds
  <2>2. First(kind) # "restore"
    BY DEF First, AllKinds
  <2> QED BY <1>0, <2>1, <2>2, GotoHands, QuietRooted
<1>2. ASSUME NEW r \in Reqs, Dropping(r) PROVE Rooted'
  <2>1. CASE PeekSlot(r)
    BY <1>0, <2>1, GotoHands, QuietRooted DEF PeekSlot
  <2>2. CASE UnlinkOne(r)
    BY <1>0, <2>2, QuietRooted DEF UnlinkOne
  <2>3. CASE ClearSlot(r)
    BY <1>0, <2>3, AnswerHands, GotoHands, QuietRooted DEF ClearSlot
  <2> QED BY <1>2, <2>1, <2>2, <2>3 DEF Dropping
<1>3. ASSUME NEW r \in Reqs, Attaching(r) PROVE Rooted'
  <2>1. CASE ProbeTask(r) \/ LookUpAtt(r)
    BY <1>0, <2>1, AnswerHands, GotoHands, QuietRooted DEF ProbeTask, LookUpAtt
  <2>2. CASE PlaceFile(r) \/ DetachAtt(r)
    BY <1>0, <2>2, GotoHands, QuietRooted DEF PlaceFile, DetachAtt
  <2>3. CASE RegisterFile(r)
    <3>1. \A a \in atts' : a.task \in DOMAIN tasks
      BY <1>0, <2>3 DEF RegisterFile, Live
    <3> QED BY <1>0, <2>3, <3>1, AnswerHands, QuietRooted DEF RegisterFile
  <2>4. CASE RemoveFile(r)
    BY <1>0, <2>4, AnswerHands, QuietRooted DEF RemoveFile
  <2> QED BY <1>3, <2>1, <2>2, <2>3, <2>4 DEF Attaching
<1>4. CASE Tick \/ UNCHANGED vars
  BY <1>0, <1>4, QuietRooted DEF Tick, request, vars
<1>5. CASE Crash
  BY <1>0, <1>5, QuietRooted DEF Crash
<1> QED BY <1>1, <1>2, <1>3, <1>4, <1>5

LEMMA StepRooted ==
  ASSUME Rooted, [Next]_vars
  PROVE  Rooted'
<1>1. Typed'
  BY StepTyped DEF Rooted
<1> QED BY <1>1, DeleteRooted, UndoRooted, OthersRooted DEF Next
-----------------------------------------------------------------------------
(* Files.                                                                  *)

\* Most steps add neither rows nor files: who knows a file afterwards knew it before, or
\* takes it from a task that somebody asked to delete, and only files in such hands go.
LEMMA FiledFrame ==
  ASSUME IInv, Rooted',
         atts' \subseteq atts, uploads' = uploads,
         \A i \in DOMAIN tasks : tasks'[i].from = tasks[i].from,
         asked.tasks \subseteq asked'.tasks, asked.files \subseteq asked'.files,
         \A f \in asked'.files : f \in asked.files \/ \E a \in atts : f = a.file,
         \A f \in Loose' : f \in Loose \/ \E a \in atts : a.task \in asked.tasks /\ f = a.file,
         \A q \in Reqs : \A f \in names'[q] : f \in names[q] \/ f \in Loose,
         \A q \in Reqs : pc'[q] = "register" => pc[q] = "register" /\ names'[q] = names[q],
         \A f \in disk \ disk' : \/ f \in asked.files
                                \/ \E q \in Reqs : f \in names[q] /\ pc'[q] # "register"
  PROVE  Filed'
<1>1. SafeRows' \subseteq SafeRows
  BY DEF IInv, Rooted, Known, SafeRows
<1>2. Uploaded'
  BY DEF IInv, Filed, Uploaded
<1>3. SafeOnDisk'
  BY <1>1 DEF IInv, Filed, SafeOnDisk, SafeUnused, SafeRows
<1>4. SafeOwned'
  BY <1>1 DEF IInv, Filed, SafeOwned
<1>5. SafeUnused'
  <2>1. \A a \in SafeRows : a.file \notin Loose'
    BY DEF IInv, Filed, SafeUnused, SafeOwned, SafeRows
  <2>2. \A a \in SafeRows : \A q \in Reqs : a.file \notin names'[q]
    BY DEF IInv, Filed, SafeUnused
  <2> QED BY <1>1, <2>1, <2>2 DEF SafeUnused
<1>6. AllFresh'
  <2>1. ASSUME NEW r \in Reqs, pc'[r] = "register"
        PROVE  Fresh(r)'
    <3>1. Fresh(r) /\ names'[r] = names[r]
      BY <2>1 DEF IInv, Filed, AllFresh
    <3>2. ASSUME NEW f \in names[r]
          PROVE  /\ f \in disk' /\ f \notin asked'.files /\ f \notin Loose'
                 /\ \A a \in atts' : a.file # f
                 /\ \A q \in Reqs \ {r} : f \notin names'[q]
      BY <2>1, <3>1, <3>2 DEF Fresh
    <3> QED BY <3>1, <3>2 DEF Fresh
  <2> QED BY <2>1 DEF AllFresh
<1> QED BY <1>2, <1>3, <1>4, <1>5, <1>6 DEF Filed

\* The files of deleted tasks only go from hand to hand.
LEMMA LooseStays ==
  ASSUME FilesOf(slot'.held) \subseteq Loose, \A q \in Reqs : FilesOf(held'[q]) \subseteq Loose
  PROVE  \A f \in Loose' : f \in Loose
BY DEF Loose

LEMMA InLoose ==
  /\ FilesOf(slot.held) \subseteq Loose
  /\ \A q \in Reqs : FilesOf(held[q]) \subseteq Loose
  /\ FilesOf({}) = {} /\ FilesOf(NoSlot.held) = {}
BY DEF Loose, FilesOf, NoSlot
\* A request that goes on, or is answered, takes up nothing new.
Calm(q) ==
  /\ held'[q] \in {held[q], {}} /\ names'[q] \in {names[q], {}}
  /\ pc'[q] = "register" => pc[q] = "register" /\ names'[q] = names[q]

LEMMA GotoCalm ==
  ASSUME Typed, NEW r \in Reqs, NEW s, Goto(r, s), s # "register",
         UNCHANGED <<held, names>>, NEW q \in Reqs
  PROVE  Calm(q)
BY DEF Typed, TypeOK, RequestsOK, Goto, Calm

LEMMA AnswerCalm ==
  ASSUME Typed, NEW r \in Reqs, Answer(r), NEW q \in Reqs
  PROVE  Calm(q) /\ pc'[r] = "idle"
BY DEF Typed, TypeOK, RequestsOK, Answer, Calm

LEMMA CalmFiled ==
  ASSUME IInv, Rooted', UNCHANGED <<tasks, uploads, asked>>, atts' \subseteq atts,
         slot'.held \in {slot.held, {}}, \A q \in Reqs : Calm(q),
         \A f \in disk \ disk' : \/ f \in asked.files
                                \/ \E q \in Reqs : f \in names[q] /\ pc'[q] # "register"
  PROVE  Filed'
<1>1. \A f \in Loose' : f \in Loose
  BY InLoose, LooseStays DEF Calm
<1>2. \A q \in Reqs : \A f \in names'[q] : f \in names[q]
  BY DEF Calm
<1>3. \A q \in Reqs : pc'[q] = "register" => pc[q] = "register" /\ names'[q] = names[q]
  BY DEF Calm
<1> QED BY <1>1, <1>2, <1>3, FiledFrame

LEMMA ArriveFiled ==
  ASSUME IInv, Rooted', NEW r \in Reqs, Arrives(r)
  PROVE  Filed'
<1>1. PICK kind \in AllKinds, S \in SUBSET Nat, f \in Nat :
        Arrive(r, kind, S, f) /\ (kind = "unattach" => \E a \in atts : f = a.file)
  BY ArriveFacts DEF IInv, Rooted
<1>2. /\ UNCHANGED <<tasks, atts, disk, slot, uploads, held, names>>
      /\ Goto(r, First(kind)) /\ First(kind) # "register"
  BY <1>1 DEF Arrive, First, AllKinds
<1>3. /\ asked.tasks \subseteq asked'.tasks /\ asked.files \subseteq asked'.files
      /\ \A g \in asked'.files : g \in asked.files \/ \E a \in atts : g = a.file
  BY <1>1 DEF IInv, Rooted, Typed, TypeOK, TablesOK, Arrive
<1>4. \A g \in Loose' : g \in Loose
  BY <1>2 DEF Loose
<1>5. \A q \in Reqs : pc'[q] = "register" => pc[q] = "register" /\ names'[q] = names[q]
  BY <1>2, GotoCalm DEF Calm, IInv, Rooted
<1> QED BY <1>2, <1>3, <1>4, <1>5, FiledFrame

LEMMA DropFiled ==
  ASSUME IInv, Rooted', NEW r \in Reqs, Dropping(r)
  PROVE  Filed'
<1>0. Typed
  BY DEF IInv, Rooted
<1>1. CASE PeekSlot(r)
  <2>1. /\ UNCHANGED <<tasks, atts, disk, slot, held, uploads, asked>> /\ Goto(r, "unlink")
        /\ names' = [names EXCEPT ![r] = FilesOf(slot.held)]
    BY <1>1 DEF PeekSlot
  <2>2. \A f \in Loose' : f \in Loose
    BY <2>1 DEF Loose
  <2>3. \A q \in Reqs : \A f \in names'[q] : f \in names[q] \/ f \in Loose
    BY <1>0, <2>1, InLoose DEF Typed, TypeOK, RequestsOK
  <2>4. \A q \in Reqs : pc'[q] = "register" => pc[q] = "register" /\ names'[q] = names[q]
    BY <1>0, <2>1 DEF Typed, TypeOK, RequestsOK, Goto
  <2> QED BY <2>1, <2>2, <2>3, <2>4, FiledFrame
<1>2. CASE UnlinkOne(r)
  <2>1. PICK g \in names[r] : disk' = disk \ {g} /\ names' = [names EXCEPT ![r] = @ \ {g}]
    BY <1>2 DEF UnlinkOne
  <2>2. UNCHANGED <<tasks, atts, slot, held, pc, uploads, asked>> /\ pc[r] = "unlink"
    BY <1>2 DEF UnlinkOne
  <2>3. \A f \in Loose' : f \in Loose
    BY <2>2 DEF Loose
  <2>4. /\ \A q \in Reqs : \A f \in names'[q] : f \in names[q]
        /\ \A q \in Reqs : pc'[q] = "register" => pc[q] = "register" /\ names'[q] = names[q]
    BY <1>0, <2>1, <2>2 DEF Typed, TypeOK, RequestsOK
  <2>5. \A f \in disk \ disk' : \E q \in Reqs : f \in names[q] /\ pc'[q] # "register"
    BY <2>1, <2>2
  <2> QED BY <2>2, <2>3, <2>4, <2>5, FiledFrame
<1>3. CASE ClearSlot(r)
  <2>1. UNCHANGED <<tasks, atts, disk, uploads, asked>> /\ slot' = NoSlot
    BY <1>3 DEF ClearSlot
  <2>2. \A q \in Reqs : Calm(q)
    BY <1>0, <1>3, GotoCalm, AnswerCalm DEF ClearSlot
  <2> QED BY <2>1, <2>2, CalmFiled DEF NoSlot
<1> QED BY <1>1, <1>2, <1>3 DEF Dropping

LEMMA DeleteFiled ==
  ASSUME IInv, Rooted', NEW r \in Reqs, Deleting(r)
  PROVE  Filed'
<1>0. Typed
  BY DEF IInv, Rooted
<1>1. CASE FindDoomed(r)
  <2>1. UNCHANGED <<tasks, atts, disk, slot, uploads, asked>> /\ pc[r] = "find"
    BY <1>1 DEF FindDoomed
  <2>2. CASE Doomed(r) = {}
    BY <1>0, <1>1, <2>1, <2>2, AnswerCalm, CalmFiled DEF FindDoomed
  <2>3. CASE Doomed(r) # {}
    <3>1. /\ held' = [held EXCEPT ![r] = {HeldOf(i) : i \in Doomed(r)}]
          /\ Goto(r, "peek") /\ names' = names
      BY <1>1, <2>3 DEF FindDoomed
    <3>2. Doomed(r) \subseteq asked.tasks
      BY <1>0, <2>1 DEF Typed, Controlled, Control, Doomed
    <3>3. \A f \in FilesOf({HeldOf(i) : i \in Doomed(r)}) :
            \E a \in atts : a.task \in asked.tasks /\ f = a.file
      BY <3>2 DEF FilesOf, HeldOf
    <3>4. /\ held'[r] = {HeldOf(i) : i \in Doomed(r)}
          /\ \A q \in Reqs \ {r} : held'[q] = held[q]
      BY <1>0, <3>1 DEF Typed, TypeOK, RequestsOK
    <3>5. \A f \in Loose' : f \in Loose \/ \E a \in atts : a.task \in asked.tasks /\ f = a.file
      BY <2>1, <3>3, <3>4 DEF Loose
    <3>6. \A q \in Reqs : pc'[q] = "register" => pc[q] = "register" /\ names'[q] = names[q]
      BY <1>0, <3>1 DEF Typed, TypeOK, RequestsOK, Goto
    <3> QED BY <2>1, <3>1, <3>5, <3>6, FiledFrame
  <2> QED BY <2>2, <2>3
<1>2. CASE Stage(r)
  <2>1. /\ UNCHANGED <<tasks, atts, disk, held, names, uploads, asked>> /\ Goto(r, "erase")
        /\ slot'.held = held[r]
    BY <1>2 DEF Stage
  <2>2. \A f \in Loose' : f \in Loose
    BY <2>1, InLoose, LooseStays
  <2>3. \A q \in Reqs : pc'[q] = "register" => pc[q] = "register" /\ names'[q] = names[q]
    BY <1>0, <2>1 DEF Typed, TypeOK, RequestsOK, Goto
  <2> QED BY <2>1, <2>2, <2>3, FiledFrame
<1>3. CASE EraseAtts(r)
  <2>1. /\ UNCHANGED <<tasks, disk, slot, held, names, uploads, asked>> /\ Goto(r, "row")
        /\ atts' \subseteq atts
    BY <1>3 DEF EraseAtts
  <2> QED BY <1>0, <2>1, GotoCalm, CalmFiled
<1>4. CASE EraseRow(r)
  <2> DEFINE i == CHOOSE j \in doomed[r] : TRUE
  <2>1. i \in DOMAIN tasks
    BY <1>0, <1>4 DEF Typed, TypeOK, RequestsOK, EraseRow
  <2>2. /\ tasks' = [tasks EXCEPT ![i].live = FALSE] /\ atts' \subseteq atts
        /\ UNCHANGED <<disk, slot, uploads, asked>>
        /\ Answer(r) \/ (Goto(r, "erase") /\ UNCHANGED <<held, names>>)
    BY <1>4 DEF EraseRow
  <2> HIDE DEF i
  <2>3. \A j \in DOMAIN tasks : tasks'[j].from = tasks[j].from
    BY <1>0, <2>1, <2>2, EraseKeepsSeq DEF Typed, TypeOK, TablesOK
  <2>4. \A q \in Reqs : Calm(q)
    BY <1>0, <2>2, AnswerCalm, GotoCalm
  <2>5. \A f \in Loose' : f \in Loose
    BY <2>2, <2>4, InLoose, LooseStays DEF Calm
  <2>6. /\ \A q \in Reqs : \A f \in names'[q] : f \in names[q]
        /\ \A q \in Reqs : pc'[q] = "register" => pc[q] = "register" /\ names'[q] = names[q]
    BY <2>4 DEF Calm
  <2> QED BY <2>2, <2>3, <2>5, <2>6, FiledFrame
<1> QED BY <1>1, <1>2, <1>3, <1>4 DEF Deleting
\* The copies Undo makes are nobody's originals, and their files were in memory.
LEMMA RestoreFiled ==
  ASSUME IInv, Rooted', NEW r \in Reqs, Restore(r)
  PROVE  Filed'
<1>0. Typed /\ Known /\ Filed
  BY DEF IInv, Rooted
<1>1. PICK o \in Orders(held[r]) :
        /\ o \in Seq(held[r]) /\ o \in Seq(Held) /\ DOMAIN o = 1 .. Len(o)
        /\ tasks' = tasks \o Copies(o)
        /\ atts' = atts \union
             UNION {{[task |-> Len(tasks) + k, file |-> f] : f \in o[k].files} : k \in 1 .. Len(o)}
  BY <1>0, RestoreFacts
<1>2. /\ \A i \in DOMAIN tasks : tasks'[i] = tasks[i]
      /\ \A k \in 1 .. Len(o) : tasks'[Len(tasks) + k] = [live |-> TRUE, from |-> o[k].id]
  <2>1. DOMAIN tasks = 1 .. Len(tasks)
    BY <1>0 DEF Typed, TypeOK, TablesOK
  <2> QED BY <1>0, <1>1, <2>1, AppendCopies DEF Typed, TypeOK, TablesOK
<1>3. \A k \in 1 .. Len(o) : o[k] \in held[r]
  BY <1>1
<1>4. \A k \in 1 .. Len(o) : o[k].id # 0 /\ o[k].files \subseteq Loose
  <2>1. 0 \notin DOMAIN tasks
    BY <1>0 DEF Typed, TypeOK, TablesOK
  <2> QED BY <1>0, <1>3, <2>1 DEF Known, IdsOf, Loose, FilesOf
<1>5. \A a \in atts' : \/ a \in atts
                       \/ tasks'[a.task].from # 0 /\ a.file \in Loose
  <2>1. \A a \in atts' : a \in atts \/ \E k \in 1 .. Len(o) : \E f \in o[k].files :
                           a = [task |-> Len(tasks) + k, file |-> f]
    BY <1>1
  <2>2. ASSUME NEW a \in atts', NEW k \in 1 .. Len(o), NEW f \in o[k].files,
               a = [task |-> Len(tasks) + k, file |-> f]
        PROVE  tasks'[a.task].from # 0 /\ a.file \in Loose
    <3>1. a.task = Len(tasks) + k /\ a.file = f
      BY <2>2
    <3>2. tasks'[a.task] = [live |-> TRUE, from |-> o[k].id]
      BY <1>2, <3>1
    <3>3. tasks'[a.task].from = o[k].id
      BY <3>2
    <3> QED BY <1>4, <3>1, <3>3
  <2> QED BY <2>1, <2>2
<1>6. UNCHANGED <<disk, slot, uploads, asked, held, names>> /\ Goto(r, "discard")
  BY DEF Restore
<1>7. Loose' = Loose
  BY <1>6 DEF Loose
<1>8. SafeRows' \subseteq SafeRows
  BY <1>0, <1>2, <1>5, <1>6 DEF Known, SafeRows
<1>9. Uploaded'
  BY <1>0, <1>5, <1>6, <1>7 DEF Filed, Uploaded
<1>10. SafeOnDisk'
  BY <1>0, <1>6, <1>8 DEF Filed, SafeOnDisk
<1>11. SafeOwned'
  BY <1>0, <1>5, <1>8 DEF Filed, SafeOwned, SafeUnused
<1>12. SafeUnused'
  BY <1>0, <1>6, <1>7, <1>8 DEF Filed, SafeUnused
<1>13. AllFresh'
  <2>1. ASSUME NEW q \in Reqs, pc'[q] = "register"
        PROVE  Fresh(q)'
    <3>1. Fresh(q)
      BY <1>0, <1>6, <2>1 DEF Typed, TypeOK, RequestsOK, Filed, AllFresh, Goto
    <3>2. \A f \in names[q] : \A a \in atts' : a.file # f
      BY <1>5, <3>1 DEF Fresh
    <3> QED BY <1>6, <1>7, <3>1, <3>2 DEF Fresh
  <2> QED BY <2>1 DEF AllFresh
<1> QED BY <1>9, <1>10, <1>11, <1>12, <1>13 DEF Filed

LEMMA UndoFiled ==
  ASSUME IInv, Rooted', NEW r \in Reqs, Undoing(r)
  PROVE  Filed'
<1>0. Typed
  BY DEF IInv, Rooted
<1>1. CASE ExpireUndo(r)
  <2>1. UNCHANGED <<tasks, atts, disk, slot, uploads, asked>>
    BY <1>1 DEF ExpireUndo
  <2>2. \A q \in Reqs : Calm(q)
    BY <1>0, <1>1, GotoCalm, AnswerCalm DEF ExpireUndo
  <2> QED BY <2>1, <2>2, CalmFiled
<1>2. CASE FetchSlot(r)
  <2>1. UNCHANGED <<tasks, atts, disk, slot, uploads, asked>>
    BY <1>2 DEF FetchSlot
  <2>2. CASE slot = NoSlot
    BY <1>0, <1>2, <2>1, <2>2, AnswerCalm, CalmFiled DEF FetchSlot
  <2>3. CASE slot # NoSlot
    <3>1. held' = [held EXCEPT ![r] = slot.held] /\ Goto(r, "begin") /\ names' = names
      BY <1>2, <2>3 DEF FetchSlot
    <3>2. held'[r] = slot.held /\ \A q \in Reqs \ {r} : held'[q] = held[q]
      BY <1>0, <3>1 DEF Typed, TypeOK, RequestsOK
    <3>3. \A f \in Loose' : f \in Loose
      BY <2>1, <3>2, InLoose, LooseStays
    <3>4. \A q \in Reqs : pc'[q] = "register" => pc[q] = "register" /\ names'[q] = names[q]
      BY <1>0, <3>1 DEF Typed, TypeOK, RequestsOK, Goto
    <3> QED BY <2>1, <3>1, <3>3, <3>4, FiledFrame
  <2> QED BY <2>2, <2>3
<1>3. CASE BeginUndo(r)
  <2>1. /\ UNCHANGED <<tasks, atts, disk, slot, uploads, asked, names>> /\ Goto(r, "restore")
        /\ held' = [held EXCEPT ![r] =
             {[id |-> h.id, files |-> h.files \intersect disk] : h \in ToRestore(r)}]
    BY <1>3 DEF BeginUndo
  <2>2. FilesOf(held'[r]) \subseteq FilesOf(held[r])
    BY <1>0, <2>1 DEF Typed, TypeOK, RequestsOK, FilesOf, ToRestore
  <2>3. \A q \in Reqs \ {r} : held'[q] = held[q]
    BY <1>0, <2>1 DEF Typed, TypeOK, RequestsOK
  <2>4. \A f \in Loose' : f \in Loose
    BY <2>1, <2>2, <2>3, InLoose, LooseStays
  <2>5. \A q \in Reqs : pc'[q] = "register" => pc[q] = "register" /\ names'[q] = names[q]
    BY <1>0, <2>1 DEF Typed, TypeOK, RequestsOK, Goto
  <2> QED BY <2>1, <2>4, <2>5, FiledFrame
<1>4. CASE Restore(r)
  BY <1>4, RestoreFiled
<1>5. CASE RestoreFails(r)
  BY <1>0, <1>5, AnswerCalm, CalmFiled DEF RestoreFails
<1>6. CASE DiscardSlot(r)
  <2>1. UNCHANGED <<tasks, atts, disk, uploads, asked>> /\ slot' \in {slot, NoSlot} /\ Answer(r)
    BY <1>6 DEF DiscardSlot
  <2> QED BY <1>0, <2>1, AnswerCalm, CalmFiled DEF NoSlot
<1> QED BY <1>1, <1>2, <1>3, <1>4, <1>5, <1>6 DEF Undoing

\* A new file is no file that anybody knows.
LEMMA PlaceFiled ==
  ASSUME IInv, Rooted', NEW r \in Reqs, PlaceFile(r)
  PROVE  Filed'
<1>0. Typed /\ Filed /\ uploads \in Nat
  BY DEF IInv, Rooted, Typed, TypeOK, TablesOK
<1>1. /\ UNCHANGED <<tasks, atts, slot, held, asked>> /\ Goto(r, "register")
      /\ uploads' = uploads + 1 /\ disk' = disk \union {uploads + 1}
      /\ names'[r] = {uploads + 1} /\ \A q \in Reqs \ {r} : names'[q] = names[q]
  BY <1>0 DEF Typed, TypeOK, RequestsOK, PlaceFile
<1>2. Loose' = Loose /\ SafeRows' = SafeRows
  BY <1>1 DEF Loose, SafeRows
<1>3. /\ \A a \in atts : a.file \in Nat
      /\ \A f \in Loose \union asked.files : f \in Nat
      /\ \A q \in Reqs : \A f \in names[q] : f \in Nat
  <2>1. Loose \subseteq Nat
    BY <1>0, FilesAreNumbers DEF Loose, Typed, TypeOK, TablesOK, RequestsOK, Slots
  <2> QED BY <1>0, <2>1 DEF Typed, TypeOK, TablesOK, RequestsOK, Atts
<1>4. /\ \A a \in atts : a.file # uploads + 1
      /\ uploads + 1 \notin Loose /\ uploads + 1 \notin asked.files
      /\ \A q \in Reqs : uploads + 1 \notin names[q]
  BY <1>0, <1>3 DEF Filed, Uploaded
<1>5. Uploaded'
  BY <1>0, <1>1, <1>2, <1>3 DEF Filed, Uploaded
<1>6. SafeOnDisk' /\ SafeOwned'
  BY <1>0, <1>1, <1>2 DEF Filed, SafeOnDisk, SafeOwned
<1>7. SafeUnused'
  BY <1>0, <1>1, <1>2, <1>4 DEF Filed, SafeUnused, SafeRows
<1>8. AllFresh'
  <2>1. Fresh(r)'
    BY <1>0, <1>1, <1>2, <1>4 DEF Fresh
  <2>2. ASSUME NEW q \in Reqs \ {r}, pc'[q] = "register"
        PROVE  Fresh(q)'
    <3>1. Fresh(q)
      BY <1>0, <1>1, <2>2 DEF Typed, TypeOK, RequestsOK, Filed, AllFresh, Goto
    <3> QED BY <1>1, <1>2, <1>4, <3>1 DEF Fresh
  <2> QED BY <2>1, <2>2 DEF AllFresh
<1> QED BY <1>5, <1>6, <1>7, <1>8 DEF Filed
\* A row gets a file that nobody else knows; or, if its task is gone, the file goes.
LEMMA RegisterFiled ==
  ASSUME IInv, Rooted', NEW r \in Reqs, RegisterFile(r)
  PROVE  Filed'
<1>0. Typed /\ Filed
  BY DEF IInv, Rooted
<1>1. PICK i \in Nat, f \in Nat : call[r].ids = {i} /\ names[r] = {f} /\ Fresh(r)
  BY <1>0 DEF RegisterFile, Typed, Controlled, Control, Filed, AllFresh, Fresh
<1>2. UNCHANGED <<tasks, slot, uploads, asked>> /\ Answer(r)
  BY DEF RegisterFile
<1>3. \A q \in Reqs : Calm(q)
  BY <1>0, <1>2, AnswerCalm
<1>4. CASE ~Live(i)
  <2>1. atts' = atts /\ disk' = disk \ {f}
    BY <1>1, <1>4 DEF RegisterFile
  <2>2. pc'[r] # "register"
    BY <1>0, <1>2, AnswerCalm
  <2> QED BY <1>1, <1>2, <1>3, <2>1, <2>2, CalmFiled
<1>5. CASE Live(i)
  <2> DEFINE n == [task |-> i, file |-> f]
  <2>1. atts' = atts \union {n} /\ disk' = disk
    <3>1. atts' = atts \union [task : {i}, file : {f}] /\ disk' = disk
      BY <1>1, <1>5 DEF RegisterFile
    <3>2. [task : {i}, file : {f}] = {n}
      <4>1. n \in [task : {i}, file : {f}]
        OBVIOUS
      <4>2. \A a \in [task : {i}, file : {f}] : a = n
        OBVIOUS
      <4> QED BY <4>1, <4>2
    <3> QED BY <3>1, <3>2
  <2>2. /\ f \in disk /\ f \notin asked.files /\ f \notin Loose
        /\ \A a \in atts : a.file # f
        /\ \A q \in Reqs \ {r} : f \notin names[q]
    BY <1>1 DEF Fresh
  <2>3. n.task = i /\ n.file = f
    OBVIOUS
  <2>4. \A g \in Loose' : g \in Loose
    BY <1>2, <1>3, InLoose, LooseStays DEF Calm
  <2>5. SafeRows' \subseteq SafeRows \union {n}
    BY <1>2, <2>1 DEF SafeRows
  <2> HIDE DEF n
  <2>6. \A q \in Reqs : f \notin names'[q] /\ \A g \in names'[q] : g \in names[q]
    BY <1>0, <1>2, <1>3, <2>2 DEF Calm, Answer, Typed, TypeOK, RequestsOK
  <2>7. Uploaded'
    BY <1>0, <1>1, <1>2, <2>1, <2>3, <2>4, <2>6 DEF Filed, Uploaded
  <2>8. SafeOnDisk'
    BY <1>0, <2>1, <2>2, <2>3, <2>5 DEF Filed, SafeOnDisk
  <2>9. SafeOwned'
    BY <1>0, <2>1, <2>2, <2>3, <2>5 DEF Filed, SafeOwned, SafeRows
  <2>10. SafeUnused'
    BY <1>0, <2>2, <2>3, <2>4, <2>5, <2>6 DEF Filed, SafeUnused
  <2>11. AllFresh'
    <3>1. ASSUME NEW q \in Reqs, pc'[q] = "register"
          PROVE  Fresh(q)'
      <4>1. q # r /\ Fresh(q) /\ names'[q] = names[q]
        BY <1>0, <1>2, <1>3, <3>1, AnswerCalm DEF Calm, Filed, AllFresh
      <4>2. \A g \in names[q] : /\ g \notin Loose'
                               /\ \A a \in atts' : a.file # g
        BY <2>1, <2>2, <2>3, <2>4, <4>1 DEF Fresh
      <4>3. \A g \in names[q] : \A p \in Reqs \ {q} : g \notin names'[p]
        BY <2>6, <4>1 DEF Fresh
      <4>4. \A g \in names[q] : g \in disk' /\ g \notin asked'.files
        BY <1>2, <2>1, <4>1 DEF Fresh
      <4>5. \E g \in Nat : names'[q] = {g}
        BY <4>1 DEF Fresh
      <4> QED BY <4>1, <4>2, <4>3, <4>4, <4>5 DEF Fresh
    <3> QED BY <3>1 DEF AllFresh
  <2> QED BY <2>7, <2>8, <2>9, <2>10, <2>11 DEF Filed
<1> QED BY <1>4, <1>5

LEMMA AttachFiled ==
  ASSUME IInv, Rooted', NEW r \in Reqs, Attaching(r)
  PROVE  Filed'
<1>0. Typed
  BY DEF IInv, Rooted
<1>1. CASE ProbeTask(r) \/ LookUpAtt(r)
  <2>1. UNCHANGED <<tasks, atts, disk, slot, uploads, asked>>
    BY <1>1 DEF ProbeTask, LookUpAtt
  <2>2. \A q \in Reqs : Calm(q)
    BY <1>0, <1>1, GotoCalm, AnswerCalm DEF ProbeTask, LookUpAtt
  <2> QED BY <2>1, <2>2, CalmFiled
<1>2. CASE PlaceFile(r)
  BY <1>2, PlaceFiled
<1>3. CASE RegisterFile(r)
  BY <1>3, RegisterFiled
<1>4. CASE DetachAtt(r)
  <2>1. UNCHANGED <<tasks, disk, slot, uploads, asked>> /\ atts' \subseteq atts
    BY <1>4 DEF DetachAtt
  <2>2. \A q \in Reqs : Calm(q)
    BY <1>0, <1>4, GotoCalm DEF DetachAtt
  <2> QED BY <2>1, <2>2, CalmFiled
<1>5. CASE RemoveFile(r)
  <2>1. UNCHANGED <<tasks, atts, slot, uploads, asked>> /\ disk' = disk \ {call[r].file} /\ Answer(r)
    BY <1>5 DEF RemoveFile
  <2>2. call[r].file \in asked.files
    BY <1>0, <1>5 DEF RemoveFile, Typed, Controlled, Control
  <2> QED BY <1>0, <2>1, <2>2, AnswerCalm, CalmFiled
<1> QED BY <1>1, <1>2, <1>3, <1>4, <1>5 DEF Attaching

LEMMA ServerFiled ==
  ASSUME IInv, Rooted', Tick \/ Crash \/ UNCHANGED vars
  PROVE  Filed'
<1>1. UNCHANGED <<tasks, atts, disk, slot, uploads, asked>>
  BY DEF Tick, Crash, vars
<1>2. \A q \in Reqs : Calm(q)
  BY DEF Tick, Crash, vars, request, Calm
<1> QED BY <1>1, <1>2, CalmFiled

-----------------------------------------------------------------------------
(* The theorems.                                                           *)

LEMMA InitIInv == Init => IInv
<1> SUFFICES ASSUME Init PROVE IInv
  OBVIOUS
<1> USE ConstantsAssumption
<1>1. TablesOK
  <2>1. tasks \in Seq(Rows)
    BY DEF Init, Rows
  <2>2. NoSlot \in Slots
    BY DEF NoSlot, Slots
  <2> QED BY <2>1, <2>2 DEF Init, TablesOK, Atts
<1>2. RequestsOK
  <2>1. NoCall \in Calls /\ NoMark \in Marks
    BY DEF NoCall, NoMark, Calls, Marks, AllKinds
  <2> QED BY <2>1 DEF Init, RequestsOK, Statements
<1>3. Controlled
  BY DEF Init, Controlled, Control
<1>4. DOMAIN tasks = 1 .. NTasks /\ \A i \in 1 .. NTasks : tasks[i].from = 0
  BY DEF Init
<1>5. IdsOf(slot.held) = {} /\ FilesOf(slot.held) = {}
  BY DEF Init, NoSlot, IdsOf, FilesOf
<1>6. \A r \in Reqs : IdsOf(held[r]) = {} /\ FilesOf(held[r]) = {} /\ names[r] = {}
  BY DEF Init, IdsOf, FilesOf
<1>7. Known
  BY <1>4, <1>5, <1>6 DEF Init, Known
<1>8. Gone
  BY DEF Init, Gone
<1>9. NoCopyBesideOriginal
  BY <1>4 DEF NoCopyBesideOriginal, Live
<1>10. Loose = {}
  BY <1>5, <1>6 DEF Loose
<1>11. Filed
  BY <1>4, <1>6, <1>10
  DEF Init, Filed, Uploaded, SafeOnDisk, SafeOwned, SafeUnused, AllFresh, SafeRows
<1> QED BY <1>1, <1>2, <1>3, <1>7, <1>8, <1>9, <1>11 DEF IInv, Rooted, Typed, TypeOK

LEMMA StepIInv == IInv /\ [Next]_vars => IInv'
<1> SUFFICES ASSUME IInv, [Next]_vars PROVE IInv'
  OBVIOUS
<1>1. Rooted'
  BY StepRooted DEF IInv
<1>2. Filed'
  BY <1>1, ArriveFiled, DropFiled, DeleteFiled, UndoFiled, AttachFiled, ServerFiled DEF Next
<1> QED BY <1>1, <1>2 DEF IInv

LEMMA Invariance == Spec => []IInv
BY InitIInv, StepIInv, PTL DEF Spec

\* The tables, the directory and the requests hold what the code puts there.
THEOREM TypeCorrect == Spec => []TypeOK
<1>1. IInv => TypeOK
  BY DEF IInv, Rooted, Typed
<1> QED BY <1>1, Invariance, PTL

\* Undo never puts a copy beside a task that is still there, however requests interleave
\* and wherever the server stops.
THEOREM NoDuplicate == Spec => []NoCopyBesideOriginal
<1>1. IInv => NoCopyBesideOriginal
  BY DEF IInv, Rooted
<1> QED BY <1>1, Invariance, PTL

\* A task that nobody asks to delete keeps the files of its attachments, however requests
\* interleave and wherever the server stops.
THEOREM FilesSpared == Spec => []UntouchedKeepFiles
<1>1. IInv => UntouchedKeepFiles
  BY DEF IInv, Rooted, Known, Filed, SafeOnDisk, SafeRows, UntouchedKeepFiles
<1> QED BY <1>1, Invariance, PTL

-----------------------------------------------------------------------------
(* One request after the other, and no restart.                            *)

OneByOne == \A q, r \in Reqs : pc[q] # "idle" /\ pc[r] # "idle" => q = r

\* The tasks that a deletion has still to erase; the files whose row is to come, or is gone.
Erasing   == {r \in Reqs : pc[r] \in {"erase", "row"}}
Pending   == UNION {doomed[r] : r \in Erasing}
Restored  == \E r \in Reqs : pc[r] = "discard"
Unlinking == \E r \in Reqs : pc[r] = "unlink"

Underway(f) ==
  \E r \in Reqs :
    (pc[r] = "register" /\ f \in names[r]) \/ (pc[r] = "remove" /\ f = call[r].file)
HasRow(f) == \E a \in atts : a.file = f
InSlot(f) == \E h \in slot.held : f \in h.files

\* The rows of attachments, the directory and the slot agree.
FileBooks ==
  /\ \A a \in atts : a.file \in disk
  /\ \A a, b \in atts : a.file = b.file => a.task = b.task
  /\ \A h \in slot.held, a \in atts : a.file \in h.files => Restored \/ (a.task = h.id /\ h.id \in Pending)
  /\ \A f \in disk : HasRow(f) \/ InSlot(f) \/ Underway(f)
  /\ \A h \in slot.held : \A f \in h.files : f \in disk \/ Unlinking
  /\ \A g, h \in slot.held : g # h => g.id # h.id /\ \A f \in g.files : f \notin h.files

\* A deleted task has one copy, once it is out of the slot.
TaskBooks ==
  /\ \A i, j \in DOMAIN tasks : i # j /\ tasks[i].from # 0 => tasks[i].from # tasks[j].from
  /\ \A i \in DOMAIN tasks : ~Live(tasks[i].from)
  /\ \A h \in slot.held : Live(h.id) => h.id \in Pending
  /\ \A h \in slot.held, i \in DOMAIN tasks : tasks[i].from = h.id => Restored

\* What a request has in memory is what it has read.
Hand(r) ==
  /\ pc[r] \in {"peek", "unlink", "stage"} /\ call[r].kind = "delete" =>
       held[r] = {HeldOf(i) : i \in doomed[r]} /\ \A i \in doomed[r] : Live(i)
  /\ pc[r] = "stage" => call[r].kind = "delete" /\ slot.held = {}
  /\ pc[r] = "unlink" => /\ \A f \in names[r] : InSlot(f)
                         /\ \A f \in disk : InSlot(f) => f \in names[r]
  /\ pc[r] \in {"erase", "row"} => \A a \in atts : a.task \in doomed[r] => InSlot(a.file)
  /\ pc[r] \in {"begin", "restore"} => held[r] = slot.held
  /\ pc[r] \in {"begin", "restore", "discard"} => mark[r].at = slot.at
  /\ pc[r] = "discard" => \A h \in slot.held : \A f \in h.files : HasRow(f)
  /\ pc[r] \in {"look", "detach"} => \E i \in DOMAIN tasks : call[r].ids = {i}
  /\ pc[r] = "detach" => [task : call[r].ids, file : {call[r].file}] \subseteq atts
  /\ pc[r] = "remove" => ~HasRow(call[r].file) /\ ~InSlot(call[r].file)

Sound == OneByOne /\ (\A r \in Reqs : Hand(r)) /\ FileBooks /\ TaskBooks

LEMMA WhereItStands ==
  ASSUME OneByOne, NEW r \in Reqs, pc[r] # "idle"
  PROVE  /\ \A q \in Reqs \ {r} : pc[q] = "idle"
         /\ Pending = IF pc[r] \in {"erase", "row"} THEN doomed[r] ELSE {}
         /\ \A f : Underway(f) <=>
             (pc[r] = "register" /\ f \in names[r]) \/ (pc[r] = "remove" /\ f = call[r].file)
         /\ Restored <=> pc[r] = "discard"
         /\ Unlinking <=> pc[r] = "unlink"
<1>1. \A q \in Reqs \ {r} : pc[q] = "idle"
  BY DEF OneByOne
<1>2. Pending = IF pc[r] \in {"erase", "row"} THEN doomed[r] ELSE {}
  BY <1>1 DEF Pending, Erasing
<1>3. \A f : Underway(f) <=>
       (pc[r] = "register" /\ f \in names[r]) \/ (pc[r] = "remove" /\ f = call[r].file)
  BY <1>1 DEF Underway
<1> QED BY <1>1, <1>2, <1>3 DEF Restored, Unlinking

\* A step of the one request: the others are idle and stay so.
LEMMA WhereItGoes ==
  ASSUME OneByOne, NEW r \in Reqs, \A q \in Reqs \ {r} : pc[q] = "idle" /\ pc'[q] = "idle"
  PROVE  /\ OneByOne'
         /\ Hand(r)' => \A q \in Reqs : Hand(q)'
         /\ Pending' = IF pc'[r] \in {"erase", "row"} THEN doomed'[r] ELSE {}
         /\ \A f : Underway(f)' <=>
             (pc'[r] = "register" /\ f \in names'[r]) \/ (pc'[r] = "remove" /\ f = call'[r].file)
         /\ Restored' <=> pc'[r] = "discard"
         /\ Unlinking' <=> pc'[r] = "unlink"
<1>1. OneByOne'
  BY DEF OneByOne
<1>2. Pending' = IF pc'[r] \in {"erase", "row"} THEN doomed'[r] ELSE {}
  BY DEF Pending, Erasing
<1>3. \A f : Underway(f)' <=>
       (pc'[r] = "register" /\ f \in names'[r]) \/ (pc'[r] = "remove" /\ f = call'[r].file)
  BY DEF Underway
<1>4. Hand(r)' => \A q \in Reqs : Hand(q)'
  <2>1. \A q \in Reqs \ {r} : Hand(q)'
    BY DEF Hand
  <2> QED BY <2>1
<1> QED BY <1>1, <1>2, <1>3, <1>4 DEF Restored, Unlinking

\* A step that leaves the tables and the directory alone, or empties the slot.
LEMMA TasksStand ==
  ASSUME TaskBooks, UNCHANGED tasks,
         slot'.held = {} \/ (slot'.held = slot.held /\ Pending = {} /\ ~Restored)
  PROVE  TaskBooks'
BY DEF TaskBooks, Live

LEMMA FilesStand ==
  ASSUME FileBooks, UNCHANGED <<atts, disk>>, slot'.held = slot.held,
         Pending = {}, ~Restored, ~Unlinking, \A f : ~Underway(f)
  PROVE  FileBooks'
BY DEF FileBooks, HasRow, InSlot

LEMMA AnswerSound ==
  ASSUME Typed, NEW r \in Reqs, Answer(r)
  PROVE  pc'[r] = "idle" /\ (\A q \in Reqs \ {r} : pc'[q] = pc[q]) /\ Hand(r)'
<1>1. pc'[r] = "idle" /\ \A q \in Reqs \ {r} : pc'[q] = pc[q]
  BY DEF Typed, TypeOK, RequestsOK, Answer
<1> QED BY <1>1 DEF Hand

\* A request that reads, and is answered or goes on to where it holds what it has read.
LEMMA ReadsSound ==
  ASSUME Sound, NEW r \in Reqs, pc[r] \notin {"idle", "erase", "row", "discard", "unlink", "register", "remove"},
         UNCHANGED <<tasks, atts, disk, slot>>, \A q \in Reqs \ {r} : pc'[q] = pc[q],
         Hand(r)'
  PROVE  Sound'
<1>1. /\ \A q \in Reqs \ {r} : pc[q] = "idle" /\ pc'[q] = "idle"
      /\ Pending = {} /\ ~Restored /\ ~Unlinking /\ \A f : ~Underway(f)
  BY WhereItStands DEF Sound
<1> QED BY <1>1, WhereItGoes, TasksStand, FilesStand DEF Sound

LEMMA ArriveSound ==
  ASSUME Serial, IInv, Sound, NEW r \in Reqs, Arrives(r)
  PROVE  Sound'
<1>1. PICK kind \in AllKinds, S \in SUBSET Nat, f \in Nat :
        Arrive(r, kind, S, f) /\ (kind = "unattach" => \E i \in DOMAIN tasks : S = {i})
  <2>1. CASE \E a \in atts : Arrive(r, "unattach", {a.task}, a.file)
    <3>1. PICK a \in atts : Arrive(r, "unattach", {a.task}, a.file)
      BY <2>1
    <3>2. a.task \in DOMAIN tasks /\ a \in Atts
      BY DEF IInv, Rooted, Known, Typed, TypeOK, TablesOK
    <3>3. {a.task} \in SUBSET Nat /\ a.file \in Nat
      BY <3>2 DEF Atts
    <3> QED BY <3>1, <3>2, <3>3 DEF AllKinds
  <2>2. Present \subseteq Nat /\ 0 \in Nat
    BY DEF Present, IInv, Rooted, Typed, TypeOK, TablesOK
  <2>3. CASE \E S \in SUBSET Present : Arrive(r, "delete", S, 0)
    <3>1. PICK S \in SUBSET Nat : Arrive(r, "delete", S, 0)
      BY <2>2, <2>3
    <3> QED BY <2>2, <3>1 DEF AllKinds
  <2>4. CASE \E kind \in Kinds \intersect {"undo", "state", "drop"} : Arrive(r, kind, {}, 0)
    <3>1. PICK kind \in {"undo", "state", "drop"} : Arrive(r, kind, {}, 0)
      BY <2>4
    <3>2. {} \in SUBSET Nat
      OBVIOUS
    <3> QED BY <2>2, <3>1, <3>2 DEF AllKinds
  <2>5. CASE \E i \in Present : Arrive(r, "upload", {i}, 0)
    <3>1. PICK i \in Nat : Arrive(r, "upload", {i}, 0)
      BY <2>2, <2>5
    <3>2. {i} \in SUBSET Nat
      OBVIOUS
    <3> QED BY <2>2, <3>1, <3>2 DEF AllKinds
  <2> QED BY <2>1, <2>3, <2>4, <2>5 DEF Arrives
<1>2. /\ \A q \in Reqs : pc[q] = "idle"
      /\ \A q \in Reqs \ {r} : pc'[q] = "idle"
      /\ pc'[r] = First(kind) /\ call'[r].kind = kind /\ call'[r].ids = S
      /\ UNCHANGED <<tasks, atts, disk, slot>>
  BY <1>1 DEF Arrive, Goto, Quiet, IInv, Rooted, Typed, TypeOK, RequestsOK
<1>3. /\ First(kind) \in {"find", "expire", "peek", "probe", "look"}
      /\ First(kind) = "peek" => kind = "drop"
      /\ First(kind) = "look" => kind = "unattach"
  BY DEF First, AllKinds
<1>4. Hand(r)'
  BY <1>1, <1>2, <1>3 DEF Hand
<1>5. Pending = {} /\ ~Restored /\ ~Unlinking /\ \A g : ~Underway(g)
  BY <1>2 DEF Pending, Erasing, Restored, Unlinking, Underway
<1> QED BY <1>2, <1>4, <1>5, WhereItGoes, TasksStand, FilesStand DEF Sound

\* The steps that only read.
LEMMA GoesOnSound ==
  ASSUME IInv, Sound, NEW r \in Reqs,
         pc[r] \notin {"idle", "erase", "row", "discard", "unlink", "register", "remove"},
         UNCHANGED <<tasks, atts, disk, slot>>,
         \/ Answer(r)
         \/ \E next \in {"peek", "fetch", "place"} :
              Goto(r, next) /\ UNCHANGED <<call, held, doomed>> /\ (next = "peek" => call[r].kind # "delete")
  PROVE  Sound'
<1>0. Typed
  BY DEF IInv, Rooted
<1>1. (\A q \in Reqs \ {r} : pc'[q] = pc[q]) /\ Hand(r)'
  <2>1. CASE Answer(r)
    BY <1>0, <2>1, AnswerSound
  <2>2. ASSUME NEW next \in {"peek", "fetch", "place"},
               Goto(r, next), UNCHANGED call, next = "peek" => call[r].kind # "delete"
        PROVE  (\A q \in Reqs \ {r} : pc'[q] = pc[q]) /\ Hand(r)'
    BY <1>0, <2>2 DEF Typed, TypeOK, RequestsOK, Goto, Hand
  <2> QED BY <2>1, <2>2
<1> QED BY <1>1, ReadsSound

LEMMA DropSound ==
  ASSUME IInv, Sound, NEW r \in Reqs, Dropping(r)
  PROVE  Sound'
<1>0. Typed /\ OneByOne /\ Hand(r) /\ FileBooks /\ TaskBooks /\ pc[r] \in {"peek", "unlink"}
  BY DEF IInv, Rooted, Sound, Dropping, PeekSlot, UnlinkOne, ClearSlot
<1>1. /\ \A q \in Reqs \ {r} : pc[q] = "idle"
      /\ Pending = {} /\ ~Restored /\ (Unlinking <=> pc[r] = "unlink") /\ \A f : ~Underway(f)
  BY <1>0, WhereItStands
<1>2. CASE PeekSlot(r)
  <2>1. /\ UNCHANGED <<tasks, atts, disk, slot, call, held, doomed>> /\ pc[r] = "peek" /\ pc'[r] = "unlink"
        /\ names'[r] = FilesOf(slot.held) /\ \A q \in Reqs \ {r} : pc'[q] = pc[q]
    BY <1>0, <1>2 DEF PeekSlot, Goto, Typed, TypeOK, RequestsOK
  <2>2. \A f : f \in FilesOf(slot.held) <=> InSlot(f)
    BY DEF FilesOf, InSlot
  <2>3. Hand(r)'
    BY <1>0, <2>1, <2>2 DEF Hand, HeldOf, InSlot, Live
  <2> QED BY <2>1, <2>3, ReadsSound
<1>3. CASE UnlinkOne(r)
  <2>1. PICK f \in names[r] : disk' = disk \ {f} /\ names' = [names EXCEPT ![r] = @ \ {f}]
    BY <1>3 DEF UnlinkOne
  <2>2. UNCHANGED <<tasks, atts, slot, call, held, doomed, pc>> /\ pc[r] = "unlink" /\ names'[r] = names[r] \ {f}
    BY <1>0, <1>3, <2>1 DEF UnlinkOne, Typed, TypeOK, RequestsOK
  <2>3. \A a \in atts : a.file # f
    BY <1>0, <1>1, <2>2 DEF Hand, InSlot, FileBooks
  <2>4. Hand(r)'
    BY <1>0, <2>1, <2>2 DEF Hand, HeldOf, InSlot, Live
  <2>5. Pending' = {} /\ ~Restored' /\ Unlinking' /\ OneByOne' /\ \A q \in Reqs : Hand(q)'
    BY <1>0, <1>1, <2>2, <2>4, WhereItGoes
  <2>6. FileBooks'
    BY <1>0, <1>1, <2>1, <2>2, <2>3, <2>5 DEF FileBooks, HasRow, InSlot
  <2>7. TaskBooks'
    BY <1>0, <1>1, <2>2, TasksStand
  <2> QED BY <2>5, <2>6, <2>7 DEF Sound
<1>4. CASE ClearSlot(r)
  <2>1. UNCHANGED <<tasks, atts, disk>> /\ pc[r] = "unlink" /\ names[r] = {} /\ slot'.held = {}
    BY <1>4 DEF ClearSlot, NoSlot
  <2>2. (\A q \in Reqs \ {r} : pc'[q] = pc[q]) /\ Hand(r)' /\ pc'[r] \in {"idle", "stage", "fetch"}
    <3>1. CASE Answer(r)
      BY <1>0, <3>1, AnswerSound
    <3>2. ASSUME NEW next \in {"stage", "fetch"}, Goto(r, next), UNCHANGED <<call, held, doomed>>,
                 next = "stage" => call[r].kind = "delete"
          PROVE  (\A q \in Reqs \ {r} : pc'[q] = pc[q]) /\ Hand(r)' /\ pc'[r] \in {"stage", "fetch"}
      <4>1. (\A q \in Reqs \ {r} : pc'[q] = pc[q]) /\ pc'[r] = next
        BY <1>0, <3>2 DEF Goto, Typed, TypeOK, RequestsOK
      <4> QED BY <1>0, <2>1, <3>2, <4>1 DEF Hand, HeldOf, Live
    <3> QED BY <1>4, <3>1, <3>2 DEF ClearSlot
  <2>3. Pending' = {} /\ ~Restored' /\ ~Unlinking' /\ OneByOne' /\ \A q \in Reqs : Hand(q)'
    BY <1>0, <1>1, <2>2, WhereItGoes
  <2>4. FileBooks'
    BY <1>0, <1>1, <2>1, <2>3 DEF FileBooks, HasRow, InSlot, Hand
  <2>5. TaskBooks'
    BY <1>0, <1>1, <2>1, TasksStand
  <2> QED BY <2>3, <2>4, <2>5 DEF Sound
<1> QED BY <1>2, <1>3, <1>4 DEF Dropping

\* What a deletion holds of a task is its attachments.
LEMMA HeldIs ==
  ASSUME NEW S, NEW h \in {HeldOf(i) : i \in S}
  PROVE  h.id \in S /\ \A f : f \in h.files <=> \E a \in atts : a.task = h.id /\ a.file = f
BY DEF HeldOf

LEMMA StageSound ==
  ASSUME IInv, Sound, NEW r \in Reqs, Stage(r)
  PROVE  Sound'
<1>0. /\ Typed /\ OneByOne /\ Hand(r) /\ FileBooks /\ TaskBooks /\ pc[r] = "stage" /\ Known
      /\ \A q \in Reqs \ {r} : pc[q] = "idle"
      /\ Pending = {} /\ ~Restored /\ ~Unlinking /\ \A f : ~Underway(f)
  <2>1. Typed /\ OneByOne /\ Hand(r) /\ FileBooks /\ TaskBooks /\ pc[r] = "stage" /\ Known
    BY DEF IInv, Rooted, Sound, Stage
  <2> QED BY <2>1, WhereItStands
<1>1. /\ UNCHANGED <<tasks, atts, disk, doomed>> /\ slot'.held = held[r] /\ pc'[r] = "erase"
      /\ \A q \in Reqs \ {r} : pc'[q] = pc[q]
  BY <1>0 DEF Stage, Goto, Typed, TypeOK, RequestsOK
<1>2. /\ slot.held = {} /\ held[r] = {HeldOf(i) : i \in doomed[r]} /\ \A i \in doomed[r] : Live(i)
  BY <1>0 DEF Hand
<1>3. \A h \in slot'.held : /\ h.id \in doomed[r] /\ Live(h.id)
                            /\ \A f : f \in h.files <=> \E a \in atts : a.task = h.id /\ a.file = f
  <2>1. slot'.held = {HeldOf(i) : i \in doomed[r]}
    BY <1>1, <1>2
  <2> SUFFICES ASSUME NEW h \in {HeldOf(i) : i \in doomed[r]}
               PROVE  /\ h.id \in doomed[r] /\ Live(h.id)
                      /\ \A f : f \in h.files <=> \E a \in atts : a.task = h.id /\ a.file = f
    BY <2>1, Zenon
  <2>2. h.id \in doomed[r] /\ \A f : f \in h.files <=> \E a \in atts : a.task = h.id /\ a.file = f
    BY HeldIs, Zenon
  <2> QED BY <1>2, <2>2
<1>4. \A a \in atts : a.task \in doomed[r] => \E h \in slot'.held : a.file \in h.files
  <2> SUFFICES ASSUME NEW a \in atts, a.task \in doomed[r] PROVE \E h \in slot'.held : a.file \in h.files
    OBVIOUS
  <2>1. HeldOf(a.task) \in slot'.held
    BY <1>1, <1>2
  <2>2. a.file \in HeldOf(a.task).files
    BY DEF HeldOf
  <2> QED BY <2>1, <2>2
<1>5. Hand(r)'
  BY <1>1, <1>4 DEF Hand, InSlot
<1>6. OneByOne' /\ (\A q \in Reqs : Hand(q)') /\ Pending' = doomed[r] /\ ~Restored' /\ ~Unlinking'
  BY <1>0, <1>1, <1>5, WhereItGoes
<1>7. FileBooks'
  <2>1. \A a \in atts' : a.file \in disk'
    BY <1>0, <1>1 DEF FileBooks
  <2>2. \A a, b \in atts' : a.file = b.file => a.task = b.task
    BY <1>0, <1>1 DEF FileBooks
  <2>3. \A h \in slot'.held, a \in atts' : a.file \in h.files => a.task = h.id /\ h.id \in Pending'
    BY <1>1, <1>3, <1>6, <2>2
  <2>4. \A f \in disk' : HasRow(f)'
    BY <1>0, <1>1, <1>2 DEF FileBooks, HasRow, InSlot
  <2>5. \A h \in slot'.held : \A f \in h.files : f \in disk'
    BY <1>1, <1>3, <2>1
  <2>6. \A g, h \in slot'.held : g # h => g.id # h.id
    <3>1. ASSUME NEW i \in doomed[r], NEW j \in doomed[r], HeldOf(i) # HeldOf(j)
          PROVE  HeldOf(i).id # HeldOf(j).id
      BY <3>1 DEF HeldOf
    <3> HIDE DEF HeldOf
    <3> QED BY <1>1, <1>2, <3>1
  <2>7. \A g, h \in slot'.held : g # h => \A f \in g.files : f \notin h.files
    BY <1>1, <1>3, <2>2, <2>6
  <2> QED BY <2>1, <2>2, <2>3, <2>4, <2>5, <2>6, <2>7 DEF FileBooks
<1>8. TaskBooks'
  BY <1>0, <1>1, <1>3, <1>6 DEF TaskBooks, Live
<1> QED BY <1>6, <1>7, <1>8 DEF Sound

\* Erasing the attachments of a task, and then the task.
LEMMA EraseSound ==
  ASSUME IInv, Sound, NEW r \in Reqs, NEW i \in doomed[r], pc[r] \in {"erase", "row"},
         atts' = {a \in atts : a.task # i}, UNCHANGED <<disk, slot>>,
         \A q \in Reqs \ {r} : pc'[q] = pc[q],
         \/ pc'[r] = "row" /\ doomed'[r] = doomed[r] /\ UNCHANGED tasks
         \/ /\ tasks' = [tasks EXCEPT ![i].live = FALSE]
            /\ \/ pc'[r] = "idle" /\ doomed[r] = {i}
               \/ pc'[r] = "erase" /\ doomed'[r] = doomed[r] \ {i}
  PROVE  Sound'
<1>0. /\ Typed /\ OneByOne /\ Hand(r) /\ FileBooks /\ TaskBooks /\ i \in DOMAIN tasks
      /\ \A q \in Reqs \ {r} : pc[q] = "idle"
      /\ Pending = doomed[r] /\ ~Restored /\ ~Unlinking /\ \A f : ~Underway(f)
  <2>1. Typed /\ OneByOne /\ Hand(r) /\ FileBooks /\ TaskBooks /\ i \in DOMAIN tasks
    BY DEF IInv, Rooted, Sound, Typed, TypeOK, RequestsOK
  <2> QED BY <2>1, WhereItStands
<1>1. /\ DOMAIN tasks' = DOMAIN tasks
      /\ \A j \in DOMAIN tasks : /\ tasks'[j].from = tasks[j].from
                                 /\ tasks'[j].live => tasks[j].live
      /\ pc'[r] # "row" => ~tasks'[i].live
  <2>1. CASE UNCHANGED tasks /\ pc'[r] = "row"
    BY <2>1
  <2>2. CASE tasks' = [tasks EXCEPT ![i].live = FALSE]
    <3>1. ~tasks'[i].live
      <4>1. tasks[i] \in Rows
        BY <1>0 DEF Typed, TypeOK, TablesOK
      <4>2. tasks'[i] = [tasks[i] EXCEPT !.live = FALSE]
        BY <1>0, <2>2
      <4> QED BY <4>1, <4>2 DEF Rows
    <3> QED BY <1>0, <2>2, <3>1, EraseKeepsSeq DEF Typed, TypeOK, TablesOK
  <2> QED BY <2>1, <2>2
<1>2. Hand(r)'
  BY <1>0 DEF Hand, InSlot
<1>3. /\ OneByOne' /\ (\A q \in Reqs : Hand(q)') /\ ~Restored' /\ ~Unlinking'
      /\ Pending' \in {doomed[r], doomed[r] \ {i}} /\ (pc'[r] = "row" => Pending' = doomed[r])
  BY <1>0, <1>2, WhereItGoes
<1>4. FileBooks'
  <2>1. \A f \in disk' : HasRow(f)' \/ InSlot(f)'
    BY <1>0 DEF FileBooks, HasRow, InSlot, Hand
  <2>2. \A h \in slot.held, a \in atts' : a.file \in h.files => a.task = h.id /\ h.id \in Pending'
    BY <1>0, <1>3 DEF FileBooks
  <2> QED BY <1>0, <2>1, <2>2 DEF FileBooks
<1>5. TaskBooks'
  <2>1. \A j : Live(j)' => Live(j)
    BY <1>1 DEF Live
  <2>2. \A j \in DOMAIN tasks' : ~Live(tasks[j].from)'
    BY <1>0, <1>1 DEF TaskBooks, Live
  <2>3. \A h \in slot'.held : Live(h.id)' => h.id \in Pending'
    <3> SUFFICES ASSUME NEW h \in slot.held, Live(h.id)' PROVE h.id \in Pending'
      OBVIOUS
    <3>1. h.id \in doomed[r] /\ h.id \in DOMAIN tasks'
      BY <1>0, <2>1 DEF TaskBooks, Live
    <3> QED BY <1>1, <1>3, <3>1 DEF Live
  <2>4. /\ \A j, k \in DOMAIN tasks' : j # k /\ tasks'[j].from # 0 => tasks'[j].from # tasks'[k].from
        /\ \A h \in slot'.held, j \in DOMAIN tasks' : tasks'[j].from = h.id => Restored'
    BY <1>0, <1>1 DEF TaskBooks
  <2> QED BY <2>2, <2>3, <2>4 DEF TaskBooks
<1> QED BY <1>3, <1>4, <1>5 DEF Sound

LEMMA DeleteSound ==
  ASSUME IInv, Sound, NEW r \in Reqs, Deleting(r)
  PROVE  Sound'
<1>0. Typed
  BY DEF IInv, Rooted
<1>1. CASE FindDoomed(r)
  <2>1. UNCHANGED <<tasks, atts, disk, slot>> /\ pc[r] = "find"
    BY <1>1 DEF FindDoomed
  <2>2. CASE Answer(r)
    BY <2>1, <2>2, GoesOnSound
  <2>3. CASE ~Answer(r)
    <3>1. /\ held'[r] = {HeldOf(i) : i \in Doomed(r)} /\ doomed'[r] = Doomed(r) /\ pc'[r] = "peek"
          /\ \A q \in Reqs \ {r} : pc'[q] = pc[q]
      BY <1>0, <1>1, <2>3 DEF FindDoomed, Goto, Typed, TypeOK, RequestsOK
    <3>2. Hand(r)'
      BY <2>1, <3>1 DEF Hand, HeldOf, Doomed, Live
    <3> QED BY <2>1, <3>1, <3>2, ReadsSound
  <2> QED BY <2>2, <2>3
<1>2. CASE EraseAtts(r)
  <2> DEFINE i == CHOOSE j \in doomed[r] : TRUE
  <2>1. i \in doomed[r] /\ pc[r] = "erase"
    BY <1>0, <1>2 DEF EraseAtts, Typed, TypeOK, RequestsOK
  <2>2. /\ atts' = {a \in atts : a.task # i} /\ UNCHANGED <<disk, slot, tasks, doomed>> /\ pc'[r] = "row"
        /\ \A q \in Reqs \ {r} : pc'[q] = pc[q]
    BY <1>0, <1>2 DEF EraseAtts, Goto, Typed, TypeOK, RequestsOK
  <2> HIDE DEF i
  <2> QED BY <2>1, <2>2, EraseSound
<1>3. CASE EraseRow(r)
  <2> DEFINE i == CHOOSE j \in doomed[r] : TRUE
  <2>1. i \in doomed[r] /\ pc[r] = "row"
    BY <1>0, <1>3 DEF EraseRow, Typed, TypeOK, RequestsOK
  <2>2. /\ atts' = {a \in atts : a.task # i} /\ UNCHANGED <<disk, slot>>
        /\ tasks' = [tasks EXCEPT ![i].live = FALSE]
        /\ IF doomed[r] = {i} THEN Answer(r)
           ELSE Goto(r, "erase") /\ doomed' = [doomed EXCEPT ![r] = @ \ {i}]
    BY <1>3 DEF EraseRow
  <2> HIDE DEF i
  <2>3. /\ \A q \in Reqs \ {r} : pc'[q] = pc[q]
        /\ \/ pc'[r] = "idle" /\ doomed[r] = {i}
           \/ pc'[r] = "erase" /\ doomed'[r] = doomed[r] \ {i}
    BY <1>0, <2>2 DEF Answer, Goto, Typed, TypeOK, RequestsOK
  <2> QED BY <2>1, <2>2, <2>3, EraseSound
<1> QED BY <1>1, <1>2, <1>3, StageSound DEF Deleting

\* What Undo inserts: one copy of each task of the slot, with its files.
LEMMA RestoreBooks ==
  ASSUME IInv, Sound, NEW r \in Reqs, Restore(r)
  PROVE  \E o \in Seq(Held) :
           /\ \A k \in 1 .. Len(o) : o[k] \in slot.held
           /\ \A h \in slot.held : \E k \in 1 .. Len(o) : o[k] = h
           /\ \A j, k \in 1 .. Len(o) : j # k => o[j] # o[k]
           /\ Len(tasks) \in Nat /\ Len(o) \in Nat
           /\ DOMAIN tasks = 1 .. Len(tasks) /\ DOMAIN tasks' = 1 .. Len(tasks) + Len(o)
           /\ \A i \in 1 .. Len(tasks) : tasks'[i] = tasks[i]
           /\ \A k \in 1 .. Len(o) : tasks'[Len(tasks) + k] = [live |-> TRUE, from |-> o[k].id]
           /\ atts' = atts \union
                UNION {{[task |-> Len(tasks) + k, file |-> f] : f \in o[k].files} : k \in 1 .. Len(o)}
<1>1. Typed /\ held[r] = slot.held /\ tasks \in Seq(Rows)
  BY DEF IInv, Rooted, Typed, TypeOK, TablesOK, Sound, Hand, Restore
<1>2. PICK o \in Orders(held[r]) :
        /\ o \in Seq(held[r]) /\ o \in Seq(Held) /\ DOMAIN o = 1 .. Len(o)
        /\ tasks' = tasks \o Copies(o)
        /\ atts' = atts \union
             UNION {{[task |-> Len(tasks) + k, file |-> f] : f \in o[k].files} : k \in 1 .. Len(o)}
  BY <1>1, RestoreFacts
<1>3. /\ \A k \in 1 .. Len(o) : o[k] \in slot.held
      /\ \A h \in slot.held : \E k \in 1 .. Len(o) : o[k] = h
      /\ \A j, k \in 1 .. Len(o) : j # k => o[j] # o[k]
  <2>1. \A h \in held[r] : \E k \in DOMAIN o : o[k] = h
    BY DEF Orders
  <2>2. \A j, k \in DOMAIN o : j # k => o[j] # o[k]
    BY DEF Orders
  <2>3. \A k \in 1 .. Len(o) : o[k] \in held[r]
    BY <1>2
  <2> QED BY <1>1, <1>2, <2>1, <2>2, <2>3
<1>4. /\ Len(tasks) \in Nat /\ Len(o) \in Nat /\ DOMAIN tasks = 1 .. Len(tasks)
  BY <1>1, <1>2
<1>5. /\ tasks' \in Seq(Rows) /\ Len(tasks') = Len(tasks) + Len(o)
      /\ \A i \in 1 .. Len(tasks) : tasks'[i] = tasks[i]
      /\ \A k \in 1 .. Len(o) : tasks'[Len(tasks) + k] = [live |-> TRUE, from |-> o[k].id]
  BY <1>1, <1>2, AppendCopies
<1>6. DOMAIN tasks' = 1 .. Len(tasks) + Len(o)
  BY <1>5
<1> HIDE DEF Copies
<1> QED BY <1>2, <1>3, <1>4, <1>5, <1>6, Zenon

LEMMA RestoreSound ==
  ASSUME IInv, Sound, NEW r \in Reqs, Restore(r)
  PROVE  Sound'
<1>0. /\ Typed /\ Known /\ OneByOne /\ Hand(r) /\ FileBooks /\ TaskBooks /\ pc[r] = "restore"
      /\ \A q \in Reqs \ {r} : pc[q] = "idle"
      /\ Pending = {} /\ ~Restored /\ ~Unlinking /\ \A f : ~Underway(f)
  <2>1. Typed /\ Known /\ OneByOne /\ Hand(r) /\ FileBooks /\ TaskBooks /\ pc[r] = "restore"
    BY DEF IInv, Rooted, Sound, Restore
  <2> QED BY <2>1, WhereItStands
<1>1. /\ UNCHANGED <<disk, slot, mark>> /\ pc'[r] = "discard" /\ \A q \in Reqs \ {r} : pc'[q] = pc[q]
  BY <1>0 DEF Restore, Goto, Typed, TypeOK, RequestsOK
<1>2. PICK o \in Seq(Held) :
           /\ \A k \in 1 .. Len(o) : o[k] \in slot.held
           /\ \A h \in slot.held : \E k \in 1 .. Len(o) : o[k] = h
           /\ \A j, k \in 1 .. Len(o) : j # k => o[j] # o[k]
           /\ Len(tasks) \in Nat /\ Len(o) \in Nat
           /\ DOMAIN tasks = 1 .. Len(tasks) /\ DOMAIN tasks' = 1 .. Len(tasks) + Len(o)
           /\ \A i \in 1 .. Len(tasks) : tasks'[i] = tasks[i]
           /\ \A k \in 1 .. Len(o) : tasks'[Len(tasks) + k] = [live |-> TRUE, from |-> o[k].id]
           /\ atts' = atts \union
                UNION {{[task |-> Len(tasks) + k, file |-> f] : f \in o[k].files} : k \in 1 .. Len(o)}
  BY RestoreBooks
<1>3. /\ \A a \in atts' : a \in atts \/ \E k \in 1 .. Len(o) : a.task = Len(tasks) + k /\ a.file \in o[k].files
      /\ \A a \in atts : a \in atts'
      /\ \A k \in 1 .. Len(o) : \A f \in o[k].files : \E a \in atts' : a.file = f
  <2>1. \A a \in atts' : a \in atts \/ \E k \in 1 .. Len(o) : \E f \in o[k].files :
                           a = [task |-> Len(tasks) + k, file |-> f]
    BY <1>2
  <2>2. \A a \in atts : a \in atts'
    BY <1>2
  <2>3. \A k \in 1 .. Len(o) : \A f \in o[k].files : [task |-> Len(tasks) + k, file |-> f] \in atts'
    <3> SUFFICES ASSUME NEW k \in 1 .. Len(o), NEW f \in o[k].files
                 PROVE  [task |-> Len(tasks) + k, file |-> f] \in atts'
      OBVIOUS
    <3>1. [task |-> Len(tasks) + k, file |-> f] \in {[task |-> Len(tasks) + k, file |-> g] : g \in o[k].files}
      OBVIOUS
    <3> DEFINE Of(l) == {[task |-> Len(tasks) + l, file |-> g] : g \in o[l].files}
    <3>2. [task |-> Len(tasks) + k, file |-> f] \in Of(k)
      BY <3>1
    <3>3. atts' = atts \union UNION {Of(l) : l \in 1 .. Len(o)}
      BY <1>2
    <3> HIDE DEF Of
    <3> QED BY <3>2, <3>3
  <2>4. \A k \in 1 .. Len(o) : \A f \in o[k].files : \E a \in atts' : a.file = f
    BY <2>3
  <2>5. \A a \in atts' : a \in atts \/ \E k \in 1 .. Len(o) : a.task = Len(tasks) + k /\ a.file \in o[k].files
    <3> SUFFICES ASSUME NEW a \in atts', a \notin atts
                 PROVE  \E k \in 1 .. Len(o) : a.task = Len(tasks) + k /\ a.file \in o[k].files
      OBVIOUS
    <3>1. PICK k \in 1 .. Len(o) : \E f \in o[k].files : a = [task |-> Len(tasks) + k, file |-> f]
      BY <2>1
    <3> QED BY <3>1
  <2> QED BY <2>2, <2>4, <2>5
<1>4. \A i \in DOMAIN tasks' : i \in DOMAIN tasks \/ \E k \in 1 .. Len(o) :
                                 i = Len(tasks) + k /\ tasks'[i] = [live |-> TRUE, from |-> o[k].id]
  <2> SUFFICES ASSUME NEW i \in DOMAIN tasks', i \notin DOMAIN tasks
               PROVE  \E k \in 1 .. Len(o) :
                        i = Len(tasks) + k /\ tasks'[i] = [live |-> TRUE, from |-> o[k].id]
    OBVIOUS
  <2>1. i - Len(tasks) \in 1 .. Len(o) /\ i = Len(tasks) + (i - Len(tasks))
    BY <1>2
  <2> QED BY <1>2, <2>1
<1>5. \A h \in slot.held : \A f \in h.files : f \in disk /\ \A a \in atts : a.file # f
  BY <1>0 DEF FileBooks
<1>6. \A h \in slot.held : \A f \in h.files : HasRow(f)'
  BY <1>2, <1>3 DEF HasRow
<1>7. Hand(r)'
  BY <1>0, <1>1, <1>6 DEF Hand
<1>8. OneByOne' /\ (\A q \in Reqs : Hand(q)') /\ Pending' = {} /\ Restored' /\ ~Unlinking'
  BY <1>0, <1>1, <1>7, WhereItGoes
<1>9. FileBooks'
  <2>1. \A a \in atts' : a.file \in disk'
    BY <1>0, <1>1, <1>2, <1>3, <1>5 DEF FileBooks
  <2>2. \A a, b \in atts' : a.file = b.file => a.task = b.task
    <3>1. ASSUME NEW a \in atts, NEW b \in atts' \ atts PROVE a.file # b.file
      <4>1. PICK k \in 1 .. Len(o) : b.file \in o[k].files
        BY <1>3
      <4> QED BY <1>2, <1>5, <4>1
    <3>2. ASSUME NEW a \in atts' \ atts, NEW b \in atts' \ atts, a.file = b.file PROVE a.task = b.task
      <4>1. PICK j \in 1 .. Len(o) : a.task = Len(tasks) + j /\ a.file \in o[j].files
        BY <1>3
      <4>2. PICK k \in 1 .. Len(o) : b.task = Len(tasks) + k /\ b.file \in o[k].files
        BY <1>3
      <4>3. o[j] = o[k]
        <5>1. o[j] \in slot.held /\ o[k] \in slot.held
          BY <1>2
        <5> QED BY <1>0, <3>2, <4>1, <4>2, <5>1 DEF FileBooks
      <4> QED BY <1>2, <4>1, <4>2, <4>3
    <3> QED BY <1>0, <3>1, <3>2 DEF FileBooks
  <2>3. \A f \in disk' : HasRow(f)' \/ InSlot(f)'
    BY <1>0, <1>1, <1>3 DEF FileBooks, HasRow, InSlot
  <2> QED BY <1>0, <1>1, <1>8, <2>1, <2>2, <2>3 DEF FileBooks
<1>10. \A i \in DOMAIN tasks : Live(i)' <=> Live(i)
  BY <1>2 DEF Live
<1>11. \A h \in slot.held : h.id \in DOMAIN tasks /\ ~Live(h.id) /\ ~Live(h.id)'
  <2>1. \A h \in slot.held : h.id \in DOMAIN tasks
    BY <1>0 DEF Known, IdsOf
  <2> QED BY <1>0, <1>10, <2>1 DEF TaskBooks
<1>12. TaskBooks'
  <2>1. \A i, j \in DOMAIN tasks' : i # j /\ tasks'[i].from # 0 => tasks'[i].from # tasks'[j].from
    <3>1. ASSUME NEW i \in DOMAIN tasks, NEW j \in DOMAIN tasks' \ DOMAIN tasks
          PROVE  tasks'[i].from # tasks'[j].from
      <4>1. PICK k \in 1 .. Len(o) : tasks'[j] = [live |-> TRUE, from |-> o[k].id]
        BY <1>4
      <4>2. o[k] \in slot.held /\ tasks'[j].from = o[k].id /\ tasks'[i] = tasks[i]
        BY <1>2, <4>1
      <4> QED BY <1>0, <4>2 DEF TaskBooks
    <3>2. ASSUME NEW i \in DOMAIN tasks' \ DOMAIN tasks, NEW j \in DOMAIN tasks' \ DOMAIN tasks, i # j
          PROVE  tasks'[i].from # tasks'[j].from
      <4>1. PICK k \in 1 .. Len(o) : i = Len(tasks) + k /\ tasks'[i] = [live |-> TRUE, from |-> o[k].id]
        BY <1>4
      <4>2. PICK l \in 1 .. Len(o) : j = Len(tasks) + l /\ tasks'[j] = [live |-> TRUE, from |-> o[l].id]
        BY <1>4
      <4>3. o[k] # o[l]
        BY <1>2, <3>2, <4>1, <4>2
      <4>4. o[k].id # o[l].id
        BY <1>0, <1>2, <4>3 DEF FileBooks
      <4> QED BY <4>1, <4>2, <4>4
    <3>3. \A i, j \in DOMAIN tasks : i # j /\ tasks'[i].from # 0 => tasks'[i].from # tasks'[j].from
      BY <1>0, <1>2 DEF TaskBooks
    <3> QED BY <3>1, <3>2, <3>3
  <2>2. \A i \in DOMAIN tasks' : ~Live(tasks[i].from)'
    <3>1. ASSUME NEW i \in DOMAIN tasks PROVE ~Live(tasks[i].from)'
      <4>1. tasks'[i].from \in {0} \union DOMAIN tasks /\ ~Live(tasks'[i].from)
        BY <1>0, <1>2 DEF Known, TaskBooks
      <4>2. 0 \notin DOMAIN tasks'
        BY <1>2
      <4> QED BY <1>2, <4>1, <4>2 DEF Live
    <3>2. ASSUME NEW i \in DOMAIN tasks' \ DOMAIN tasks PROVE ~Live(tasks[i].from)'
      <4>1. PICK k \in 1 .. Len(o) : tasks'[i] = [live |-> TRUE, from |-> o[k].id]
        BY <1>4
      <4>2. o[k].id \in DOMAIN tasks /\ ~Live(o[k].id)
        BY <1>2, <1>11
      <4> QED BY <1>2, <4>1, <4>2 DEF Live
    <3> QED BY <3>1, <3>2
  <2>3. \A h \in slot'.held : Live(h.id)' => h.id \in Pending'
    BY <1>1, <1>11 DEF Live
  <2> QED BY <1>8, <2>1, <2>2, <2>3 DEF TaskBooks
<1> QED BY <1>8, <1>9, <1>12 DEF Sound

LEMMA UndoSound ==
  ASSUME IInv, Sound, NEW r \in Reqs, Undoing(r)
  PROVE  Sound'
<1>0. Typed /\ OneByOne /\ Hand(r) /\ FileBooks /\ TaskBooks
  BY DEF IInv, Rooted, Sound
<1>1. CASE ExpireUndo(r)
  <2>1. UNCHANGED <<tasks, atts, disk, slot>> /\ pc[r] = "expire" /\ call[r].kind # "delete"
    BY <1>0, <1>1 DEF ExpireUndo, Typed, Controlled, Control
  <2>2. CASE Answer(r)
    BY <2>1, <2>2, GoesOnSound
  <2>3. CASE ~Answer(r)
    <3>1. PICK next \in {"peek", "fetch"} : Goto(r, next) /\ UNCHANGED <<call, held, doomed>>
      BY <1>1, <2>3 DEF ExpireUndo
    <3> QED BY <2>1, <3>1, GoesOnSound
  <2> QED BY <2>2, <2>3
<1>2. CASE FetchSlot(r)
  <2>1. UNCHANGED <<tasks, atts, disk, slot>> /\ pc[r] = "fetch"
    BY <1>2 DEF FetchSlot
  <2>2. CASE slot = NoSlot
    BY <1>2, <2>1, <2>2, GoesOnSound DEF FetchSlot
  <2>3. CASE slot # NoSlot
    <3>1. /\ held'[r] = slot.held /\ mark'[r].at = slot.at /\ pc'[r] = "begin"
          /\ \A q \in Reqs \ {r} : pc'[q] = pc[q]
      BY <1>0, <1>2, <2>3 DEF FetchSlot, Goto, Typed, TypeOK, RequestsOK
    <3>2. Hand(r)'
      BY <2>1, <3>1 DEF Hand
    <3> QED BY <2>1, <3>1, <3>2, ReadsSound
  <2> QED BY <2>2, <2>3
<1>3. CASE BeginUndo(r)
  <2>1. /\ UNCHANGED <<tasks, atts, disk, slot, mark>> /\ pc[r] = "begin" /\ pc'[r] = "restore"
        /\ held'[r] = {[id |-> h.id, files |-> h.files \intersect disk] : h \in ToRestore(r)}
        /\ \A q \in Reqs \ {r} : pc'[q] = pc[q]
    BY <1>0, <1>3 DEF BeginUndo, Goto, Typed, TypeOK, RequestsOK
  <2>2. Pending = {} /\ ~Unlinking
    BY <1>0, <2>1, WhereItStands
  <2>3. held[r] = slot.held /\ ToRestore(r) = slot.held
    BY <1>0, <2>1, <2>2 DEF Hand, ToRestore, TaskBooks
  <2>4. \A h \in slot.held : [id |-> h.id, files |-> h.files \intersect disk] = h
    <3> SUFFICES ASSUME NEW h \in slot.held PROVE [id |-> h.id, files |-> h.files \intersect disk] = h
      OBVIOUS
    <3>1. h \in Held
      BY <1>0 DEF Typed, TypeOK, TablesOK, Slots
    <3>2. h.files \intersect disk = h.files
      BY <1>0, <2>2 DEF FileBooks
    <3> QED BY <3>1, <3>2 DEF Held
  <2>5. held'[r] = slot.held
    <3>1. \A S : (\A h \in S : [id |-> h.id, files |-> h.files \intersect disk] = h) =>
                 {[id |-> h.id, files |-> h.files \intersect disk] : h \in S} = S
      OBVIOUS
    <3> QED BY <2>1, <2>3, <2>4, <3>1
  <2>6. Hand(r)'
    BY <1>0, <2>1, <2>5 DEF Hand
  <2> QED BY <2>1, <2>6, ReadsSound
<1>4. CASE RestoreFails(r)
  <2>1. UNCHANGED <<tasks, atts, disk, slot>> /\ pc[r] = "restore" /\ Answer(r)
    BY <1>4 DEF RestoreFails
  <2> QED BY <2>1, GoesOnSound
<1>5. CASE DiscardSlot(r)
  <2>1. UNCHANGED <<tasks, atts, disk>> /\ pc[r] = "discard" /\ Answer(r) /\ mark[r].at = slot.at
    BY <1>0, <1>5 DEF DiscardSlot, Hand
  <2>2. slot'.held = {}
    BY <1>5, <2>1 DEF DiscardSlot, NoSlot
  <2>3. pc'[r] = "idle" /\ (\A q \in Reqs \ {r} : pc[q] = "idle" /\ pc'[q] = "idle") /\ Hand(r)'
        /\ Pending = {} /\ \A f : ~Underway(f)
    BY <1>0, <2>1, AnswerSound, WhereItStands
  <2>4. OneByOne' /\ \A q \in Reqs : Hand(q)'
    BY <1>0, <2>3, WhereItGoes
  <2>5. \A f \in disk : HasRow(f)
    BY <1>0, <2>1, <2>3 DEF FileBooks, Hand, InSlot
  <2>6. FileBooks'
    BY <1>0, <2>1, <2>2, <2>5 DEF FileBooks, HasRow
  <2>7. TaskBooks'
    BY <1>0, <2>1, <2>2, TasksStand
  <2> QED BY <2>4, <2>6, <2>7 DEF Sound
<1> QED BY <1>1, <1>2, <1>3, <1>4, <1>5, RestoreSound DEF Undoing

\* A file gets the row it waits for, or goes if its task is gone.
LEMMA RegisterSound ==
  ASSUME IInv, Sound, NEW r \in Reqs, RegisterFile(r)
  PROVE  Sound'
<1>0. /\ Typed /\ OneByOne /\ FileBooks /\ TaskBooks /\ pc[r] = "register"
      /\ \A q \in Reqs \ {r} : pc[q] = "idle"
      /\ Pending = {} /\ ~Restored /\ ~Unlinking /\ \A g : Underway(g) => g \in names[r]
  <2>1. Typed /\ OneByOne /\ FileBooks /\ TaskBooks /\ pc[r] = "register"
    BY DEF IInv, Rooted, Sound, RegisterFile
  <2> QED BY <2>1, WhereItStands
<1>1. PICK i \in Nat, f \in Nat : call[r].ids = {i} /\ names[r] = {f} /\ Fresh(r)
  BY <1>0 DEF IInv, Typed, Controlled, Control, Filed, AllFresh, Fresh
<1>2. f \in disk /\ (\A h \in slot.held : f \notin h.files) /\ \A a \in atts : a.file # f
  BY <1>1 DEF Fresh, Loose, FilesOf
<1>3. UNCHANGED <<tasks, slot>> /\ Answer(r)
  BY DEF RegisterFile
<1>4. pc'[r] = "idle" /\ (\A q \in Reqs \ {r} : pc'[q] = pc[q]) /\ Hand(r)'
  BY <1>0, <1>3, AnswerSound
<1>5. OneByOne' /\ (\A q \in Reqs : Hand(q)') /\ Pending' = {} /\ ~Restored' /\ ~Unlinking'
  BY <1>0, <1>4, WhereItGoes
<1>6. FileBooks'
  <2>1. CASE Live(i)
    <3>1. atts' = atts \union [task : {i}, file : {f}] /\ disk' = disk
      BY <1>1, <2>1 DEF RegisterFile
    <3>2. /\ \A a \in atts' : a \in atts \/ (a.task = i /\ a.file = f)
          /\ \A a \in atts : a \in atts'
          /\ [task |-> i, file |-> f] \in atts'
      BY <3>1
    <3>3. \A g \in disk' : HasRow(g)' \/ InSlot(g)'
      BY <1>0, <1>1, <1>3, <3>1, <3>2 DEF FileBooks, HasRow, InSlot
    <3>4. \A h \in slot'.held, a \in atts' : a.file \notin h.files
      BY <1>0, <1>2, <1>3, <3>2 DEF FileBooks
    <3>5. \A a, b \in atts' : a.file = b.file => a.task = b.task
      BY <1>0, <1>2, <3>2 DEF FileBooks
    <3> QED BY <1>0, <1>2, <1>3, <3>1, <3>2, <3>3, <3>4, <3>5 DEF FileBooks
  <2>2. CASE ~Live(i)
    <3>1. atts' = atts /\ disk' = disk \ {f}
      BY <1>1, <2>2 DEF RegisterFile
    <3>2. \A g \in disk' : HasRow(g)' \/ InSlot(g)'
      BY <1>0, <1>1, <1>3, <3>1 DEF FileBooks, HasRow, InSlot
    <3> QED BY <1>0, <1>2, <1>3, <3>1, <3>2 DEF FileBooks
  <2> QED BY <2>1, <2>2
<1>7. TaskBooks'
  BY <1>0, <1>3, TasksStand
<1> QED BY <1>5, <1>6, <1>7 DEF Sound

\* The row of an attachment goes, and its file is the next to go.
LEMMA DetachSound ==
  ASSUME IInv, Sound, NEW r \in Reqs, DetachAtt(r)
  PROVE  Sound'
<1>0. /\ Typed /\ OneByOne /\ Hand(r) /\ FileBooks /\ TaskBooks /\ pc[r] = "detach"
      /\ \A q \in Reqs \ {r} : pc[q] = "idle"
      /\ Pending = {} /\ ~Restored /\ ~Unlinking /\ \A g : ~Underway(g)
  <2>1. Typed /\ OneByOne /\ Hand(r) /\ FileBooks /\ TaskBooks /\ pc[r] = "detach"
    BY DEF IInv, Rooted, Sound, DetachAtt
  <2> QED BY <2>1, WhereItStands
<1> DEFINE g == call[r].file
<1>1. PICK i \in DOMAIN tasks : call[r].ids = {i} /\ [task : {i}, file : {g}] \subseteq atts
  BY <1>0 DEF Hand
<1>2. /\ UNCHANGED <<tasks, disk, slot, call>> /\ atts' = atts \ [task : {i}, file : {g}]
      /\ pc'[r] = "remove" /\ \A q \in Reqs \ {r} : pc'[q] = pc[q]
  BY <1>0, <1>1 DEF DetachAtt, Goto, Typed, TypeOK, RequestsOK
<1>3. [task |-> i, file |-> g] \in atts
  BY <1>1
<1>4. \A a \in atts : a.task = i /\ a.file = g => a \in [task : {i}, file : {g}]
  <2> SUFFICES ASSUME NEW a \in atts, a.task = i, a.file = g PROVE a \in [task : {i}, file : {g}]
    OBVIOUS
  <2>1. a \in Atts
    BY <1>0 DEF Typed, TypeOK, TablesOK
  <2>2. a = [task |-> a.task, file |-> a.file]
    BY <2>1 DEF Atts
  <2> QED BY <2>2
<1>5. /\ \A a \in atts' : a \in atts /\ a.file # g
      /\ \A a \in atts : a \in atts' \/ a.file = g
  <2>1. \A a \in atts : a.file = g => a.task = i
    BY <1>0, <1>3 DEF FileBooks
  <2> QED BY <1>2, <1>4, <2>1
<1>6. ~InSlot(g)
  BY <1>0, <1>3 DEF FileBooks, InSlot
<1>7. Hand(r)'
  BY <1>2, <1>5, <1>6 DEF Hand, HasRow, InSlot
<1>8. /\ OneByOne' /\ (\A q \in Reqs : Hand(q)') /\ Pending' = {} /\ ~Restored' /\ ~Unlinking'
      /\ Underway(g)'
  BY <1>0, <1>2, <1>7, WhereItGoes
<1>9. FileBooks'
  <2>1. \A f \in disk' : HasRow(f)' \/ InSlot(f)' \/ Underway(f)'
    <3> SUFFICES ASSUME NEW f \in disk, f # g, ~InSlot(f) PROVE HasRow(f)'
      BY <1>2, <1>8 DEF InSlot
    <3> QED BY <1>0, <1>5 DEF FileBooks, HasRow
  <2> QED BY <1>0, <1>2, <1>5, <2>1 DEF FileBooks
<1>10. TaskBooks'
  BY <1>0, <1>2, TasksStand
<1> QED BY <1>8, <1>9, <1>10 DEF Sound

LEMMA AttachSound ==
  ASSUME IInv, Sound, NEW r \in Reqs, Attaching(r)
  PROVE  Sound'
<1>0. Typed /\ OneByOne /\ Hand(r) /\ FileBooks /\ TaskBooks
  BY DEF IInv, Rooted, Sound
<1>1. CASE ProbeTask(r)
  <2>1. UNCHANGED <<tasks, atts, disk, slot>> /\ pc[r] = "probe"
    BY <1>1 DEF ProbeTask
  <2>2. Answer(r) \/ (Goto(r, "place") /\ UNCHANGED <<call, held, doomed>>)
    BY <1>1 DEF ProbeTask
  <2> QED BY <2>1, <2>2, GoesOnSound
<1>2. CASE LookUpAtt(r)
  <2>1. UNCHANGED <<tasks, atts, disk, slot>> /\ pc[r] = "look"
    BY <1>2 DEF LookUpAtt
  <2>2. CASE Answer(r)
    BY <2>1, <2>2, GoesOnSound
  <2>3. CASE ~Answer(r)
    <3>1. /\ [task : call[r].ids, file : {call[r].file}] \subseteq atts
          /\ UNCHANGED call /\ pc'[r] = "detach" /\ \A q \in Reqs \ {r} : pc'[q] = pc[q]
      BY <1>0, <1>2, <2>3 DEF LookUpAtt, Goto, Typed, TypeOK, RequestsOK
    <3>2. Hand(r)'
      BY <1>0, <2>1, <3>1 DEF Hand
    <3> QED BY <2>1, <3>1, <3>2, ReadsSound
  <2> QED BY <2>2, <2>3
<1>3. CASE PlaceFile(r)
  <2>1. /\ UNCHANGED <<tasks, atts, slot>> /\ pc[r] = "place" /\ pc'[r] = "register"
        /\ disk' = disk \union {uploads + 1} /\ names'[r] = {uploads + 1}
        /\ \A q \in Reqs \ {r} : pc'[q] = pc[q]
    BY <1>0, <1>3 DEF PlaceFile, Goto, Typed, TypeOK, RequestsOK
  <2>2. /\ \A q \in Reqs \ {r} : pc[q] = "idle"
        /\ Pending = {} /\ ~Restored /\ ~Unlinking /\ \A f : ~Underway(f)
    BY <1>0, <2>1, WhereItStands
  <2>3. Hand(r)'
    BY <2>1 DEF Hand
  <2>4. /\ OneByOne' /\ (\A q \in Reqs : Hand(q)') /\ Pending' = {} /\ ~Restored' /\ ~Unlinking'
        /\ \A f : f = uploads + 1 => Underway(f)'
    BY <1>0, <2>1, <2>2, <2>3, WhereItGoes
  <2>5. \A f \in disk' : HasRow(f)' \/ InSlot(f)' \/ Underway(f)'
    <3> SUFFICES ASSUME NEW f \in disk PROVE HasRow(f)' \/ InSlot(f)'
      BY <2>1, <2>4
    <3> QED BY <1>0, <2>1, <2>2 DEF FileBooks, HasRow, InSlot
  <2>6. FileBooks'
    BY <1>0, <2>1, <2>2, <2>5 DEF FileBooks
  <2>7. TaskBooks'
    BY <1>0, <2>1, <2>2, TasksStand
  <2> QED BY <2>4, <2>6, <2>7 DEF Sound
<1>4. CASE RemoveFile(r)
  <2>1. UNCHANGED <<tasks, atts, slot>> /\ pc[r] = "remove" /\ disk' = disk \ {call[r].file} /\ Answer(r)
    BY <1>4 DEF RemoveFile
  <2>2. /\ \A q \in Reqs \ {r} : pc[q] = "idle"
        /\ Pending = {} /\ ~Restored /\ ~Unlinking /\ \A f : Underway(f) => f = call[r].file
    BY <1>0, <2>1, WhereItStands
  <2>3. pc'[r] = "idle" /\ (\A q \in Reqs \ {r} : pc'[q] = pc[q]) /\ Hand(r)'
    BY <1>0, <2>1, AnswerSound
  <2>4. OneByOne' /\ (\A q \in Reqs : Hand(q)') /\ Pending' = {} /\ ~Restored' /\ ~Unlinking'
    BY <1>0, <2>2, <2>3, WhereItGoes
  <2>5. ~HasRow(call[r].file) /\ ~InSlot(call[r].file)
    BY <1>0, <2>1 DEF Hand
  <2>6. \A f \in disk' : HasRow(f)' \/ InSlot(f)'
    BY <1>0, <2>1, <2>2 DEF FileBooks, HasRow, InSlot
  <2>7. \A h \in slot'.held : \A f \in h.files : f \in disk'
    BY <1>0, <2>1, <2>2, <2>5 DEF FileBooks, InSlot
  <2>8. FileBooks'
    BY <1>0, <2>1, <2>2, <2>5, <2>6, <2>7 DEF FileBooks, HasRow
  <2>9. TaskBooks'
    BY <1>0, <2>1, <2>2, TasksStand
  <2> QED BY <2>4, <2>8, <2>9 DEF Sound
<1> QED BY <1>1, <1>2, <1>3, <1>4, RegisterSound, DetachSound DEF Attaching

LEMMA SoundInit == Init => Sound
<1> SUFFICES ASSUME Init PROVE Sound
  OBVIOUS
<1>1. \A r \in Reqs : pc[r] = "idle"
  BY DEF Init
<1>2. OneByOne /\ (\A r \in Reqs : Hand(r)) /\ ~Restored
  BY <1>1 DEF OneByOne, Hand, Restored
<1>3. /\ slot.held = {} /\ NTasks \in Nat /\ DOMAIN tasks = 1 .. NTasks
      /\ \A i \in DOMAIN tasks : tasks[i].from = 0
  BY ConstantsAssumption DEF Init, NoSlot
<1>4. TaskBooks
  BY <1>3 DEF TaskBooks, Live
<1>5. \A a \in atts : a.file \in disk /\ a.task = a.file
  BY DEF Init
<1>6. \A f \in disk : HasRow(f)
  <2> SUFFICES ASSUME NEW f \in 1 .. NTasks PROVE \E a \in atts : a.file = f
    BY DEF Init, HasRow
  <2>1. [task |-> f, file |-> f] \in atts
    BY DEF Init
  <2> QED BY <2>1
<1>7. FileBooks
  BY <1>3, <1>5, <1>6 DEF FileBooks
<1> QED BY <1>2, <1>4, <1>7 DEF Sound

LEMMA SoundStep ==
  ASSUME Serial, MaxCrashes = 0, IInv, Sound, [Next]_vars
  PROVE  Sound'
<1>1. CASE Tick \/ UNCHANGED vars
  <2>1. UNCHANGED <<tasks, atts, disk, slot, pc, call, held, mark, names, doomed>>
    BY <1>1 DEF Tick, vars, request
  <2>2. OneByOne' /\ TaskBooks' /\ \A r \in Reqs : Hand(r)'
    BY <2>1 DEF Sound, OneByOne, TaskBooks, Hand, HeldOf, HasRow, InSlot, Live, Pending, Erasing, Restored
  <2>3. FileBooks'
    BY <2>1 DEF Sound, FileBooks, HasRow, InSlot, Underway, Pending, Erasing, Restored, Unlinking
  <2> QED BY <2>2, <2>3 DEF Sound
<1>2. ~Crash
  BY DEF Crash, IInv, Rooted, Typed, TypeOK, TablesOK
<1>3. ASSUME NEW r \in Reqs, Arrives(r) \/ Deleting(r) \/ Dropping(r) \/ Undoing(r) \/ Attaching(r)
      PROVE  Sound'
  BY <1>3, ArriveSound, DeleteSound, DropSound, UndoSound, AttachSound
<1> QED BY <1>1, <1>2, <1>3 DEF Next

\* What Sound says of the files and the copies.
LEMMA SoundMeans ==
  ASSUME Sound
  PROVE  NoDeadLinks /\ NoLeak /\ RestoredOnce
<1>1. NoDeadLinks
  BY DEF Sound, FileBooks, NoDeadLinks
<1>2. NoLeak
  <2> SUFFICES ASSUME Quiet, NEW f \in disk
               PROVE  f \in {a.file : a \in atts} \union FilesOf(slot.held)
    BY DEF NoLeak
  <2>1. ~Underway(f)
    BY DEF Quiet, Underway
  <2>2. HasRow(f) \/ InSlot(f)
    BY <2>1 DEF Sound, FileBooks
  <2> QED BY <2>2 DEF HasRow, InSlot, FilesOf
<1>3. RestoredOnce
  BY DEF Sound, TaskBooks, RestoredOnce, Present
<1> QED BY <1>1, <1>2, <1>3

\* Undo inserts what is in the slot, all of it.
LEMMA RestoreComplete ==
  ASSUME IInv, Sound, [Next]_vars
  PROVE  RestoresAll
<1> SUFFICES ASSUME NEW r \in Reqs, pc[r] = "restore", pc'[r] = "discard", NEW h \in slot.held
             PROVE  \E i \in DOMAIN tasks' :
                      /\ tasks'[i].live /\ tasks'[i].from = h.id
                      /\ \A f \in h.files : [task |-> i, file |-> f] \in atts'
  BY DEF RestoresAll
<1>1. Restore(r)
  <2>0. pc \in [Reqs -> Statements]
    BY DEF IInv, Rooted, Typed, TypeOK, RequestsOK
  <2>1. ~Tick /\ ~Crash /\ ~(UNCHANGED vars)
    BY DEF Tick, Crash, vars, request
  <2>2. PICK q \in Reqs : Arrives(q) \/ Deleting(q) \/ Dropping(q) \/ Undoing(q) \/ Attaching(q)
    BY <2>1 DEF Next
  <2>3. UNCHANGED pc \/ \E s : pc' = [pc EXCEPT ![q] = s]
    <3>1. CASE Arrives(q)
      BY <3>1 DEF Arrives, Arrive, Goto
    <3>2. CASE Deleting(q)
      BY <3>2 DEF Deleting, FindDoomed, Stage, EraseAtts, EraseRow, Goto, Answer
    <3>3. CASE Dropping(q)
      BY <3>3 DEF Dropping, PeekSlot, UnlinkOne, ClearSlot, Goto, Answer
    <3>4. CASE Undoing(q)
      BY <3>4 DEF Undoing, ExpireUndo, FetchSlot, BeginUndo, Restore, RestoreFails, DiscardSlot, Goto, Answer
    <3>5. CASE Attaching(q)
      BY <3>5 DEF Attaching, ProbeTask, PlaceFile, RegisterFile, LookUpAtt, DetachAtt, RemoveFile, Goto, Answer
    <3> QED BY <2>2, <3>1, <3>2, <3>3, <3>4, <3>5
  <2>4. q = r
    BY <2>0, <2>3
  <2>5. ~Arrives(q)
    BY <2>4 DEF Arrives, Arrive
  <2>6. ~Deleting(q) /\ ~Dropping(q) /\ ~Attaching(q)
    BY <2>4 DEF Deleting, FindDoomed, Stage, EraseAtts, EraseRow, Dropping, PeekSlot, UnlinkOne, ClearSlot,
                Attaching, ProbeTask, PlaceFile, RegisterFile, LookUpAtt, DetachAtt, RemoveFile
  <2>7. ~RestoreFails(r)
    BY <2>0 DEF RestoreFails, Answer
  <2> QED BY <2>2, <2>4, <2>5, <2>6, <2>7 DEF Undoing, ExpireUndo, FetchSlot, BeginUndo, DiscardSlot
<1>2. PICK o \in Seq(Held) :
           /\ \A k \in 1 .. Len(o) : o[k] \in slot.held
           /\ \A g \in slot.held : \E k \in 1 .. Len(o) : o[k] = g
           /\ \A j, k \in 1 .. Len(o) : j # k => o[j] # o[k]
           /\ Len(tasks) \in Nat /\ Len(o) \in Nat
           /\ DOMAIN tasks = 1 .. Len(tasks) /\ DOMAIN tasks' = 1 .. Len(tasks) + Len(o)
           /\ \A i \in 1 .. Len(tasks) : tasks'[i] = tasks[i]
           /\ \A k \in 1 .. Len(o) : tasks'[Len(tasks) + k] = [live |-> TRUE, from |-> o[k].id]
           /\ atts' = atts \union
                UNION {{[task |-> Len(tasks) + k, file |-> f] : f \in o[k].files} : k \in 1 .. Len(o)}
  BY <1>1, RestoreBooks
<1>3. PICK k \in 1 .. Len(o) : o[k] = h
  BY <1>2
<1>4. \A f \in h.files : [task |-> Len(tasks) + k, file |-> f] \in atts'
  <2> SUFFICES ASSUME NEW f \in h.files PROVE [task |-> Len(tasks) + k, file |-> f] \in atts'
    OBVIOUS
  <2> DEFINE Of(l) == {[task |-> Len(tasks) + l, file |-> g] : g \in o[l].files}
  <2>1. [task |-> Len(tasks) + k, file |-> f] \in Of(k)
    BY <1>3
  <2>2. atts' = atts \union UNION {Of(l) : l \in 1 .. Len(o)}
    BY <1>2
  <2> HIDE DEF Of
  <2> QED BY <2>1, <2>2
<1>5. /\ Len(tasks) + k \in DOMAIN tasks'
      /\ tasks'[Len(tasks) + k].live /\ tasks'[Len(tasks) + k].from = h.id
  <2>1. Len(tasks) + k \in 1 .. Len(tasks) + Len(o)
    BY <1>2
  <2>2. tasks'[Len(tasks) + k] = [live |-> TRUE, from |-> h.id]
    BY <1>2, <1>3
  <2> QED BY <1>2, <2>1, <2>2
<1> QED BY <1>4, <1>5

\* While requests wait for one another and the server is not restarted, the attachments
\* have their files and the directory holds no others, and a deleted task has one copy
\* (undo.go and extras.go keep rows and files in step by hand).
THEOREM RowsAndFilesAgree ==
  Serial /\ MaxCrashes = 0 => (Spec => [](NoDeadLinks /\ NoLeak /\ RestoredOnce))
<1> SUFFICES ASSUME Serial, MaxCrashes = 0
             PROVE  Spec => [](NoDeadLinks /\ NoLeak /\ RestoredOnce)
  OBVIOUS
<1>1. Init => IInv /\ Sound
  BY InitIInv, SoundInit
<1>2. IInv /\ Sound /\ [Next]_vars => (IInv /\ Sound)'
  BY StepIInv, SoundStep
<1>3. Sound => NoDeadLinks /\ NoLeak /\ RestoredOnce
  BY SoundMeans
<1> QED BY <1>1, <1>2, <1>3, PTL DEF Spec

\* In the same circumstances Undo brings back every task of the slot with every file it had
\* (Undo, the loop over the saved tasks).
THEOREM UndoBringsAllBack ==
  Serial /\ MaxCrashes = 0 => (Spec => UndoIsComplete)
<1> SUFFICES ASSUME Serial, MaxCrashes = 0 PROVE Spec => UndoIsComplete
  OBVIOUS
<1>1. Init => IInv /\ Sound
  BY InitIInv, SoundInit
<1>2. IInv /\ Sound /\ [Next]_vars => (IInv /\ Sound)'
  BY StepIInv, SoundStep
<1>3. IInv /\ Sound /\ [Next]_vars => [RestoresAll]_vars
  BY RestoreComplete
<1> QED BY <1>1, <1>2, <1>3, PTL DEF Spec, UndoIsComplete
=============================================================================
