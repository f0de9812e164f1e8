---------------------------- MODULE OutboxProofs ----------------------------
(***************************************************************************)
(* Proofs about Outbox, for any number of pages and concurrent calls, any  *)
(* values, bounds and admitted behaviours; and, in the second half, what   *)
(* holds of the server and the local copies where one call is under way at *)
(* a time.                                                                 *)
(***************************************************************************)
EXTENDS Outbox, SequenceTheorems, WellFoundedInduction, TLAPS

-----------------------------------------------------------------------------
(* Sequences.                                                              *)

\* Overwriting one place of a sequence leaves a sequence, whether or not the
\* place exists.
LEMMA OverwriteSeq ==
  ASSUME NEW S, NEW s \in Seq(S), NEW k, NEW e, k \in DOMAIN s => e \in S
  PROVE  /\ [s EXCEPT ![k] = e] \in Seq(S)
         /\ Len([s EXCEPT ![k] = e]) = Len(s)
<1>1. DOMAIN s = 1 .. Len(s)
  BY LenProperties
<1>2. CASE k \in DOMAIN s
  BY <1>1, <1>2, ExceptSeq
<1>3. CASE k \notin DOMAIN s
  <2>1. [s EXCEPT ![k] = e] = s
    BY <1>1, <1>3, LenProperties
  <2> QED BY <2>1
<1> QED BY <1>2, <1>3

\* Reading a place of a sequence.
LEMMA PlaceOfSeq ==
  ASSUME NEW S, NEW s \in Seq(S), NEW k \in DOMAIN s
  PROVE  s[k] \in S
BY LenProperties, ElementOfSeq

-----------------------------------------------------------------------------
(* Type correctness.                                                       *)

\* Temporary ids are bounded below, so that nextTempId finds a lowest one.
Bounded == \E b \in Int : \A t \in DOMAIN locals : b <= t

TypeInv == TypeOK /\ Bounded

\* The lowest temporary id exists: nextTempId returns a number, below all others.
LEMMA NextTempIdLemma ==
  ASSUME TypeInv
  PROVE  NextTempId \in Int /\ NextTempId < 0 /\ NextTempId \notin DOMAIN locals
<1> DEFINE Ids == DOMAIN locals \union {0}
<1>1. PICK b \in Int : \A t \in Ids : t \in Int /\ b <= t
  <2>1. PICK c \in Int : \A t \in DOMAIN locals : c <= t
    BY DEF TypeInv, Bounded
  <2>2. DOMAIN locals \subseteq Int
    BY DEF TypeInv, TypeOK, StoresOK, CopiesOK
  <2>3. CASE c <= 0
    BY <2>1, <2>2, <2>3
  <2>4. CASE 0 < c
    <3>1. \A t \in Ids : t \in Int /\ 0 <= t
      BY <2>1, <2>2, <2>4
    <3> QED BY <3>1
  <2> QED BY <2>1, <2>3, <2>4
<1>2. PICK low \in Ids : \A u \in Ids : low <= u
  <2> DEFINE Gaps == {t - b : t \in Ids}
  <2>1. Gaps \subseteq Nat /\ Gaps # {}
    BY <1>1
  <2>2. PICK g \in Gaps : \A h \in Gaps : ~(<<h, g>> \in OpToRel(<, Nat))
    BY <2>1, WFMin, NatLessThanWellFounded
  <2>3. \A h \in Gaps : ~(h < g)
    BY <2>1, <2>2 DEF OpToRel
  <2>4. PICK m \in Ids : g = m - b
    BY <2>2
  <2>5. ASSUME NEW u \in Ids PROVE m <= u
    <3>1. u - b \in Gaps /\ g \in Gaps
      BY <2>2
    <3>2. ~(u - b < g)
      BY <2>3, <3>1
    <3>3. u \in Int /\ m \in Int /\ b \in Int
      BY <1>1, <2>4
    <3> QED BY <2>4, <3>2, <3>3
  <2> QED BY <2>5
<1> DEFINE lowest == CHOOSE t \in Ids : \A u \in Ids : t <= u
<1>3. lowest \in Int /\ \A u \in Ids : lowest <= u
  BY <1>1, <1>2
<1>4. NextTempId = IF lowest - 1 \in DOMAIN locals THEN lowest - 1 - 1 ELSE lowest - 1
  BY DEF NextTempId
<1> HIDE DEF lowest
<1>5. lowest - 1 \notin Ids /\ lowest - 1 < 0
  BY <1>3
<1> QED BY <1>3, <1>4, <1>5

-----------------------------------------------------------------------------
(* The operators the actions are built from.                               *)

\* Adding or removing an entry keeps a store of local copies well formed.
LEMMA CopiesWith ==
  ASSUME NEW f, CopiesOK(f), NEW id \in Int, NEW copy \in Locals
  PROVE  CopiesOK(With(f, id, copy))
BY DEF CopiesOK, With

LEMMA CopiesWithout ==
  ASSUME NEW f, CopiesOK(f), NEW id
  PROVE  CopiesOK(Without(f, id))
BY DEF CopiesOK, Without

LEMMA BoundedWith ==
  ASSUME Bounded, CopiesOK(locals), NEW id \in Int, NEW copy,
         locals' = locals \/ locals' = With(locals, id, copy)
  PROVE  Bounded'
<1>1. PICK b \in Int : \A t \in DOMAIN locals : b <= t
  BY DEF Bounded
<1>2. CASE locals' = locals
  BY <1>1, <1>2 DEF Bounded
<1>3. CASE locals' = With(locals, id, copy)
  <2> DEFINE c == IF b <= id THEN b ELSE id
  <2>1. c \in Int /\ \A t \in DOMAIN locals' : c <= t
    BY <1>1, <1>3 DEF With, CopiesOK
  <2> QED BY <2>1 DEF Bounded
<1> QED BY <1>2, <1>3

\* The items the write paths build.
LEMMA ItemType ==
  ASSUME NEW kind \in Kinds, NEW o \in Nat, NEW k \in Int, NEW v \in Vals,
         NEW d \in BOOLEAN, NEW n \in Nat \ {0}
  PROVE  [Item(kind, o, k, v, d) EXCEPT !.seq = n] \in Items
<1>1. [Item(kind, o, k, v, d) EXCEPT !.seq = n] =
        [seq |-> n, kind |-> kind, obj |-> o, task |-> k, temp |-> 0,
         val |-> v, done |-> d, cid |-> 0, tries |-> 0]
  BY DEF Item
<1> QED BY <1>1 DEF Items

LEMMA CreateItemType ==
  ASSUME NEW kind \in Kinds, NEW o \in Nat, NEW k \in Int, NEW t \in Int, NEW v \in Vals,
         NEW d \in BOOLEAN, NEW n \in Nat \ {0}
  PROVE  [[Item(kind, o, k, v, d) EXCEPT !.temp = t] EXCEPT !.seq = n] \in Items
<1> DEFINE j == [seq |-> 0, kind |-> kind, obj |-> o, task |-> k, temp |-> t,
                 val |-> v, done |-> d, cid |-> 0, tries |-> 0]
<1>1. [Item(kind, o, k, v, d) EXCEPT !.temp = t] = j
  BY DEF Item
<1>2. [j EXCEPT !.seq = n] \in Items
  BY DEF Items
<1> QED BY <1>1, <1>2

\* The changes a replay makes to an item, none of which touches its number.
LEMMA ItemRetargeted ==
  ASSUME NEW i \in Items, NEW n \in Int
  PROVE  [i EXCEPT !.task = n] \in Items /\ [i EXCEPT !.task = n].seq = i.seq
BY DEF Items

LEMMA ItemRetried ==
  ASSUME NEW i \in Items
  PROVE  /\ [i EXCEPT !.tries = @ + 1] \in Items
         /\ [i EXCEPT !.tries = @ + 1].seq = i.seq
BY DEF Items

LEMMA WithCidType ==
  ASSUME NEW i \in Items, nextCid \in Nat
  PROVE  WithCid(i) \in Items /\ WithCid(i).seq = i.seq /\ WithCid(i).kind = i.kind
BY DEF WithCid, Items

\* A queued write gets the next number; the outbox grows by it and by nothing else.
LEMMA EnqueueType ==
  ASSUME outbox \subseteq Items, fate \in Seq(Fates), NEW i,
         \A n \in Nat \ {0} : [i EXCEPT !.seq = n] \in Items,
         Enqueue(i)
  PROVE  outbox' \subseteq Items /\ fate' \in Seq(Fates)
<1>1. Len(fate) \in Nat
  BY LenProperties
<1>2. fate' \in Seq(Fates)
  BY DEF Enqueue, Fates
<1> QED BY <1>1, <1>2 DEF Enqueue

\* What a request does to the rows leaves rows.
LEMMA AppliedType ==
  ASSUME rows \in Seq(Rows), NEW i \in Items, NEW k
  PROVE  Applied(i, k) \in Seq(Rows)
<1>1. NewRow(i) \in Rows
  BY DEF NewRow, Rows, Items
<1>2. CASE i.kind = "create"
  BY <1>1, <1>2 DEF Applied
<1>3. \A e : (k \in DOMAIN rows => e \in Rows) => [rows EXCEPT ![k] = e] \in Seq(Rows)
  BY OverwriteSeq
<1>4. k \in DOMAIN rows => rows[k] \in Rows
  BY PlaceOfSeq
<1>5. CASE i.kind = "patch"
  <2>1. k \in DOMAIN rows => [rows[k] EXCEPT !.val = i.val] \in Rows
    BY <1>4 DEF Rows, Items
  <2>2. Applied(i, k) = [rows EXCEPT ![k] = [rows[k] EXCEPT !.val = i.val]]
    BY <1>5 DEF Applied
  <2> QED BY <1>3, <2>1, <2>2
<1>6. CASE i.kind = "done"
  <2>1. k \in DOMAIN rows => [rows[k] EXCEPT !.done = i.done] \in Rows
    BY <1>4 DEF Rows, Items
  <2>2. Applied(i, k) = [rows EXCEPT ![k] = [rows[k] EXCEPT !.done = i.done]]
    BY <1>6 DEF Applied
  <2> QED BY <1>3, <2>1, <2>2
<1>7. CASE i.kind = "delete"
  <2>1. k \in DOMAIN rows => [rows[k] EXCEPT !.live = FALSE] \in Rows
    BY <1>4 DEF Rows
  <2>2. Applied(i, k) = [rows EXCEPT ![k] = [rows[k] EXCEPT !.live = FALSE]]
    BY <1>7 DEF Applied
  <2> QED BY <1>3, <2>1, <2>2
<1> QED BY <1>2, <1>5, <1>6, <1>7 DEF Items, Kinds

\* Settling a write is an overwrite that only a queued write feels.
LEMMA SettleType ==
  ASSUME fate \in Seq(Fates), NEW s, NEW f \in Fates, Settle(s, f)
  PROVE  /\ fate' \in Seq(Fates) /\ Len(fate') = Len(fate)
         /\ \A n \in DOMAIN fate : /\ fate'[n] = "queued" => fate[n] = "queued"
                                   /\ n = s => (f # "queued" => fate'[n] # "queued")
<1> DEFINE e == IF fate[s] = "queued" THEN f ELSE fate[s]
<1>1. fate' = [fate EXCEPT ![s] = e]
  BY DEF Settle
<1>2. s \in DOMAIN fate => e \in Fates
  BY PlaceOfSeq
<1>3. fate' \in Seq(Fates) /\ Len(fate') = Len(fate)
  BY <1>1, <1>2, OverwriteSeq
<1> QED BY <1>1, <1>3

-----------------------------------------------------------------------------
(* Every step keeps the types: one lemma per action.                       *)

LEMMA WantType ==
  ASSUME WorldOK
  PROVE  \A o \in DOMAIN want : want[o] \in Wants
BY PlaceOfSeq DEF WorldOK

LEMMA CreateTaskType ==
  ASSUME TypeInv, NEW r \in Run, NEW v \in Vals,
         NEW how \in {"answer", "lost", "unsent"}, CreateTask(r, v, how)
  PROVE  TypeInv'
<1> USE DEF TypeInv, TypeOK
<1> DEFINE o   == Len(want) + 1
           new == [Item("create", o, 0, v, FALSE) EXCEPT !.cid = nextCid]
<1>1. o \in Nat /\ NextTempId \in Int
  BY NextTempIdLemma, LenProperties DEF WorldOK
<1>2. NewRow(new) \in Rows
  BY <1>1 DEF NewRow, Item, Rows, WorldOK
<1>3. WorldOK'
  <2>1. want' \in Seq(Wants)
    BY DEF CreateTask, WorldOK, Wants
  <2>2. rows' \in Seq(Rows)
    BY <1>2 DEF CreateTask, WorldOK
  <2>3. writes' \in 0 .. MaxWrites /\ faults' \in 0 .. MaxFaults
    BY ConstantsAssumption DEF CreateTask, WorldOK, UserWrites, Charge, Outcomes
  <2> QED BY <2>1, <2>2, <2>3 DEF CreateTask, WorldOK
<1>4. StoresOK'
  <2>1. [step |-> "put", id |-> NextTempId, obj |-> o, val |-> v] \in Drafts
    BY <1>1 DEF Drafts
  <2> QED BY <2>1 DEF CreateTask, StoresOK, CopiesOK, stores
<1>5. CallsOK'
  BY DEF CreateTask, CallsOK, calls
<1>6. Bounded'
  BY DEF CreateTask, Bounded, stores
<1> QED BY <1>3, <1>4, <1>5, <1>6

LEMMA PutLocalType ==
  ASSUME TypeInv, NEW r \in Run, PutLocal(r)
  PROVE  TypeInv'
<1> USE DEF TypeInv, TypeOK
<1> DEFINE d    == drafts[r]
           copy == [obj |-> d.obj, val |-> d.val, done |-> FALSE]
<1>1. d \in Drafts
  BY DEF PutLocal, StoresOK
<1>2. d.id \in Int /\ copy \in Locals
  BY <1>1 DEF Drafts, Locals
<1>3. WorldOK'
  BY DEF PutLocal, WorldOK, ghosts
<1>4. StoresOK'
  <2>1. CopiesOK(locals')
    BY <1>2, CopiesWith DEF PutLocal, Keep, StoresOK
  <2>2. [d EXCEPT !.step = "enqueue"] \in Drafts
    BY <1>1 DEF Drafts
  <2> QED BY <2>1, <2>2 DEF PutLocal, StoresOK, CopiesOK
<1>5. CallsOK'
  BY DEF PutLocal, CallsOK, calls
<1>6. Bounded'
  BY <1>2, BoundedWith DEF PutLocal, Keep, StoresOK
<1> QED BY <1>3, <1>4, <1>5, <1>6

LEMMA EnqueueCreateType ==
  ASSUME TypeInv, NEW r \in Run, EnqueueCreate(r)
  PROVE  TypeInv'
<1> USE DEF TypeInv, TypeOK
<1> DEFINE d == drafts[r]
           i == [Item("create", d.obj, d.id, d.val, FALSE) EXCEPT !.temp = d.id]
<1>1. d \in Drafts
  BY DEF EnqueueCreate, StoresOK
<1>2. \A n \in Nat \ {0} : [i EXCEPT !.seq = n] \in Items
  BY <1>1, CreateItemType DEF Drafts, Kinds
<1>3. outbox' \subseteq Items /\ fate' \in Seq(Fates)
  BY <1>2, EnqueueType DEF EnqueueCreate, StoresOK, WorldOK
<1>4. WorldOK'
  BY <1>3 DEF EnqueueCreate, WorldOK
<1>5. StoresOK'
  BY <1>3 DEF EnqueueCreate, StoresOK, CopiesOK
<1>6. CallsOK' /\ Bounded'
  BY DEF EnqueueCreate, CallsOK, Bounded, calls
<1> QED BY <1>4, <1>5, <1>6

LEMMA WriteRowType ==
  ASSUME TypeInv, NEW tab \in Tabs, NEW k \in DOMAIN rows, NEW v \in Vals,
         NEW kind \in {"patch", "done", "delete"},
         NEW how \in {"answer", "lost", "unsent"}, WriteRow(tab, k, kind, v, how)
  PROVE  TypeInv'
<1> USE DEF TypeInv, TypeOK
<1> DEFINE o == rows[k].obj
           d == ~want[o].done
           i == Item(kind, o, k, v, d)
           direct == IF kind = "done" THEN Item("done", o, k, v, ~rows[k].done) ELSE i
<1>1. rows[k] \in Rows /\ k \in Int
  BY PlaceOfSeq, LenProperties DEF WorldOK
<1>2. o \in Nat /\ (~rows[k].done) \in BOOLEAN /\ d \in BOOLEAN
  BY <1>1 DEF Rows
<1>3. rows' \in Seq(Rows)
  <2>1. [direct EXCEPT !.seq = 1] \in Items
    <3>1. \A q \in Kinds, b \in BOOLEAN : [Item(q, o, k, v, b) EXCEPT !.seq = 1] \in Items
      <4>1. 1 \in Nat \ {0} OBVIOUS
      <4> QED BY <1>1, <1>2, <4>1, ItemType, Zenon
    <3>2. "done" \in Kinds /\ kind \in Kinds
      BY DEF Kinds
    <3>3. [Item("done", o, k, v, ~rows[k].done) EXCEPT !.seq = 1] \in Items
      BY <1>2, <3>1, <3>2, Zenon
    <3>4. [i EXCEPT !.seq = 1] \in Items
      BY <1>2, <3>1, <3>2, Zenon
    <3> QED BY <3>3, <3>4
  <2>2. Applied([direct EXCEPT !.seq = 1], k) \in Seq(Rows)
    BY <2>1, AppliedType DEF WorldOK
  <2>3. Applied([direct EXCEPT !.seq = 1], k) = Applied(direct, k)
    BY DEF Applied, Item
  <2> QED BY <2>2, <2>3 DEF WriteRow, WorldOK
<1>4. want' \in Seq(Wants)
  <2>1. o \in DOMAIN want => want[o] \in Wants
    BY PlaceOfSeq DEF WorldOK
  <2>2. \A e : (o \in DOMAIN want => e \in Wants) => [want EXCEPT ![o] = e] \in Seq(Wants)
    BY OverwriteSeq DEF WorldOK
  <2>3. CASE kind = "patch"
    <3>1. o \in DOMAIN want => [want[o] EXCEPT !.val = v] \in Wants
      BY <2>1 DEF Wants
    <3>2. want' = [want EXCEPT ![o] = [want[o] EXCEPT !.val = v]]
      BY <2>3 DEF WriteRow
    <3> QED BY <2>2, <3>1, <3>2
  <2>4. CASE kind = "done"
    <3>1. o \in DOMAIN want => [want[o] EXCEPT !.done = d] \in Wants
      BY <1>2, <2>1 DEF Wants
    <3>2. want' = [want EXCEPT ![o] = [want[o] EXCEPT !.done = d]]
      BY <2>4 DEF WriteRow
    <3> QED BY <2>2, <3>1, <3>2
  <2>5. CASE kind = "delete"
    <3>1. o \in DOMAIN want => [want[o] EXCEPT !.live = FALSE] \in Wants
      BY <2>1 DEF Wants
    <3>2. want' = [want EXCEPT ![o] = [want[o] EXCEPT !.live = FALSE]]
      BY <2>5 DEF WriteRow
    <3> QED BY <2>2, <3>1, <3>2
  <2> QED BY <2>3, <2>4, <2>5
<1>5. outbox' \subseteq Items /\ fate' \in Seq(Fates)
  <2>1. \A n \in Nat \ {0} : [i EXCEPT !.seq = n] \in Items
    BY <1>1, <1>2, ItemType DEF Kinds
  <2> QED BY <2>1, EnqueueType DEF WriteRow, StoresOK, WorldOK
<1>6. writes' \in 0 .. MaxWrites /\ faults' \in 0 .. MaxFaults
  BY ConstantsAssumption DEF WriteRow, WorldOK, UserWrites, Charge, Outcomes
<1>7. WorldOK'
  BY <1>3, <1>4, <1>5, <1>6 DEF WriteRow, WorldOK
<1>8. StoresOK'
  BY <1>5 DEF WriteRow, StoresOK, CopiesOK
<1>9. CallsOK' /\ Bounded'
  BY DEF WriteRow, CallsOK, Bounded, calls
<1> QED BY <1>7, <1>8, <1>9

LEMMA EditTempType ==
  ASSUME TypeInv, NEW tab \in Tabs, NEW id \in DOMAIN seen[tab], NEW v \in Vals,
         NEW d \in BOOLEAN, EditTemp(tab, id, v, d)
  PROVE  TypeInv'
<1> USE DEF TypeInv, TypeOK
<1> DEFINE copy == [seen[tab][id] EXCEPT !.val = v, !.done = d]
           o    == copy.obj
<1>1. id \in Int /\ seen[tab][id] \in Locals
  BY DEF StoresOK, CopiesOK
<1>2. copy \in Locals
  BY <1>1 DEF Locals
<1>3. WorldOK'
  <2>1. want' = [want EXCEPT ![o] = [want[o] EXCEPT !.val = v, !.done = d]]
    BY DEF EditTemp
  <2>2. o \in DOMAIN want => [want[o] EXCEPT !.val = v, !.done = d] \in Wants
    BY WantType DEF Wants, WorldOK
  <2>3. want' \in Seq(Wants)
    BY <2>1, <2>2, OverwriteSeq DEF WorldOK
  <2>4. writes' \in 0 .. MaxWrites
    BY ConstantsAssumption DEF EditTemp, WorldOK, UserWrites
  <2> QED BY <2>3, <2>4 DEF EditTemp, WorldOK
<1>4. CopiesOK(locals')
  BY <1>1, <1>2, CopiesWith DEF EditTemp, Keep, StoresOK
<1>5. StoresOK'
  BY <1>4 DEF EditTemp, StoresOK, CopiesOK, Refresh
<1>6. Bounded'
  BY <1>1, BoundedWith DEF EditTemp, Keep, StoresOK
<1>7. CallsOK'
  BY DEF EditTemp, CallsOK, calls
<1> QED BY <1>3, <1>5, <1>6, <1>7

LEMMA DeleteTempType ==
  ASSUME TypeInv, NEW tab \in Tabs, NEW id \in DOMAIN seen[tab], DeleteTemp(tab, id)
  PROVE  TypeInv'
<1> USE DEF TypeInv, TypeOK
<1> DEFINE o == seen[tab][id].obj
<1>1. WorldOK'
  <2>1. want' = [want EXCEPT ![o] = [want[o] EXCEPT !.live = FALSE]]
    BY DEF DeleteTemp
  <2>2. o \in DOMAIN want => [want[o] EXCEPT !.live = FALSE] \in Wants
    BY WantType DEF Wants, WorldOK
  <2>3. want' \in Seq(Wants)
    BY <2>1, <2>2, OverwriteSeq DEF WorldOK
  <2>4. writes' \in 0 .. MaxWrites
    BY ConstantsAssumption DEF DeleteTemp, WorldOK, UserWrites
  <2> QED BY <2>3, <2>4 DEF DeleteTemp, WorldOK
<1>2. CopiesOK(locals') /\ Bounded'
  BY CopiesWithout DEF DeleteTemp, StoresOK, Bounded, Without
<1>3. StoresOK'
  BY <1>2 DEF DeleteTemp, StoresOK, CopiesOK, Refresh
<1>4. CallsOK'
  BY DEF DeleteTemp, CallsOK, calls
<1> QED BY <1>1, <1>2, <1>3, <1>4

LEMMA OtherDeviceDeleteType ==
  ASSUME TypeInv, NEW k \in DOMAIN rows, OtherDeviceDelete(k)
  PROVE  TypeInv'
<1> USE DEF TypeInv, TypeOK
<1> DEFINE o == rows[k].obj
<1>1. want' \in Seq(Wants)
  <2>1. want' = [want EXCEPT ![o] = [want[o] EXCEPT !.live = FALSE]]
    BY DEF OtherDeviceDelete
  <2>2. o \in DOMAIN want => [want[o] EXCEPT !.live = FALSE] \in Wants
    BY WantType DEF Wants, WorldOK
  <2> QED BY <2>1, <2>2, OverwriteSeq DEF WorldOK
<1>2. rows' \in Seq(Rows)
  <2>1. rows' = [rows EXCEPT ![k] = [rows[k] EXCEPT !.live = FALSE]]
    BY DEF OtherDeviceDelete
  <2>2. rows[k] \in Rows
    BY PlaceOfSeq DEF WorldOK
  <2>3. [rows[k] EXCEPT !.live = FALSE] \in Rows
    BY <2>2 DEF Rows
  <2> QED BY <2>1, <2>3, OverwriteSeq DEF WorldOK
<1>3. WorldOK'
  <2>1. writes' \in 0 .. MaxWrites
    BY ConstantsAssumption DEF OtherDeviceDelete, WorldOK, UserWrites
  <2> QED BY <1>1, <1>2, <2>1 DEF OtherDeviceDelete, WorldOK
<1>4. StoresOK' /\ Bounded'
  BY DEF OtherDeviceDelete, StoresOK, Bounded, CopiesOK, stores
<1>5. CallsOK'
  BY DEF OtherDeviceDelete, CallsOK, calls
<1> QED BY <1>3, <1>4, <1>5

LEMMA StartSyncType ==
  ASSUME TypeInv, NEW r \in Run, StartSync(r)
  PROVE  TypeInv'
<1> USE DEF TypeInv, TypeOK, StartSync
<1>1. WorldOK' BY DEF WorldOK, ghosts
<1>2. StoresOK' /\ Bounded' BY DEF StoresOK, CopiesOK, Bounded, stores
<1>3. CallsOK' BY DEF CallsOK, Holding
<1> QED BY <1>1, <1>2, <1>3

LEMMA ReadSnapshotType ==
  ASSUME TypeInv, NEW r \in Run, ReadSnapshot(r)
  PROVE  TypeInv'
<1> USE DEF TypeInv, TypeOK, ReadSnapshot
<1>1. WorldOK' BY DEF WorldOK, ghosts
<1>2. StoresOK' /\ Bounded' BY DEF StoresOK, CopiesOK, Bounded, stores
<1>3. CallsOK'
  <2>1. todo' \in [Run -> SUBSET Items] BY DEF CallsOK, StoresOK
  <2>2. DOMAIN idMap' = Run /\ \A q \in Run : idMap'[q] = idMap[q] \/ idMap'[q] = <<>>
    BY DEF CallsOK
  <2>3. DOMAIN <<>> = {} OBVIOUS
  <2>4. \A q \in Run : /\ DOMAIN idMap'[q] \subseteq Int
                       /\ \A t \in DOMAIN idMap'[q] : idMap'[q][t] \in Nat
    BY <2>2, <2>3 DEF CallsOK
  <2>5. replaying' \in [Tabs -> BOOLEAN] BY DEF CallsOK
  <2>6. pc' \in [Run -> Active \union {"idle", "read", "finish", "refresh"}]
    BY DEF CallsOK, Active
  <2>7. \A q \in Run : pc'[q] \in Holding => cur'[q] \in Items
    BY DEF CallsOK, Holding
  <2> QED BY <2>1, <2>2, <2>4, <2>5, <2>6, <2>7 DEF CallsOK
<1> QED BY <1>1, <1>2, <1>3

\* What the beginning of an attempt leaves well formed, whatever its outcome.
LEMMA BeginType ==
  ASSUME TypeInv, NEW r \in Run, NEW i \in todo[r], Begin(r, i)
  PROVE  /\ i \in Items /\ WithCid(i) \in Items
         /\ nextCid' \in Nat /\ net' = net /\ writes' = writes
         /\ StoresOK' /\ Bounded'
         /\ replaying' = replaying /\ todo' = todo /\ idMap' = idMap
         /\ affected' = affected /\ cur' = [cur EXCEPT ![r] = WithCid(i)]
<1> USE DEF TypeInv, TypeOK, Begin
<1>1. i \in Items
  BY DEF CallsOK
<1>2. WithCid(i) \in Items
  BY <1>1, WithCidType DEF WorldOK
<1>3. nextCid' \in Nat
  BY DEF WorldOK
<1>4. StoresOK' /\ Bounded'
  BY DEF StoresOK, CopiesOK, Bounded, stores
<1> QED BY <1>1, <1>2, <1>3, <1>4

\* ... and the call that made it, when it is left with an item in hand.
LEMMA AttemptType ==
  ASSUME TypeInv, NEW r \in Run, NEW i \in todo[r], Begin(r, i),
         NEW p \in Active \union {"finish"}, pc' = [pc EXCEPT ![r] = p],
         NEW n \in Nat, res' = res \/ res' = [res EXCEPT ![r] = n]
  PROVE  CallsOK'
<1> USE DEF TypeInv, TypeOK
<1>1. /\ WithCid(i) \in Items
      /\ replaying' = replaying /\ todo' = todo /\ idMap' = idMap
      /\ affected' = affected /\ cur' = [cur EXCEPT ![r] = WithCid(i)]
  BY BeginType
<1>2. cur' \in [Run -> Items \union {NoItem}]
  BY <1>1 DEF CallsOK
<1>3. \A q \in Run : pc'[q] \in Holding => cur'[q] \in Items
  BY <1>1 DEF CallsOK
<1>4. pc' \in [Run -> Active \union {"idle", "read", "finish", "refresh"}]
  BY DEF CallsOK
<1>5. res' \in [Run -> Nat]
  BY DEF CallsOK
<1> QED BY <1>1, <1>2, <1>3, <1>4, <1>5 DEF CallsOK

LEMMA ReachesType ==
  ASSUME TypeInv, NEW r \in Run, NEW i \in todo[r], Begin(r, i), Reaches(r, i)
  PROVE  rows' \in Seq(Rows) /\ lastReached' \in Nat
<1>1. i \in Items /\ WithCid(i) \in Items
  BY BeginType
<1>2. rows' \in Seq(Rows)
  BY <1>1, AppliedType DEF Reaches, TypeInv, TypeOK, WorldOK
<1>3. lastReached' \in Nat
  BY <1>1 DEF Reaches, Items
<1> QED BY <1>2, <1>3

LEMMA SendOkType ==
  ASSUME TypeInv, NEW r \in Run, NEW i \in todo[r], NEW body \in BOOLEAN,
         SendOk(r, i, body)
  PROVE  TypeInv'
<1>1. Begin(r, i) /\ Reaches(r, i) /\ Settle(i.seq, "delivered")
  BY DEF SendOk
<1>2. fate' \in Seq(Fates)
  BY <1>1, SettleType DEF Fates, TypeInv, TypeOK, WorldOK
<1>3. faults' \in 0 .. MaxFaults
  BY ConstantsAssumption DEF SendOk, TypeInv, TypeOK, WorldOK
<1>4. WorldOK'
  BY <1>1, <1>2, <1>3, BeginType, ReachesType DEF SendOk, TypeInv, TypeOK, WorldOK
<1>5. CreatedRow(WithCid(i)) \in Nat
  <2>1. rows \in Seq(Rows)
    BY DEF TypeInv, TypeOK, WorldOK
  <2>2. Earlier(WithCid(i).cid) \subseteq Nat /\ Len(rows) \in Nat
    BY <2>1, LenProperties DEF Earlier
  <2> QED BY <2>2 DEF CreatedRow
<1>6. CallsOK'
  <2>1. PICK p \in Active : pc' = [pc EXCEPT ![r] = p]
    BY DEF SendOk, Active
  <2>2. PICK n \in Nat : res' = [res EXCEPT ![r] = n]
    BY <1>5 DEF SendOk
  <2> QED BY <1>1, <2>1, <2>2, AttemptType
<1> QED BY <1>1, <1>4, <1>6, BeginType DEF TypeInv, TypeOK

LEMMA SendRejectedType ==
  ASSUME TypeInv, NEW r \in Run, NEW i \in todo[r], SendRejected(r, i)
  PROVE  TypeInv'
<1>1. Begin(r, i) /\ Settle(i.seq, "rejected")
  BY DEF SendRejected
<1>2. fate' \in Seq(Fates)
  BY <1>1, SettleType DEF Fates, TypeInv, TypeOK, WorldOK
<1>3. want' \in Seq(Wants)
  <2> DEFINE o == i.obj
  <2>1. want' = want \/ want' = [want EXCEPT ![o] = [want[o] EXCEPT !.live = FALSE]]
    BY DEF SendRejected
  <2>2. o \in DOMAIN want => [want[o] EXCEPT !.live = FALSE] \in Wants
    BY WantType DEF Wants, TypeInv, TypeOK
  <2> QED BY <2>1, <2>2, OverwriteSeq DEF TypeInv, TypeOK, WorldOK
<1>4. WorldOK'
  BY <1>1, <1>2, <1>3, BeginType DEF SendRejected, TypeInv, TypeOK, WorldOK
<1>5. CallsOK'
  <2>1. PICK p \in Active : pc' = [pc EXCEPT ![r] = p]
    BY DEF SendRejected, Active
  <2>2. res' = [res EXCEPT ![r] = 0]
    BY DEF SendRejected
  <2> QED BY <1>1, <2>1, <2>2, AttemptType
<1> QED BY <1>1, <1>4, <1>5, BeginType DEF TypeInv, TypeOK

LEMMA SendFailedType ==
  ASSUME TypeInv, NEW r \in Run, NEW i \in todo[r], NEW how \in {"lost", "unsent"},
         SendFailed(r, i, how)
  PROVE  TypeInv'
<1>1. Begin(r, i) /\ Charge(how) /\ how \in Outcomes
  BY DEF SendFailed
<1>2. fate' \in Seq(Fates)
  BY SettleType DEF SendFailed, Fates, TypeInv, TypeOK, WorldOK
<1>3. faults' \in 0 .. MaxFaults
  BY <1>1, ConstantsAssumption DEF Charge, Outcomes, TypeInv, TypeOK, WorldOK
<1>4. rows' \in Seq(Rows) /\ lastReached' \in Nat
  BY <1>1, ReachesType DEF SendFailed, TypeInv, TypeOK, WorldOK
<1>5. WorldOK'
  BY <1>1, <1>2, <1>3, <1>4, BeginType DEF SendFailed, TypeInv, TypeOK, WorldOK
<1>6. CallsOK'
  <2>1. PICK p \in Active : pc' = [pc EXCEPT ![r] = p]
    BY DEF SendFailed, Active
  <2>2. res' = [res EXCEPT ![r] = 0]
    BY DEF SendFailed
  <2> QED BY <1>1, <2>1, <2>2, AttemptType
<1> QED BY <1>1, <1>5, <1>6, BeginType DEF TypeInv, TypeOK

LEMMA SendUnauthorizedType ==
  ASSUME TypeInv, NEW r \in Run, NEW i \in todo[r], SendUnauthorized(r, i)
  PROVE  TypeInv'
<1>1. Begin(r, i)
  BY DEF SendUnauthorized
<1>2. faults' \in 0 .. MaxFaults
  BY ConstantsAssumption DEF SendUnauthorized, TypeInv, TypeOK, WorldOK
<1>3. WorldOK'
  BY <1>1, <1>2, BeginType DEF SendUnauthorized, TypeInv, TypeOK, WorldOK, ghosts
<1>4. CallsOK'
  <2>1. pc' = [pc EXCEPT ![r] = "finish"] /\ res' = res
    BY DEF SendUnauthorized
  <2> QED BY <1>1, <2>1, AttemptType
<1> QED BY <1>1, <1>3, <1>4, BeginType DEF TypeInv, TypeOK

LEMMA DropLocalType ==
  ASSUME TypeInv, NEW r \in Run, DropLocal(r)
  PROVE  TypeInv'
<1> USE DEF TypeInv, TypeOK
<1>1. cur[r] \in Items
  BY DEF DropLocal, CallsOK, Holding
<1>2. WorldOK'
  BY DEF DropLocal, WorldOK, ghosts
<1>3. StoresOK' /\ Bounded'
  <2>1. CopiesOK(locals') /\ Bounded'
    BY CopiesWithout DEF DropLocal, StoresOK, Bounded, Without
  <2> QED BY <2>1 DEF DropLocal, StoresOK, CopiesOK
<1>4. DOMAIN idMap' = Run
  BY DEF DropLocal, CallsOK
<1>5. ASSUME NEW q \in Run
      PROVE  /\ DOMAIN idMap'[q] \subseteq Int
             /\ \A t \in DOMAIN idMap'[q] : idMap'[q][t] \in Nat
  <2>1. \/ idMap'[q] = idMap[q]
        \/ idMap'[q] = With(idMap[q], cur[r].task, res[r])
    BY DEF DropLocal, CallsOK
  <2>2. cur[r].task \in Int /\ res[r] \in Nat
    BY <1>1 DEF Items, CallsOK
  <2> QED BY <2>1, <2>2 DEF With, CallsOK
<1>6. CallsOK'
  BY <1>1, <1>4, <1>5 DEF DropLocal, CallsOK, Holding, Active
<1> QED BY <1>2, <1>3, <1>6

LEMMA RetargetType ==
  ASSUME TypeInv, NEW r \in Run, Retarget(r)
  PROVE  TypeInv'
<1> USE DEF TypeInv, TypeOK
<1>1. WorldOK'
  BY DEF Retarget, WorldOK, ghosts
<1>2. StoresOK' /\ Bounded'
  BY DEF Retarget, StoresOK, CopiesOK, Bounded, stores
<1>3. CallsOK'
  <2>1. affected' \in [Run -> SUBSET Items]
    BY DEF Retarget, StoresOK, CallsOK
  <2> QED BY <2>1 DEF Retarget, CallsOK, Holding, Active
<1> QED BY <1>1, <1>2, <1>3

LEMMA RewriteType ==
  ASSUME TypeInv, NEW r \in Run, Rewrite(r)
  PROVE  TypeInv'
<1> USE DEF TypeInv, TypeOK
<1>1. WorldOK'
  BY DEF Rewrite, WorldOK, ghosts
<1>2. outbox' \subseteq Items
  <2>1. res[r] \in Int /\ affected[r] \subseteq Items
    BY DEF CallsOK
  <2>2. \A j \in affected[r] : [j EXCEPT !.task = res[r]] \in Items
    BY <2>1, ItemRetargeted
  <2> QED BY <2>2 DEF Rewrite, StoresOK
<1>3. StoresOK' /\ Bounded'
  BY <1>2 DEF Rewrite, StoresOK, CopiesOK, Bounded
<1>4. CallsOK'
  BY DEF Rewrite, CallsOK, Holding, Active
<1> QED BY <1>1, <1>3, <1>4

LEMMA RemoveType ==
  ASSUME TypeInv, NEW r \in Run, Remove(r)
  PROVE  TypeInv'
<1> USE DEF TypeInv, TypeOK
<1>1. WorldOK'
  BY DEF Remove, WorldOK, ghosts
<1>2. StoresOK' /\ Bounded'
  BY DEF Remove, StoresOK, CopiesOK, Bounded
<1>3. CallsOK'
  BY DEF Remove, CallsOK, Holding, Active
<1> QED BY <1>1, <1>2, <1>3

LEMMA PutBackType ==
  ASSUME TypeInv, NEW r \in Run, PutBack(r)
  PROVE  TypeInv'
<1> USE DEF TypeInv, TypeOK
<1>1. WorldOK'
  BY DEF PutBack, WorldOK, ghosts
<1>2. [cur[r] EXCEPT !.tries = @ + 1] \in Items
  <2>1. cur[r] \in Items
    BY DEF PutBack, CallsOK, Holding
  <2> QED BY <2>1, ItemRetried
<1>3. StoresOK' /\ Bounded'
  BY <1>2 DEF PutBack, StoresOK, CopiesOK, Bounded
<1>4. CallsOK'
  BY DEF PutBack, CallsOK, Holding, Active
<1> QED BY <1>1, <1>3, <1>4

LEMMA FinishType ==
  ASSUME TypeInv, NEW r \in Run, Finish(r)
  PROVE  TypeInv'
<1> USE DEF TypeInv, TypeOK
<1>1. WorldOK'
  BY DEF Finish, WorldOK, ghosts
<1>2. StoresOK' /\ Bounded'
  BY DEF Finish, StoresOK, CopiesOK, Bounded, stores
<1>3. CallsOK'
  <2>1. DOMAIN <<>> = {}
    OBVIOUS
  <2>2. \A q \in Run : /\ DOMAIN idMap'[q] \subseteq Int
                       /\ \A t \in DOMAIN idMap'[q] : idMap'[q][t] \in Nat
    BY <2>1 DEF Finish, CallsOK
  <2>3. replaying' \in [Tabs -> BOOLEAN] /\ DOMAIN idMap' = Run
    BY DEF Finish, CallsOK
  <2>4. todo' \in [Run -> SUBSET Items] /\ cur' \in [Run -> Items \union {NoItem}]
    BY DEF Finish, CallsOK
  <2>5. \A q \in Run : pc'[q] \in Holding => cur'[q] \in Items
    BY DEF Finish, CallsOK, Holding
  <2>6. /\ affected' \in [Run -> SUBSET Items] /\ res' \in [Run -> Nat]
        /\ pc' \in [Run -> Active \union {"idle", "read", "finish", "refresh"}]
    BY DEF Finish, CallsOK
  <2> QED BY <2>2, <2>3, <2>4, <2>5, <2>6 DEF CallsOK
<1> QED BY <1>1, <1>2, <1>3

LEMMA RefreshPageType ==
  ASSUME TypeInv, NEW r \in Run, RefreshPage(r)
  PROVE  TypeInv'
<1> USE DEF TypeInv, TypeOK
<1>1. WorldOK'
  BY DEF RefreshPage, WorldOK, ghosts
<1>2. StoresOK' /\ Bounded'
  BY DEF RefreshPage, StoresOK, CopiesOK, Bounded
<1>3. CallsOK'
  BY DEF RefreshPage, CallsOK, Holding
<1> QED BY <1>1, <1>2, <1>3

LEMMA ClosePageType ==
  ASSUME TypeInv, NEW tab \in Tabs, ClosePage(tab)
  PROVE  TypeInv'
<1> USE DEF TypeInv, TypeOK
<1>1. WorldOK'
  BY ConstantsAssumption DEF ClosePage, WorldOK, ghosts
<1>2. StoresOK' /\ Bounded'
  BY DEF ClosePage, StoresOK, CopiesOK, Bounded
<1>3. CallsOK'
  <2>1. DOMAIN <<>> = {}
    OBVIOUS
  <2>2. \A q \in Run : /\ DOMAIN idMap'[q] \subseteq Int
                       /\ \A t \in DOMAIN idMap'[q] : idMap'[q][t] \in Nat
    BY <2>1 DEF ClosePage, CallsOK
  <2>3. replaying' \in [Tabs -> BOOLEAN] /\ DOMAIN idMap' = Run
    BY DEF ClosePage, CallsOK
  <2>4. todo' \in [Run -> SUBSET Items] /\ cur' \in [Run -> Items \union {NoItem}]
    BY DEF ClosePage, CallsOK
  <2>5. \A q \in Run : pc'[q] \in Holding => cur'[q] \in Items
    BY DEF ClosePage, CallsOK, Holding
  <2>6. /\ affected' \in [Run -> SUBSET Items] /\ res' \in [Run -> Nat]
        /\ pc' \in [Run -> Active \union {"idle", "read", "finish", "refresh"}]
    BY DEF ClosePage, CallsOK
  <2> QED BY <2>2, <2>3, <2>4, <2>5, <2>6 DEF CallsOK
<1> QED BY <1>1, <1>2, <1>3

LEMMA NetworkType ==
  ASSUME TypeInv, GoUp \/ \E how \in {"off", "dead"} : GoDown(how)
  PROVE  TypeInv'
<1> USE DEF TypeInv, TypeOK
<1>1. WorldOK'
  BY ConstantsAssumption DEF GoUp, GoDown, WorldOK, ghosts
<1>2. StoresOK' /\ Bounded'
  BY DEF GoUp, GoDown, StoresOK, CopiesOK, Bounded, stores
<1>3. CallsOK'
  BY DEF GoUp, GoDown, CallsOK, calls
<1> QED BY <1>1, <1>2, <1>3

LEMMA InitType == Init => TypeInv
<1> SUFFICES ASSUME Init PROVE TypeInv
  OBVIOUS
<1> USE DEF Init
<1>1. DOMAIN <<>> = {}
  OBVIOUS
<1>2. WorldOK
  <2>1. rows \in Seq(Rows) /\ want \in Seq(Wants)
    BY ConstantsAssumption DEF Rows, Wants
  <2>2. fate \in Seq(Fates)
    BY EmptySeq
  <2> QED BY <2>1, <2>2, ConstantsAssumption DEF WorldOK
<1>3. StoresOK
  BY <1>1 DEF StoresOK, CopiesOK
<1>4. CallsOK
  BY <1>1 DEF CallsOK, Holding
<1>5. Bounded
  BY <1>1 DEF Bounded
<1> QED BY <1>2, <1>3, <1>4, <1>5 DEF TypeInv, TypeOK

LEMMA StepType == TypeInv /\ [Next]_vars => TypeInv'
<1> SUFFICES ASSUME TypeInv, [Next]_vars PROVE TypeInv'
  OBVIOUS
<1>1. CASE Write
  <2>1. ASSUME NEW r \in Run, NEW v \in Vals, NEW how \in {"answer", "lost", "unsent"},
               CreateTask(r, v, how)
        PROVE  TypeInv'
    BY <2>1, CreateTaskType
  <2>2. ASSUME NEW tab \in Tabs, NEW k \in DOMAIN rows, NEW v \in Vals,
               NEW kind \in {"patch", "done", "delete"},
               NEW how \in {"answer", "lost", "unsent"}, WriteRow(tab, k, kind, v, how)
        PROVE  TypeInv'
    BY <2>2, WriteRowType
  <2>3. ASSUME NEW tab \in Tabs, NEW id \in DOMAIN seen[tab], NEW v \in Vals,
               NEW d \in BOOLEAN, EditTemp(tab, id, v, d)
        PROVE  TypeInv'
    BY <2>3, EditTempType
  <2>4. ASSUME NEW tab \in Tabs, NEW id \in DOMAIN seen[tab], DeleteTemp(tab, id)
        PROVE  TypeInv'
    BY <2>4, DeleteTempType
  <2>5. ASSUME NEW k \in DOMAIN rows, OtherDeviceDelete(k) PROVE TypeInv'
    BY <2>5, OtherDeviceDeleteType
  <2> QED BY <1>1, <2>1, <2>2, <2>3, <2>4, <2>5, ZenonT(60) DEF Write
<1>2. CASE Environment
  BY <1>2, ClosePageType, NetworkType DEF Environment
<1>3. ASSUME NEW r \in Run, SyncStep(r) PROVE TypeInv'
  <2>1. CASE SendStep(r)
    BY <2>1, SendOkType, SendRejectedType, SendFailedType, SendUnauthorizedType DEF SendStep
  <2> QED BY <1>3, <2>1, StartSyncType, ReadSnapshotType, DropLocalType, RetargetType,
             RewriteType, RemoveType, PutBackType, FinishType, RefreshPageType DEF SyncStep
<1>4. ASSUME NEW r \in Run, DraftStep(r) PROVE TypeInv'
  BY <1>4, PutLocalType, EnqueueCreateType DEF DraftStep
<1>5. CASE UNCHANGED vars
  BY <1>5 DEF vars, TypeInv, TypeOK, WorldOK, StoresOK, CallsOK, CopiesOK, Bounded
<1> QED BY <1>1, <1>2, <1>3, <1>4, <1>5 DEF Next

\* Types are an invariant: what the stores, pages and calls hold is always what
\* their code puts there (offline.ts OutboxItem, LocalTask; AppStore.tsx localTasks).
THEOREM TypeCorrect == Spec => []TypeOK
<1>1. TypeInv => TypeOK
  BY DEF TypeInv
<1> QED BY <1>1, InitType, StepType, PTL DEF Spec

-----------------------------------------------------------------------------
(* The queue is kept, and served in order.  NothingForgotten and           *)
(* NoOvertaking are not inductive: that a round removes only what is       *)
(* settled, and that its snapshot is complete below each of its items,     *)
(* have to be carried along.                                               *)

\* Numbers in use have been given out.
Numbered ==
  /\ \A i \in outbox : i.seq \in DOMAIN fate
  /\ \A r \in Run : \A i \in todo[r] \union affected[r] : i.seq \in DOMAIN fate
  /\ \A r \in Run : pc[r] \in Holding => cur[r].seq \in DOMAIN fate
  /\ lastReached <= Len(fate)

\* What a round is about to remove is not waiting any more.
RemovesSettled ==
  \A r \in Run : pc[r] \in {"drop", "retarget", "rewrite", "remove"} => fate[cur[r].seq] # "queued"

\* Whatever waits in front of an item of a round's snapshot is in the snapshot.
CompleteBelow ==
  \A r \in Run : pc[r] \in Active =>
    \A i \in todo[r], s \in DOMAIN fate :
      s < i.seq /\ fate[s] = "queued" => \E j \in todo[r] : j.seq = s

Queue ==
  Numbered /\ NothingForgotten /\ RemovesSettled /\ CompleteBelow /\ NoOvertaking

IInv == TypeInv /\ Queue

\* The numbers of the queue are the places of fate.
LEMMA Places ==
  ASSUME TypeInv
  PROVE  DOMAIN fate = 1 .. Len(fate) /\ Len(fate) \in Nat
BY LenProperties DEF TypeInv, TypeOK, WorldOK

LEMMA QueueUntouched ==
  ASSUME Queue, UNCHANGED <<outbox, todo, cur, pc, affected, fate, lastReached>>
  PROVE  Queue'
BY DEF Queue, Numbered, NothingForgotten, RemovesSettled, CompleteBelow, NoOvertaking, IsFront

\* A write that is queued goes behind everything.
LEMMA EnqueueQueue ==
  ASSUME HasStorage, IInv, NEW k, "seq" \in DOMAIN k, Enqueue(k),
         UNCHANGED <<todo, cur, pc, affected, lastReached>>
  PROVE  Queue'
<1>1. /\ fate \in Seq(Fates) /\ DOMAIN fate = 1 .. Len(fate) /\ Len(fate) \in Nat
      /\ lastReached \in Nat
  BY Places DEF IInv, TypeInv, TypeOK, WorldOK
<1> PICK n \in Nat : n = Len(fate) + 1
  BY <1>1
<1>2. /\ DOMAIN fate' = 1 .. n
      /\ \A s \in DOMAIN fate : fate'[s] = fate[s]
      /\ Len(fate') = n
  BY <1>1 DEF Enqueue
<1>3. PICK e : outbox' = outbox \union {e} /\ e.seq = n
  <2>1. outbox' = outbox \union {[k EXCEPT !.seq = n]}
    BY DEF Enqueue
  <2>2. [k EXCEPT !.seq = n].seq = n
    OBVIOUS
  <2> QED BY <2>1, <2>2
<1>5. Numbered'
  BY <1>1, <1>2, <1>3 DEF IInv, Queue, Numbered, Holding
<1>6. NothingForgotten'
  BY <1>1, <1>2, <1>3 DEF IInv, Queue, NothingForgotten
<1>7. RemovesSettled'
  BY <1>2 DEF IInv, Queue, RemovesSettled, Numbered, Holding
<1>8. CompleteBelow'
  BY <1>1, <1>2 DEF IInv, Queue, CompleteBelow, Numbered
<1>9. NoOvertaking'
  BY <1>1, <1>2 DEF IInv, Queue, NoOvertaking, Numbered
<1> QED BY <1>5, <1>6, <1>7, <1>8, <1>9 DEF Queue

\* An attempt: nothing but the fate of the front item changes.
LEMMA AttemptQueue ==
  ASSUME IInv, NEW r \in Run, NEW i \in todo[r], Begin(r, i),
         NEW p \in Active \union {"finish"}, pc' = [pc EXCEPT ![r] = p],
         fate' \in Seq(Fates), Len(fate') = Len(fate),
         \A s \in DOMAIN fate : fate'[s] = "queued" => fate[s] = "queued",
         p \in {"drop", "retarget", "rewrite", "remove"} => fate'[i.seq] # "queued",
         lastReached' = lastReached \/ lastReached' = i.seq
  PROVE  Queue'
<1>1. /\ DOMAIN fate = 1 .. Len(fate) /\ Len(fate) \in Nat
      /\ DOMAIN fate' = DOMAIN fate
  BY Places, LenProperties DEF IInv
<1>2. /\ i.seq \in DOMAIN fate /\ WithCid(i).seq = i.seq
      /\ outbox' = outbox /\ todo' = todo /\ cur' = [cur EXCEPT ![r] = WithCid(i)]
      /\ affected' = affected /\ pc[r] = "send"
  <2>1. i \in Items /\ nextCid \in Nat
    BY DEF IInv, TypeInv, TypeOK, CallsOK, WorldOK
  <2>2. WithCid(i).seq = i.seq
    BY <2>1, WithCidType
  <2> QED BY <2>2 DEF Begin, IInv, Queue, Numbered, stores
<1>3. \A q \in Run : /\ q # r => pc'[q] = pc[q] /\ cur'[q] = cur[q]
                     /\ pc'[r] = p /\ cur'[r] = WithCid(i)
  BY <1>2 DEF IInv, TypeInv, TypeOK, CallsOK
<1>4. Numbered'
  BY <1>1, <1>2, <1>3 DEF IInv, Queue, Numbered
<1>5. NothingForgotten'
  BY <1>1, <1>2 DEF IInv, Queue, NothingForgotten
<1>6. RemovesSettled'
  <2> SUFFICES ASSUME NEW q \in Run, pc'[q] \in {"drop", "retarget", "rewrite", "remove"}
               PROVE  fate'[cur'[q].seq] # "queued"
    BY DEF RemovesSettled
  <2>1. CASE q = r
    BY <1>2, <1>3, <2>1
  <2>2. CASE q # r
    BY <1>1, <1>3, <2>2 DEF IInv, Queue, RemovesSettled, Numbered, Holding
  <2> QED BY <2>1, <2>2
<1>7. CompleteBelow'
  BY <1>1, <1>2, <1>3 DEF IInv, Queue, CompleteBelow, Active
<1>8. NoOvertaking'
  <2>1. \A s \in DOMAIN fate : s < i.seq => fate[s] # "queued"
    <3> SUFFICES ASSUME NEW s \in DOMAIN fate, s < i.seq, fate[s] = "queued" PROVE FALSE
      OBVIOUS
    <3>1. PICK j \in todo[r] : j.seq = s
      BY <1>2 DEF IInv, Queue, CompleteBelow, Active
    <3>2. i.seq <= j.seq
      BY DEF Begin, IsFront
    <3> QED BY <1>1, <1>2, <3>1, <3>2
  <2> QED BY <1>1, <2>1 DEF IInv, Queue, NoOvertaking
<1> QED BY <1>4, <1>5, <1>6, <1>7, <1>8 DEF Queue

LEMMA SendQueue ==
  ASSUME IInv, NEW r \in Run, SendStep(r)
  PROVE  Queue'
<1>0. fate \in Seq(Fates) /\ Len(fate) \in Nat /\ DOMAIN fate = 1 .. Len(fate)
  BY Places DEF IInv, TypeInv, TypeOK, WorldOK
<1> PICK i \in todo[r] :
       \/ \E body \in BOOLEAN : SendOk(r, i, body)
       \/ SendRejected(r, i)
       \/ \E how \in {"lost", "unsent"} : SendFailed(r, i, how)
       \/ SendUnauthorized(r, i)
  BY DEF SendStep
<1>1. i.seq \in DOMAIN fate
  BY DEF IInv, Queue, Numbered
<1>2. ASSUME NEW f \in {"delivered", "rejected", "exhausted"}, Settle(i.seq, f)
      PROVE  /\ fate' \in Seq(Fates) /\ Len(fate') = Len(fate)
             /\ \A s \in DOMAIN fate : fate'[s] = "queued" => fate[s] = "queued"
             /\ fate'[i.seq] # "queued"
  BY <1>0, <1>1, <1>2, SettleType DEF Fates
<1>3. ASSUME NEW body \in BOOLEAN, SendOk(r, i, body) PROVE Queue'
  <2>1. PICK p \in Active : pc' = [pc EXCEPT ![r] = p]
    BY <1>3 DEF SendOk, Active
  <2> QED BY <1>2, <1>3, <2>1, AttemptQueue DEF SendOk, Reaches
<1>4. CASE SendRejected(r, i)
  <2>1. PICK p \in Active : pc' = [pc EXCEPT ![r] = p]
    BY <1>4 DEF SendRejected, Active
  <2> QED BY <1>2, <1>4, <2>1, AttemptQueue DEF SendRejected
<1>5. ASSUME NEW how \in {"lost", "unsent"}, SendFailed(r, i, how) PROVE Queue'
  <2>1. lastReached' = lastReached \/ lastReached' = i.seq
    BY <1>5 DEF SendFailed, Reaches
  <2>2. CASE LastTry(i)
    <3>1. PICK p \in Active : pc' = [pc EXCEPT ![r] = p]
      BY <1>5, <2>2 DEF SendFailed, Active
    <3> QED BY <1>2, <1>5, <2>1, <2>2, <3>1, AttemptQueue DEF SendFailed
  <2>3. CASE ~LastTry(i)
    <3>1. pc' = [pc EXCEPT ![r] = "put"] /\ fate' = fate /\ Begin(r, i)
      BY <1>5, <2>3 DEF SendFailed
    <3>2. "put" \in Active
      BY DEF Active
    <3> QED BY <1>0, <2>1, <3>1, <3>2, AttemptQueue
  <2> QED BY <2>2, <2>3
<1>6. CASE SendUnauthorized(r, i)
  <2>1. /\ pc' = [pc EXCEPT ![r] = "finish"] /\ fate' = fate /\ lastReached' = lastReached
        /\ Begin(r, i)
    BY <1>6 DEF SendUnauthorized, ghosts
  <2> QED BY <1>0, <2>1, AttemptQueue
<1> QED BY <1>3, <1>4, <1>5, <1>6

LEMMA ReadSnapshotQueue ==
  ASSUME IInv, NEW r \in Run, ReadSnapshot(r)
  PROVE  Queue'
<1> USE DEF IInv, Queue
<1>1. /\ UNCHANGED <<outbox, cur, affected, fate, lastReached>>
      /\ \A q \in Run : q # r => pc'[q] = pc[q] /\ todo'[q] = todo[q]
      /\ pc'[r] \in {"refresh", "send"} /\ todo'[r] = outbox
  BY DEF ReadSnapshot, stores, ghosts, TypeInv, TypeOK, CallsOK
<1>2. Numbered'
  BY <1>1 DEF Numbered, Holding
<1>3. NothingForgotten' /\ NoOvertaking'
  BY <1>1 DEF NothingForgotten, NoOvertaking
<1>4. RemovesSettled'
  BY <1>1 DEF RemovesSettled
<1>5. CompleteBelow'
  BY <1>1 DEF CompleteBelow, NothingForgotten
<1> QED BY <1>2, <1>3, <1>4, <1>5

LEMMA RetargetQueue ==
  ASSUME IInv, NEW r \in Run, Retarget(r)
  PROVE  Queue'
<1> USE DEF IInv, Queue
<1>1. /\ UNCHANGED <<outbox, todo, cur, fate, lastReached>>
      /\ \A q \in Run : q # r => pc'[q] = pc[q] /\ affected'[q] = affected[q]
      /\ pc[r] = "retarget" /\ pc'[r] \in {"rewrite", "remove"}
      /\ affected'[r] \subseteq outbox
  BY DEF Retarget, stores, ghosts, TypeInv, TypeOK, CallsOK
<1>2. Numbered'
  BY <1>1 DEF Numbered, Holding
<1>3. NothingForgotten' /\ NoOvertaking'
  BY <1>1 DEF NothingForgotten, NoOvertaking
<1>4. RemovesSettled'
  BY <1>1 DEF RemovesSettled
<1>5. CompleteBelow'
  BY <1>1 DEF CompleteBelow, Active
<1> QED BY <1>2, <1>3, <1>4, <1>5

\* Writing back may bring back an item that is settled; it takes no number away.
LEMMA RewriteQueue ==
  ASSUME IInv, NEW r \in Run, Rewrite(r)
  PROVE  Queue'
<1> USE DEF IInv, Queue
<1>1. /\ UNCHANGED <<todo, cur, fate, lastReached>>
      /\ \A q \in Run : q # r => pc'[q] = pc[q] /\ affected'[q] = affected[q]
      /\ pc[r] = "rewrite" /\ pc'[r] = "remove" /\ affected'[r] = {}
  BY DEF Rewrite, ghosts, TypeInv, TypeOK, CallsOK
<1>2. /\ \A i \in outbox : \E j \in outbox' : j.seq = i.seq
      /\ \A j \in outbox' : \E i \in outbox \union affected[r] : j.seq = i.seq
  <2>1. res[r] \in Int /\ affected[r] \subseteq Items
    BY DEF TypeInv, TypeOK, CallsOK
  <2>2. \A j \in affected[r] : [j EXCEPT !.task = res[r]].seq = j.seq
    BY <2>1, ItemRetargeted
  <2>3. outbox' = {i \in outbox : \A j \in affected[r] : j.seq # i.seq}
                    \union {[j EXCEPT !.task = res[r]] : j \in affected[r]}
    BY DEF Rewrite
  <2> QED BY <2>2, <2>3
<1>3. Numbered'
  BY <1>1, <1>2 DEF Numbered, Holding
<1>4. NothingForgotten' /\ NoOvertaking'
  BY <1>1, <1>2 DEF NothingForgotten, NoOvertaking
<1>5. RemovesSettled'
  BY <1>1 DEF RemovesSettled
<1>6. CompleteBelow'
  BY <1>1 DEF CompleteBelow, Active
<1> QED BY <1>3, <1>4, <1>5, <1>6

LEMMA RemoveQueue ==
  ASSUME IInv, NEW r \in Run, Remove(r)
  PROVE  Queue'
<1> USE DEF IInv, Queue
<1>1. /\ UNCHANGED <<cur, affected, fate, lastReached>>
      /\ \A q \in Run : q # r => pc'[q] = pc[q] /\ todo'[q] = todo[q]
      /\ pc[r] = "remove" /\ pc'[r] \in {"finish", "send"}
      /\ todo'[r] = {i \in todo[r] : i.seq # cur[r].seq}
      /\ outbox' = {i \in outbox : i.seq # cur[r].seq}
  BY DEF Remove, ghosts, TypeInv, TypeOK, CallsOK
<1>2. fate[cur[r].seq] # "queued"
  BY <1>1 DEF RemovesSettled
<1>3. Numbered'
  BY <1>1 DEF Numbered, Holding
<1>4. NothingForgotten' /\ NoOvertaking'
  BY <1>1, <1>2 DEF NothingForgotten, NoOvertaking
<1>5. RemovesSettled'
  BY <1>1 DEF RemovesSettled
<1>6. CompleteBelow'
  <2> SUFFICES ASSUME NEW q \in Run, pc'[q] \in Active,
                      NEW i \in todo'[q], NEW s \in DOMAIN fate,
                      s < i.seq, fate[s] = "queued"
               PROVE  \E j \in todo'[q] : j.seq = s
    BY <1>1 DEF CompleteBelow
  <2>1. pc[q] \in Active /\ i \in todo[q]
    BY <1>1 DEF Active
  <2>2. PICK j \in todo[q] : j.seq = s
    BY <2>1 DEF CompleteBelow
  <2> QED BY <1>1, <1>2, <2>2
<1> QED BY <1>3, <1>4, <1>5, <1>6

LEMMA PutBackQueue ==
  ASSUME IInv, NEW r \in Run, PutBack(r)
  PROVE  Queue'
<1> USE DEF IInv, Queue
<1> DEFINE again == [cur[r] EXCEPT !.tries = @ + 1]
<1>1. /\ UNCHANGED <<todo, cur, affected, fate, lastReached>>
      /\ \A q \in Run : q # r => pc'[q] = pc[q]
      /\ pc[r] = "put" /\ pc'[r] = "finish"
      /\ outbox' = {i \in outbox : i.seq # cur[r].seq} \union {again}
  BY DEF PutBack, ghosts, TypeInv, TypeOK, CallsOK
<1>2. again.seq = cur[r].seq /\ cur[r].seq \in DOMAIN fate
  <2>1. cur[r] \in Items
    BY <1>1 DEF TypeInv, TypeOK, CallsOK, Holding
  <2> QED BY <1>1, <2>1, ItemRetried DEF Numbered, Holding
<1>3. Numbered'
  BY <1>1, <1>2 DEF Numbered, Holding
<1>4. NothingForgotten' /\ NoOvertaking'
  BY <1>1, <1>2 DEF NothingForgotten, NoOvertaking
<1>5. RemovesSettled'
  BY <1>1 DEF RemovesSettled
<1>6. CompleteBelow'
  BY <1>1 DEF CompleteBelow, Active
<1> QED BY <1>3, <1>4, <1>5, <1>6

\* The steps of a call that only move it along, and a page that is closed.
LEMMA MovesQueue ==
  ASSUME IInv,
         \/ \E r \in Run : StartSync(r) \/ DropLocal(r) \/ Finish(r) \/ RefreshPage(r)
         \/ \E tab \in Tabs : ClosePage(tab)
  PROVE  Queue'
<1> USE DEF IInv, Queue
<1>1. /\ UNCHANGED <<outbox, fate, lastReached>>
      /\ \A q \in Run : affected'[q] \subseteq affected[q]
      /\ \A q \in Run :
           \/ pc'[q] = pc[q] /\ todo'[q] = todo[q] /\ cur'[q] = cur[q]
           \/ pc'[q] \notin Active /\ todo'[q] \subseteq todo[q]
           \/ /\ pc[q] = "drop" /\ pc'[q] \in {"retarget", "remove"}
              /\ todo'[q] = todo[q] /\ cur'[q] = cur[q]
  BY DEF StartSync, DropLocal, Finish, RefreshPage, ClosePage, stores, ghosts, Active,
         TypeInv, TypeOK, CallsOK
<1>2. Numbered'
  BY <1>1 DEF Numbered, Holding, Active
<1>3. NothingForgotten' /\ NoOvertaking'
  BY <1>1 DEF NothingForgotten, NoOvertaking
<1>4. RemovesSettled'
  BY <1>1 DEF RemovesSettled, Active
<1>5. CompleteBelow'
  BY <1>1 DEF CompleteBelow, Active
<1> QED BY <1>2, <1>3, <1>4, <1>5

LEMMA StepQueue == HasStorage /\ IInv /\ [Next]_vars => Queue'
<1> SUFFICES ASSUME HasStorage, IInv, [Next]_vars PROVE Queue'
  OBVIOUS
<1> USE DEF stores, calls, ghosts
<1>1. ASSUME NEW r \in Run, NEW v \in Vals, NEW how \in {"answer", "lost", "unsent"},
             CreateTask(r, v, how)
      PROVE  Queue'
  BY <1>1, QueueUntouched DEF CreateTask, IInv
<1>2. ASSUME NEW tab \in Tabs, NEW k \in DOMAIN rows, NEW v \in Vals,
             NEW kind \in {"patch", "done", "delete"},
             NEW how \in {"answer", "lost", "unsent"}, WriteRow(tab, k, kind, v, how)
      PROVE  Queue'
  <2> DEFINE i == Item(kind, rows[k].obj, k, v, ~want[rows[k].obj].done)
  <2>1. UNCHANGED <<todo, cur, pc, affected, lastReached>>
    BY <1>2 DEF WriteRow
  <2>2. CASE how = "answer"
    BY <1>2, <2>1, <2>2, QueueUntouched DEF WriteRow, IInv
  <2>3. CASE how # "answer"
    <3>1. Enqueue(i)
      BY <1>2, <2>3 DEF WriteRow
    <3>2. "seq" \in DOMAIN i
      BY DEF Item
    <3> QED BY <2>1, <3>1, <3>2, EnqueueQueue
  <2> QED BY <2>2, <2>3
<1>3. ASSUME NEW tab \in Tabs, NEW id,
             \/ \E v \in Vals, d \in BOOLEAN : EditTemp(tab, id, v, d)
             \/ DeleteTemp(tab, id)
      PROVE  Queue'
  BY <1>3, QueueUntouched DEF EditTemp, DeleteTemp, IInv
<1>4. ASSUME NEW k \in DOMAIN rows, OtherDeviceDelete(k) PROVE Queue'
  BY <1>4, QueueUntouched DEF OtherDeviceDelete, IInv
<1>5. CASE Write
  BY <1>1, <1>2, <1>3, <1>4, <1>5, ZenonT(60) DEF Write
<1>6. CASE Environment
  <2>1. CASE GoUp \/ \E how \in {"off", "dead"} : GoDown(how)
    BY <2>1, QueueUntouched DEF GoUp, GoDown, IInv
  <2> QED BY <1>6, <2>1, MovesQueue DEF Environment
<1>7. ASSUME NEW r \in Run, DraftStep(r) PROVE Queue'
  <2>1. CASE PutLocal(r)
    BY <2>1, QueueUntouched DEF PutLocal, IInv
  <2>2. CASE EnqueueCreate(r)
    <3> DEFINE d == drafts[r]
               i == [Item("create", d.obj, d.id, d.val, FALSE) EXCEPT !.temp = d.id]
    <3>1. Enqueue(i) /\ UNCHANGED <<todo, cur, pc, affected, lastReached>>
      BY <2>2 DEF EnqueueCreate
    <3>2. "seq" \in DOMAIN i
      BY DEF Item
    <3> QED BY <3>1, <3>2, EnqueueQueue
  <2> QED BY <1>7, <2>1, <2>2 DEF DraftStep
<1>8. ASSUME NEW r \in Run, SyncStep(r) PROVE Queue'
  BY <1>8, SendQueue, ReadSnapshotQueue, RetargetQueue, RewriteQueue, RemoveQueue,
     PutBackQueue, MovesQueue DEF SyncStep
<1>9. CASE UNCHANGED vars
  BY <1>9, QueueUntouched DEF vars, IInv
<1> QED BY <1>5, <1>6, <1>7, <1>8, <1>9 DEF Next

LEMMA InitQueue == Init => Queue
<1> SUFFICES ASSUME Init PROVE Queue
  OBVIOUS
<1>1. DOMAIN <<>> = {} /\ Len(<<>>) = 0
  OBVIOUS
<1> QED BY <1>1 DEF Init, Queue, Numbered, NothingForgotten, RemovesSettled, CompleteBelow,
                    NoOvertaking, Holding, Active

LEMMA QueueInvariant == HasStorage => (Spec => []IInv)
<1>1. HasStorage /\ IInv /\ [Next]_vars => IInv'
  BY StepType, StepQueue DEF IInv
<1>2. Init => IInv
  BY InitType, InitQueue DEF IInv
<1>3. CASE HasStorage
  <2>1. IInv /\ [Next]_vars => IInv'
    BY <1>1, <1>3
  <2> QED BY <1>2, <2>1, PTL DEF Spec
<1> QED BY <1>3

\* With IndexedDB available, a write the user was told is queued stays queued until the
\* server has taken or refused it or MAX_TRIES is spent, for any number of pages and
\* concurrent rounds, page closings and lost answers (offline.ts replayOutbox).
THEOREM QueueKept == HasStorage => (Spec => []NothingForgotten)
<1>1. IInv => NothingForgotten
  BY DEF IInv, Queue
<1>2. CASE HasStorage
  <2>1. Spec => []IInv
    BY <1>2, QueueInvariant
  <2> QED BY <1>1, <2>1, PTL
<1> QED BY <1>2

\* ... and the server never sees a queued write before all earlier ones are settled.
THEOREM QueueServedInOrder == HasStorage => (Spec => []NoOvertaking)
<1>1. IInv => NoOvertaking
  BY DEF IInv, Queue
<1>2. CASE HasStorage
  <2>1. Spec => []IInv
    BY <1>2, QueueInvariant
  <2> QED BY <1>1, <2>1, PTL
<1> QED BY <1>2

-----------------------------------------------------------------------------
(* The outbox implements the log of WriteLog: what is queued is accepted,  *)
(* an attempt is an attempt, and all other steps tidy up.                  *)

\* The front item of a round is behind no write that still waits.
LEMMA FrontIsFirst ==
  ASSUME IInv, NEW r \in Run, NEW i \in todo[r], Begin(r, i), NEW t \in DOMAIN fate,
         fate[t] = "queued"
  PROVE  i.seq <= t
<1>1. DOMAIN fate = 1 .. Len(fate) /\ i.seq \in DOMAIN fate
  BY Places DEF IInv, Queue, Numbered
<1> SUFFICES ASSUME t < i.seq PROVE FALSE
  BY <1>1
<1>2. PICK j \in todo[r] : j.seq = t
  BY DEF Begin, IInv, Queue, CompleteBelow, Active
<1>3. i.seq <= j.seq
  BY DEF Begin, IsFront
<1> QED BY <1>1, <1>2, <1>3

LEMMA EnqueueAccepts ==
  ASSUME HasStorage, IInv, NEW k, "seq" \in DOMAIN k, Enqueue(k), lastReached' = lastReached
  PROVE  Log!Next
<1>1. outbox' = outbox \union {[k EXCEPT !.seq = Len(fate) + 1]}
  BY DEF Enqueue
<1>2. [k EXCEPT !.seq = Len(fate) + 1].seq = Len(fate) + 1
  OBVIOUS
<1>3. {i.seq : i \in outbox'} = {i.seq : i \in outbox} \cup {Len(fate) + 1}
  BY <1>1, <1>2
<1>4. Log!Accept
  BY <1>3 DEF Log!Accept, Enqueue
<1> QED BY <1>4 DEF Log!Next

LEMMA SendAttempts ==
  ASSUME IInv, NEW r \in Run, SendStep(r)
  PROVE  Log!Next
<1> PICK i \in todo[r] :
       \/ \E body \in BOOLEAN : SendOk(r, i, body)
       \/ SendRejected(r, i)
       \/ \E how \in {"lost", "unsent"} : SendFailed(r, i, how)
       \/ SendUnauthorized(r, i)
  BY DEF SendStep
<1>1. /\ Begin(r, i) /\ lastReached' \in {lastReached, i.seq}
      /\ fate' = fate \/ \E f \in Log!Settled : Settle(i.seq, f)
  BY DEF SendOk, SendRejected, SendFailed, SendUnauthorized, Reaches, ghosts, Log!Settled
<1>2. outbox' = outbox
  BY <1>1 DEF Begin, stores
<1>3. i.seq \in DOMAIN fate /\ fate \in Seq(Fates)
  BY DEF IInv, Queue, Numbered, TypeInv, TypeOK, WorldOK
<1>4. \A t \in Log!Waiting : i.seq <= t
  BY <1>1, FrontIsFirst DEF Log!Waiting
<1>5. \/ fate' = fate
      \/ i.seq \in Log!Waiting /\ \E f \in Log!Settled : fate' = [fate EXCEPT ![i.seq] = f]
  <2>1. ASSUME NEW f \in Log!Settled, Settle(i.seq, f), fate[i.seq] # "queued" PROVE fate' = fate
    <3>1. fate' = [fate EXCEPT ![i.seq] = fate[i.seq]]
      BY <2>1 DEF Settle
    <3> QED BY <1>3, <3>1
  <2>2. ASSUME NEW f \in Log!Settled, Settle(i.seq, f), fate[i.seq] = "queued"
        PROVE  i.seq \in Log!Waiting /\ fate' = [fate EXCEPT ![i.seq] = f]
    BY <1>3, <2>2 DEF Settle, Log!Waiting
  <2> QED BY <1>1, <2>1, <2>2
<1>6. Log!Attempt(i.seq)
  BY <1>1, <1>2, <1>4, <1>5 DEF Log!Attempt
<1> QED BY <1>3, <1>6 DEF Log!Next

LEMMA OthersTidy ==
  ASSUME IInv, Queue', UNCHANGED <<fate, lastReached>>
  PROVE  Log!Next
<1>1. \A s \in Log!Waiting : s \in {i.seq : i \in outbox'}
  BY DEF Queue, NothingForgotten, Log!Waiting
<1>2. {i.seq : i \in outbox'} \subseteq DOMAIN fate
  BY DEF Queue, Numbered
<1>3. Log!Tidy
  BY <1>1, <1>2 DEF Log!Tidy
<1> QED BY <1>3 DEF Log!Next

LEMMA StepLog == HasStorage /\ IInv /\ [Next]_vars => [Log!Next]_Log!logVars
<1> SUFFICES ASSUME HasStorage, IInv, [Next]_vars PROVE Log!Next
  OBVIOUS
<1>0. Queue'
  BY StepQueue
<1>1. CASE UNCHANGED <<fate, lastReached>>
  BY <1>0, <1>1, OthersTidy
<1>2. ASSUME NEW r \in Run, NEW v \in Vals, NEW how \in {"answer", "lost", "unsent"},
             CreateTask(r, v, how)
      PROVE  Log!Next
  BY <1>1, <1>2 DEF CreateTask
<1>3. ASSUME NEW tab \in Tabs, NEW k \in DOMAIN rows, NEW v \in Vals,
             NEW kind \in {"patch", "done", "delete"},
             NEW how \in {"answer", "lost", "unsent"}, WriteRow(tab, k, kind, v, how)
      PROVE  Log!Next
  <2> DEFINE i == Item(kind, rows[k].obj, k, v, ~want[rows[k].obj].done)
  <2>1. lastReached' = lastReached /\ (how = "answer" => fate' = fate)
    BY <1>3 DEF WriteRow
  <2>2. how # "answer" => Enqueue(i)
    BY <1>3 DEF WriteRow
  <2>3. "seq" \in DOMAIN i
    BY DEF Item
  <2> QED BY <1>1, <2>1, <2>2, <2>3, EnqueueAccepts
<1>4. ASSUME NEW tab \in Tabs, NEW id,
             \/ \E v \in Vals, d \in BOOLEAN : EditTemp(tab, id, v, d)
             \/ DeleteTemp(tab, id)
      PROVE  Log!Next
  BY <1>1, <1>4 DEF EditTemp, DeleteTemp
<1>5. ASSUME NEW k \in DOMAIN rows, OtherDeviceDelete(k) PROVE Log!Next
  BY <1>1, <1>5 DEF OtherDeviceDelete
<1>6. CASE Write
  BY <1>2, <1>3, <1>4, <1>5, <1>6, ZenonT(60) DEF Write
<1>7. CASE Environment
  BY <1>1, <1>7 DEF Environment, ClosePage, GoDown, GoUp, ghosts
<1>8. ASSUME NEW r \in Run, DraftStep(r) PROVE Log!Next
  <2>1. CASE PutLocal(r)
    BY <1>1, <2>1 DEF PutLocal, ghosts
  <2>2. CASE EnqueueCreate(r)
    <3> DEFINE d == drafts[r]
               i == [Item("create", d.obj, d.id, d.val, FALSE) EXCEPT !.temp = d.id]
    <3>1. Enqueue(i) /\ lastReached' = lastReached
      BY <2>2 DEF EnqueueCreate
    <3>2. "seq" \in DOMAIN i
      BY DEF Item
    <3> QED BY <3>1, <3>2, EnqueueAccepts
  <2> QED BY <1>8, <2>1, <2>2 DEF DraftStep
<1>9. ASSUME NEW r \in Run, SyncStep(r) PROVE Log!Next
  <2>1. SendStep(r) \/ UNCHANGED <<fate, lastReached>>
    BY <1>9 DEF SyncStep, StartSync, ReadSnapshot, DropLocal, Retarget, Rewrite, Remove,
       PutBack, Finish, RefreshPage, ghosts
  <2> QED BY <1>1, <2>1, SendAttempts
<1>10. CASE UNCHANGED vars
  BY <1>1, <1>10 DEF vars, ghosts
<1> QED BY <1>6, <1>7, <1>8, <1>9, <1>10 DEF Next

\* Any number of pages with any number of rounds, closed at any point, is the one durable
\* log of WriteLog to the writes the user was told are queued: offline.ts's two stores, its
\* per-page flag and its separate transactions show none of their inner steps.
THEOREM OutboxIsALog == HasStorage => (Spec => KeepsTheLog)
<1>1. Init => Log!Init
  <2>1. DOMAIN <<>> = {}
    OBVIOUS
  <2> QED BY <2>1 DEF Init, Log!Init
<1>2. CASE HasStorage
  <2>1. Spec => []IInv
    BY <1>2, QueueInvariant
  <2>2. IInv /\ [Next]_vars => [Log!Next]_Log!logVars
    BY <1>2, StepLog
  <2> QED BY <1>1, <2>1, <2>2, PTL DEF Spec, KeepsTheLog, Log!Spec
<1> QED BY <1>2

-----------------------------------------------------------------------------
(* One call at a time: what the server and the local copies then hold.  With two, *)
(* the server may get a task twice (README), whatever the page does.             *)

\* One page that has one replay and one create in flight, and is not closed.
Solo == (\A r, s \in Run : r = s) /\ HasStorage /\ "close" \notin Admitted

-----------------------------------------------------------------------------
(* What a call has in memory is what the store has.                        *)

\* i and j are the same write, up to the row they name.
SameWrite(i, j) ==
  /\ i.kind = j.kind /\ i.obj = j.obj /\ i.temp = j.temp /\ i.val = j.val /\ i.done = j.done
  /\ i.cid = j.cid /\ i.tries = j.tries

\* c is i as the call holds it, perhaps with its new client id.
Taken(c, i) == c = i \/ (i.kind = "create" /\ i.cid = 0 /\ c = [i EXCEPT !.cid = c.cid])

Marked(i) == IF i.kind = "create" THEN i.temp < 0 ELSE i.temp = 0

CallCopied(r) ==
  /\ pc[r] \in Active => \A i \in todo[r] : \E j \in outbox : j.seq = i.seq /\ SameWrite(i, j)
  /\ pc[r] \in Holding => \E i \in todo[r] : cur[r].seq = i.seq /\ Taken(cur[r], i)
  /\ pc[r] \in {"retarget", "rewrite"} => res[r] # 0
  /\ pc[r] \in {"drop", "retarget", "rewrite"} => cur[r].kind = "create"
  /\ pc[r] = "rewrite" => affected[r] \subseteq outbox
  /\ \A i \in todo[r] : Marked(i)

Copied ==
  /\ \A i, j \in outbox : i.seq = j.seq => i = j
  /\ \A i \in outbox : Marked(i)
  /\ \A r \in Run : drafts[r] # NoDraft => drafts[r].id < 0
  /\ \A r \in Run : CallCopied(r)

LEMMA CopiedStands ==
  ASSUME Copied, UNCHANGED <<outbox, todo, cur, pc, affected, res>>,
         \A r \in Run : drafts'[r] # NoDraft => drafts'[r].id < 0
  PROVE  Copied'
BY DEF Copied, CallCopied

\* A write that is queued is behind all that calls have in memory.
LEMMA CopiedEnqueue ==
  ASSUME HasStorage, IInv, Copied, NEW k, Enqueue(k), "seq" \in DOMAIN k, "kind" \in DOMAIN k,
         "temp" \in DOMAIN k, Marked(k),
         UNCHANGED <<todo, cur, pc, affected, res>>,
         \A r \in Run : drafts'[r] # NoDraft => drafts'[r].id < 0
  PROVE  Copied'
<1>1. PICK n : n = Len(fate) + 1
  OBVIOUS
<1>2. PICK e : outbox' = outbox \cup {e} /\ e.seq = n /\ Marked(e)
  <2>1. outbox' = outbox \cup {[k EXCEPT !.seq = n]}
    BY <1>1 DEF Enqueue
  <2>2. [k EXCEPT !.seq = n].seq = n /\ [k EXCEPT !.seq = n].kind = k.kind /\ [k EXCEPT !.seq = n].temp = k.temp
    OBVIOUS
  <2> QED BY <2>1, <2>2 DEF Marked
<1>3. \A i \in outbox : i.seq # n
  BY <1>1, Places DEF IInv, Queue, Numbered
<1>4. ASSUME NEW r \in Run PROVE CallCopied(r)'
  BY <1>2 DEF Copied, CallCopied
<1> QED BY <1>2, <1>3, <1>4 DEF Copied

\* The writes the user makes, and the two steps of a create that is queued.
LEMMA CopiedWrites ==
  ASSUME HasStorage, IInv, Copied, Write \/ \E r \in Run : DraftStep(r)
  PROVE  Copied'
<1>0. \A r \in Run : drafts[r] # NoDraft => drafts[r].id < 0
  BY DEF Copied
<1>1. ASSUME NEW r \in Run, NEW v \in Vals, NEW how \in {"answer", "lost", "unsent"},
             CreateTask(r, v, how)
      PROVE  Copied'
  <2>1. /\ UNCHANGED <<outbox, todo, cur, pc, affected, res>>
        /\ \/ UNCHANGED drafts
           \/ drafts' = [drafts EXCEPT ![r] = [step |-> "put", id |-> NextTempId, obj |-> Len(want) + 1, val |-> v]]
    BY <1>1 DEF CreateTask, stores, calls
  <2>2. NextTempId < 0
    BY NextTempIdLemma DEF IInv
  <2>3. DOMAIN drafts = Run
    BY DEF IInv, TypeInv, TypeOK, StoresOK
  <2> QED BY <1>0, <2>1, <2>2, <2>3, CopiedStands
<1>2. ASSUME NEW tab \in Tabs, NEW k \in DOMAIN rows, NEW v \in Vals,
             NEW kind \in {"patch", "done", "delete"},
             NEW how \in {"answer", "lost", "unsent"}, WriteRow(tab, k, kind, v, how)
      PROVE  Copied'
  <2> DEFINE i == Item(kind, rows[k].obj, k, v, ~want[rows[k].obj].done)
  <2>1. UNCHANGED <<drafts, todo, cur, pc, affected, res>> /\ (outbox' = outbox \/ Enqueue(i))
    BY <1>2 DEF WriteRow, calls
  <2>2. "seq" \in DOMAIN i /\ "kind" \in DOMAIN i /\ "temp" \in DOMAIN i /\ Marked(i)
    BY DEF Item, Marked
  <2> HIDE DEF i
  <2> QED BY <1>0, <2>1, <2>2, CopiedStands, CopiedEnqueue
<1>3. ASSUME NEW tab \in Tabs, NEW id,
             \/ \E v \in Vals, d \in BOOLEAN : EditTemp(tab, id, v, d)
             \/ DeleteTemp(tab, id)
      PROVE  Copied'
  BY <1>0, <1>3, CopiedStands DEF EditTemp, DeleteTemp, calls
<1>4. ASSUME NEW k \in DOMAIN rows, OtherDeviceDelete(k) PROVE Copied'
  BY <1>0, <1>4, CopiedStands DEF OtherDeviceDelete, stores, calls
<1>5. CASE Write
  BY <1>1, <1>2, <1>3, <1>4, <1>5, ZenonT(60) DEF Write
<1>6. ASSUME NEW r \in Run, PutLocal(r) PROVE Copied'
  <2>1. drafts' = [drafts EXCEPT ![r].step = "enqueue"] /\ UNCHANGED <<outbox, todo, cur, pc, affected, res>>
        /\ drafts[r] # NoDraft
    BY <1>6 DEF PutLocal, calls
  <2>2. drafts[r] \in Drafts /\ DOMAIN drafts = Run
    BY <2>1 DEF IInv, TypeInv, TypeOK, StoresOK
  <2>3. drafts'[r].id = drafts[r].id /\ \A s \in Run : s # r => drafts'[s] = drafts[s]
    BY <2>1, <2>2 DEF Drafts
  <2> QED BY <1>0, <2>1, <2>3, CopiedStands
<1>7. ASSUME NEW r \in Run, EnqueueCreate(r) PROVE Copied'
  <2> DEFINE d == drafts[r]
             i == [Item("create", d.obj, d.id, d.val, FALSE) EXCEPT !.temp = d.id]
  <2>1. /\ UNCHANGED <<todo, cur, pc, affected, res>> /\ Enqueue(i)
        /\ drafts' = [drafts EXCEPT ![r] = NoDraft] /\ drafts[r] # NoDraft
    BY <1>7 DEF EnqueueCreate, calls
  <2>2. "seq" \in DOMAIN i /\ "kind" \in DOMAIN i /\ "temp" \in DOMAIN i /\ Marked(i)
    BY <1>0, <2>1 DEF Item, Marked
  <2>3. \A s \in Run : drafts'[s] # NoDraft => drafts'[s].id < 0
    BY <1>0, <2>1 DEF IInv, TypeInv, TypeOK, StoresOK
  <2> HIDE DEF i
  <2> QED BY <2>1, <2>2, <2>3, CopiedEnqueue
<1> QED BY <1>5, <1>6, <1>7 DEF DraftStep

\* What an attempt to send leaves as it was, and where it goes on.
LEMMA SendShape ==
  ASSUME IInv, Copied, NEW r \in Run, SendStep(r)
  PROVE  \E i \in todo[r] :
           /\ Begin(r, i) /\ cur' = [cur EXCEPT ![r] = WithCid(i)]
           /\ UNCHANGED <<outbox, locals, seen, drafts, todo, idMap, affected, net, writes>>
           /\ Taken(WithCid(i), i) /\ WithCid(i).seq = i.seq /\ WithCid(i).kind = i.kind
           /\ rows' = rows \/ rows' = Applied(WithCid(i), Target(r, i))
           /\ \E p \in {"drop", "remove", "put", "finish"} :
                /\ pc' = [pc EXCEPT ![r] = p]
                /\ p = "drop" => i.kind = "create"
                /\ p = "finish" => rows' = rows
<1>1. PICK i \in todo[r] :
       \/ \E body \in BOOLEAN : SendOk(r, i, body)
       \/ SendRejected(r, i)
       \/ \E how \in {"lost", "unsent"} : SendFailed(r, i, how)
       \/ SendUnauthorized(r, i)
  BY DEF SendStep
<1>2. Begin(r, i)
  BY <1>1 DEF SendOk, SendRejected, SendFailed, SendUnauthorized
<1>3. i \in Items /\ nextCid \in Nat
  BY DEF IInv, TypeInv, TypeOK, CallsOK, WorldOK
<1>4. WithCid(i).seq = i.seq /\ WithCid(i).kind = i.kind
  BY <1>3, WithCidType
<1>5. Taken(WithCid(i), i)
  BY <1>3 DEF WithCid, Taken, Items
<1>6. i.temp # 0 => i.kind = "create"
  BY DEF Copied, CallCopied, Marked
<1> DEFINE GoesOn == \E p \in {"drop", "remove", "put", "finish"} :
                       /\ pc' = [pc EXCEPT ![r] = p] /\ (p = "drop" => i.kind = "create")
                       /\ p = "finish" => rows' = rows
<1>7. GoesOn
  <2>1. ASSUME NEW body \in BOOLEAN, SendOk(r, i, body) PROVE GoesOn
    BY <2>1 DEF SendOk
  <2>2. CASE SendRejected(r, i)
    BY <1>6, <2>2 DEF SendRejected
  <2>3. ASSUME NEW how, SendFailed(r, i, how) PROVE GoesOn
    BY <1>6, <2>3 DEF SendFailed
  <2>4. CASE SendUnauthorized(r, i)
    BY <2>4 DEF SendUnauthorized
  <2> QED BY <1>1, <2>1, <2>2, <2>3, <2>4
<1>8. rows' = rows \/ rows' = Applied(WithCid(i), Target(r, i))
  BY <1>1 DEF SendOk, SendRejected, SendFailed, SendUnauthorized, Reaches
<1> QED BY <1>2, <1>4, <1>5, <1>7, <1>8 DEF Begin, stores

\* A call is alone: what holds of it holds of all.
LEMMA CopiedAlone ==
  ASSUME Solo, Copied, NEW r \in Run, CallCopied(r)', UNCHANGED drafts,
         \A i, j \in outbox' : i.seq = j.seq => i = j,
         \A i \in outbox' : Marked(i)
  PROVE  Copied'
<1>1. \A s \in Run : s = r
  BY DEF Solo
<1> QED BY <1>1 DEF Copied

LEMMA CopiedSnapshot ==
  ASSUME Solo, IInv, Copied, NEW r \in Run, StartSync(r) \/ ReadSnapshot(r)
  PROVE  Copied'
<1>1. DOMAIN pc = Run /\ DOMAIN todo = Run
  BY DEF IInv, TypeInv, TypeOK, CallsOK
<1>2. UNCHANGED <<outbox, drafts, cur, affected, res>>
  BY DEF StartSync, ReadSnapshot, stores
<1>3. CASE StartSync(r)
  <2>1. pc'[r] = "read" /\ todo' = todo
    BY <1>1, <1>3 DEF StartSync
  <2>2. CallCopied(r)'
    BY <1>2, <2>1 DEF CallCopied, Copied, Active, Holding
  <2> QED BY <1>2, <2>2, CopiedAlone DEF Copied
<1>4. CASE ReadSnapshot(r)
  <2>1. pc'[r] \in {"refresh", "send"} /\ todo'[r] = outbox
    BY <1>1, <1>4 DEF ReadSnapshot
  <2>2. CallCopied(r)'
    BY <1>2, <2>1 DEF CallCopied, Copied, SameWrite, Holding
  <2> QED BY <1>2, <2>2, CopiedAlone DEF Copied
<1> QED BY <1>3, <1>4

LEMMA CopiedSend ==
  ASSUME Solo, IInv, Copied, NEW r \in Run, SendStep(r)
  PROVE  Copied'
<1>1. PICK i \in todo[r] :
        /\ Begin(r, i) /\ cur' = [cur EXCEPT ![r] = WithCid(i)]
        /\ UNCHANGED <<outbox, drafts, todo, affected>>
        /\ Taken(WithCid(i), i) /\ WithCid(i).seq = i.seq /\ WithCid(i).kind = i.kind
        /\ \E p \in {"drop", "remove", "put", "finish"} :
             pc' = [pc EXCEPT ![r] = p] /\ (p = "drop" => i.kind = "create")
  BY SendShape
<1>2. pc[r] = "send" /\ DOMAIN pc = Run /\ DOMAIN cur = Run
  BY <1>1 DEF Begin, IInv, TypeInv, TypeOK, CallsOK
<1>3. cur'[r] = WithCid(i) /\ pc'[r] \in {"drop", "remove", "put", "finish"}
      /\ (pc'[r] = "drop" => i.kind = "create")
  BY <1>1, <1>2
<1>4. CallCopied(r)'
  <2>1. \A t \in todo[r] : Marked(t) /\ \E j \in outbox : j.seq = t.seq /\ SameWrite(t, j)
    BY <1>2 DEF Copied, CallCopied, Active
  <2> QED BY <1>1, <1>3, <2>1 DEF CallCopied
<1> QED BY <1>1, <1>4, CopiedAlone DEF Copied

\* The two rewritings of the store are of items it has, and change the row they name.
LEMMA CopiedRetargets ==
  ASSUME Solo, IInv, Copied, NEW r \in Run, DropLocal(r) \/ Retarget(r) \/ Rewrite(r)
  PROVE  Copied'
<1>0. /\ DOMAIN pc = Run /\ DOMAIN affected = Run /\ outbox \subseteq Items /\ res[r] \in Int
      /\ pc[r] \in Active /\ pc[r] \in Holding /\ CallCopied(r)
  BY DEF IInv, TypeInv, TypeOK, CallsOK, StoresOK, Active, Holding, Copied, DropLocal, Retarget, Rewrite
<1>1. UNCHANGED <<drafts, todo, cur, res>>
  BY DEF DropLocal, Retarget, Rewrite
<1>2. CASE DropLocal(r)
  <2>1. UNCHANGED <<outbox, affected>> /\ pc[r] = "drop"
        /\ pc' = [pc EXCEPT ![r] = IF res[r] = 0 THEN "remove" ELSE "retarget"]
    BY <1>2 DEF DropLocal
  <2>2. pc'[r] = "remove" \/ (pc'[r] = "retarget" /\ res[r] # 0)
    BY <1>0, <2>1
  <2>3. CallCopied(r)'
    BY <1>0, <1>1, <2>1, <2>2 DEF CallCopied
  <2> QED BY <1>1, <2>1, <2>3, CopiedAlone DEF Copied
<1>3. CASE Retarget(r)
  <2>1. outbox' = outbox /\ pc[r] = "retarget" /\ affected'[r] \subseteq outbox /\ pc'[r] \in {"remove", "rewrite"}
    BY <1>0, <1>3 DEF Retarget, stores
  <2>2. CallCopied(r)'
    BY <1>0, <1>1, <2>1 DEF CallCopied
  <2> QED BY <1>1, <2>1, <2>2, CopiedAlone DEF Copied
<1>4. CASE Rewrite(r)
  <2>1. /\ outbox' = {i \in outbox : \A j \in affected[r] : j.seq # i.seq}
                       \cup {[j EXCEPT !.task = res[r]] : j \in affected[r]}
        /\ affected[r] \subseteq outbox /\ pc[r] = "rewrite" /\ pc'[r] = "remove"
    BY <1>0, <1>4 DEF Rewrite, CallCopied
  <2>2. ASSUME NEW i \in outbox' PROVE \E j \in outbox : j.seq = i.seq /\ SameWrite(j, i)
                                         /\ (i = j \/ (j \in affected[r] /\ i = [j EXCEPT !.task = res[r]]))
    <3>1. CASE i \in outbox
      BY <3>1 DEF SameWrite
    <3>2. ASSUME NEW j \in affected[r], i = [j EXCEPT !.task = res[r]] PROVE j.seq = i.seq /\ SameWrite(j, i)
      <4>1. j \in Items
        BY <1>0, <2>1
      <4> QED BY <3>2, <4>1 DEF SameWrite, Items
    <3> QED BY <2>1, <3>1, <3>2
  <2>3. ASSUME NEW j \in outbox PROVE \E i \in outbox' : i.seq = j.seq /\ SameWrite(j, i)
    <3>1. CASE \A k \in affected[r] : k.seq # j.seq
      BY <2>1, <3>1 DEF SameWrite
    <3>2. CASE j \in affected[r]
      <4>1. j \in Items /\ [j EXCEPT !.task = res[r]] \in outbox'
        BY <1>0, <2>1, <3>2
      <4> QED BY <4>1 DEF SameWrite, Items
    <3> QED BY <2>1, <3>1, <3>2 DEF Copied
  <2>4. ASSUME NEW i \in outbox', NEW j \in outbox', i.seq = j.seq PROVE i = j
    <3>1. PICK a \in outbox : a.seq = i.seq /\ (i = a \/ (a \in affected[r] /\ i = [a EXCEPT !.task = res[r]]))
      BY <2>2
    <3>2. PICK b \in outbox : b.seq = j.seq /\ (j = b \/ (b \in affected[r] /\ j = [b EXCEPT !.task = res[r]]))
      BY <2>2
    <3>3. a = b
      BY <2>4, <3>1, <3>2 DEF Copied
    <3>4. a \in affected[r] => i = [a EXCEPT !.task = res[r]]
      <4> SUFFICES ASSUME a \in affected[r], i = a PROVE i = [a EXCEPT !.task = res[r]]
        BY <3>1
      <4>1. PICK k \in affected[r] : i = [k EXCEPT !.task = res[r]]
        BY <2>1
      <4>2. k \in Items /\ k.seq = i.seq
        BY <1>0, <2>1, <4>1 DEF Items
      <4> QED BY <2>1, <4>1, <4>2 DEF Copied
    <3>5. a \in affected[r] => j = [a EXCEPT !.task = res[r]]
      <4> SUFFICES ASSUME a \in affected[r], j = a PROVE j = [a EXCEPT !.task = res[r]]
        BY <3>2, <3>3
      <4>1. PICK k \in affected[r] : j = [k EXCEPT !.task = res[r]]
        BY <2>1
      <4>2. k \in Items /\ k.seq = j.seq
        BY <1>0, <2>1, <4>1 DEF Items
      <4> QED BY <2>1, <4>1, <4>2 DEF Copied
    <3> QED BY <3>1, <3>2, <3>3, <3>4, <3>5
  <2>5. \A i \in outbox' : Marked(i)
    BY <2>2 DEF Copied, Marked, SameWrite
  <2>6. \A i \in todo[r] : \E j \in outbox' : j.seq = i.seq /\ SameWrite(i, j)
    <3> SUFFICES ASSUME NEW i \in todo[r] PROVE \E j \in outbox' : j.seq = i.seq /\ SameWrite(i, j)
      OBVIOUS
    <3>1. PICK a \in outbox : a.seq = i.seq /\ SameWrite(i, a)
      BY <1>0 DEF CallCopied
    <3>2. PICK b \in outbox' : b.seq = a.seq /\ SameWrite(a, b)
      BY <2>3
    <3> QED BY <3>1, <3>2 DEF SameWrite
  <2>7. CallCopied(r)'
    BY <1>0, <1>1, <2>1, <2>6 DEF CallCopied
  <2> QED BY <1>1, <2>4, <2>5, <2>7, CopiedAlone
<1> QED BY <1>2, <1>3, <1>4

\* The end of an item and of a round.
LEMMA CopiedEnds ==
  ASSUME Solo, IInv, Copied, NEW r \in Run, Remove(r) \/ PutBack(r) \/ Finish(r) \/ RefreshPage(r)
  PROVE  Copied'
<1>0. DOMAIN pc = Run /\ DOMAIN todo = Run /\ DOMAIN cur = Run /\ DOMAIN res = Run /\ CallCopied(r)
  BY DEF IInv, TypeInv, TypeOK, CallsOK, Copied
<1>1. CASE Remove(r)
  <2>1. /\ pc[r] = "remove" /\ pc'[r] \in {"finish", "send"} /\ UNCHANGED <<drafts, cur, affected, res>>
        /\ outbox' = {i \in outbox : i.seq # cur[r].seq}
        /\ todo'[r] = {i \in todo[r] : i.seq # cur[r].seq}
    BY <1>0, <1>1 DEF Remove
  <2>2. CallCopied(r)'
    BY <1>0, <2>1 DEF CallCopied, Active, Holding
  <2> QED BY <2>1, <2>2, CopiedAlone DEF Copied
<1>2. CASE PutBack(r)
  <2> DEFINE again == [cur[r] EXCEPT !.tries = @ + 1]
  <2>1. /\ pc[r] = "put" /\ pc'[r] = "finish" /\ UNCHANGED <<drafts, cur, affected, res, todo>>
        /\ outbox' = {i \in outbox : i.seq # cur[r].seq} \cup {again}
    BY <1>0, <1>2 DEF PutBack
  <2>2. cur[r] \in Items
    BY <2>1 DEF IInv, TypeInv, TypeOK, CallsOK, Holding
  <2>3. again.seq = cur[r].seq /\ again.kind = cur[r].kind /\ again.temp = cur[r].temp
    BY <2>2 DEF Items
  <2>4. Marked(again)
    <3>1. PICK i \in todo[r] : cur[r].seq = i.seq /\ Taken(cur[r], i)
      BY <1>0, <2>1 DEF CallCopied, Holding
    <3>2. i \in Items /\ Marked(i)
      BY <1>0 DEF CallCopied, IInv, TypeInv, TypeOK, CallsOK
    <3> QED BY <2>3, <3>1, <3>2 DEF Marked, Taken, Items
  <2> HIDE DEF again
  <2>5. CallCopied(r)'
    BY <1>0, <2>1 DEF CallCopied, Active, Holding
  <2> QED BY <2>1, <2>3, <2>4, <2>5, CopiedAlone DEF Copied
<1>3. CASE Finish(r) \/ RefreshPage(r)
  <2>1. /\ pc'[r] \in {"refresh", "idle"} /\ UNCHANGED <<outbox, drafts>>
        /\ todo'[r] = {} \/ todo'[r] = todo[r]
    BY <1>0, <1>3 DEF Finish, RefreshPage, stores
  <2>2. CallCopied(r)'
    BY <1>0, <2>1 DEF CallCopied, Active, Holding
  <2> QED BY <2>1, <2>2, CopiedAlone DEF Copied
<1> QED BY <1>1, <1>2, <1>3

LEMMA StepCopied == Solo /\ IInv /\ Copied /\ [Next]_vars => Copied'
<1> SUFFICES ASSUME Solo, IInv, Copied, [Next]_vars PROVE Copied'
  OBVIOUS
<1>1. CASE Write \/ \E r \in Run : DraftStep(r)
  BY <1>1, CopiedWrites DEF Solo
<1>2. CASE Environment
  <2>1. UNCHANGED <<outbox, todo, cur, pc, affected, res, drafts>>
    BY <1>2 DEF Environment, ClosePage, GoDown, GoUp, stores, calls, Solo
  <2> QED BY <2>1, CopiedStands DEF Copied
<1>3. ASSUME NEW r \in Run, SyncStep(r) PROVE Copied'
  BY <1>3, CopiedSnapshot, CopiedSend, CopiedRetargets, CopiedEnds DEF SyncStep
<1>4. CASE UNCHANGED vars
  BY <1>4, CopiedStands DEF vars, stores, calls, Copied
<1> QED BY <1>1, <1>2, <1>3, <1>4 DEF Next

-----------------------------------------------------------------------------
(* What a step leaves as it is.                                            *)

\* The same write of the user, whatever became of it since.
Alike(i, j) ==
  i.seq = j.seq /\ i.kind = j.kind /\ i.obj = j.obj /\ i.temp = j.temp /\ i.val = j.val /\ i.done = j.done

\* The item a call works on is in the store.
LEMMA CurIsQueued ==
  ASSUME IInv, Copied, NEW r \in Run, pc[r] \in Holding
  PROVE  /\ \E j \in outbox : Alike(j, cur[r])
         /\ \E i \in todo[r] : Alike(i, cur[r]) /\ i.task = cur[r].task
<1>1. PICK i \in todo[r] : cur[r].seq = i.seq /\ Taken(cur[r], i)
  BY DEF Copied, CallCopied
<1>2. i \in Items
  BY DEF IInv, TypeInv, TypeOK, CallsOK
<1>3. Alike(i, cur[r]) /\ i.task = cur[r].task
  BY <1>1, <1>2 DEF Alike, Taken, Items
<1>4. PICK j \in outbox : j.seq = i.seq /\ SameWrite(i, j)
  BY DEF Copied, CallCopied, Active, Holding
<1>5. Alike(j, cur[r])
  BY <1>3, <1>4 DEF SameWrite, Alike
<1> QED BY <1>3, <1>5

\* A call adds no write to the queue.
LEMMA SyncAddsNone ==
  ASSUME IInv, Copied, NEW r \in Run, SyncStep(r)
  PROVE  \A i \in outbox' : \E a \in outbox : Alike(a, i)
<1>1. outbox \subseteq Items
  BY DEF IInv, TypeInv, TypeOK, StoresOK
<1>2. CASE outbox' \subseteq outbox
  BY <1>2 DEF Alike
<1>3. CASE Rewrite(r)
  <2>1. /\ outbox' = {i \in outbox : \A j \in affected[r] : j.seq # i.seq}
                       \cup {[j EXCEPT !.task = res[r]] : j \in affected[r]}
        /\ affected[r] \subseteq outbox
    BY <1>3 DEF Rewrite, Copied, CallCopied
  <2>2. \A j \in affected[r] : Alike(j, [j EXCEPT !.task = res[r]])
    BY <1>1, <2>1 DEF Alike, Items
  <2>3. \A i \in outbox : Alike(i, i)
    BY DEF Alike
  <2> QED BY <2>1, <2>2, <2>3
<1>4. CASE PutBack(r)
  <2>1. pc[r] = "put" /\ outbox' = {i \in outbox : i.seq # cur[r].seq} \cup {[cur[r] EXCEPT !.tries = @ + 1]}
    BY <1>4 DEF PutBack
  <2>2. cur[r] \in Items /\ pc[r] \in Holding
    BY <2>1 DEF IInv, TypeInv, TypeOK, CallsOK, Holding
  <2>3. Alike(cur[r], [cur[r] EXCEPT !.tries = @ + 1])
    BY <2>2 DEF Alike, Items
  <2>4. PICK j \in outbox : Alike(j, cur[r])
    BY <2>2, CurIsQueued
  <2> QED BY <2>1, <2>3, <2>4 DEF Alike
<1>5. CASE SendStep(r)
  BY <1>2, <1>5, SendShape
<1> QED BY <1>2, <1>3, <1>4, <1>5 DEF SyncStep, StartSync, ReadSnapshot, DropLocal, Retarget,
       Remove, Finish, RefreshPage, stores

\* No request takes a row away or gives it to another task.
RowsStay ==
  \A k \in DOMAIN rows : /\ k \in DOMAIN rows'
                         /\ rows'[k].obj = rows[k].obj /\ rows'[k].cid = rows[k].cid

LEMMA AppliedStay ==
  ASSUME rows \in Seq(Rows), NEW i, NEW j, rows' = Applied(i, j), i.kind \in Kinds
  PROVE  RowsStay
<1>0. \A k \in DOMAIN rows : rows[k] \in Rows
  BY PlaceOfSeq
<1>1. CASE i.kind = "create"
  <2>1. rows' = rows \/ rows' = Append(rows, NewRow(i))
    BY <1>1 DEF Applied
  <2>2. \A k \in DOMAIN rows : k \in DOMAIN Append(rows, NewRow(i)) /\ Append(rows, NewRow(i))[k] = rows[k]
    BY LenProperties
  <2> QED BY <2>1, <2>2 DEF RowsStay
<1>2. CASE i.kind = "patch"
  BY <1>0, <1>2 DEF Applied, RowsStay, Rows
<1>3. CASE i.kind = "done"
  BY <1>0, <1>3 DEF Applied, RowsStay, Rows
<1>4. CASE i.kind = "delete"
  BY <1>0, <1>4 DEF Applied, RowsStay, Rows
<1> QED BY <1>1, <1>2, <1>3, <1>4 DEF Kinds

LEMMA StepRows == IInv /\ [Next]_vars => RowsStay
<1> SUFFICES ASSUME IInv, [Next]_vars PROVE RowsStay
  OBVIOUS
<1>0. rows \in Seq(Rows) /\ nextCid \in Nat /\ (\A k \in DOMAIN rows : rows[k] \in Rows)
  BY PlaceOfSeq DEF IInv, TypeInv, TypeOK, WorldOK
<1>1. CASE rows' = rows
  BY <1>1 DEF RowsStay
<1>2. ASSUME NEW r \in Run, NEW v \in Vals, NEW how \in {"answer", "lost", "unsent"},
             CreateTask(r, v, how)
      PROVE  RowsStay
  <2>1. rows' = rows \/ \E x : rows' = Append(rows, x)
    BY <1>2 DEF CreateTask
  <2>2. \A x : \A k \in DOMAIN rows : k \in DOMAIN Append(rows, x) /\ Append(rows, x)[k] = rows[k]
    BY <1>0, LenProperties
  <2> QED BY <2>1, <2>2 DEF RowsStay
<1>3. ASSUME NEW tab \in Tabs, NEW k \in DOMAIN rows, NEW v \in Vals,
             NEW kind \in {"patch", "done", "delete"},
             NEW how \in {"answer", "lost", "unsent"}, WriteRow(tab, k, kind, v, how)
      PROVE  RowsStay
  <2>1. \A d : Item("done", rows[k].obj, k, v, d).kind \in Kinds /\ Item(kind, rows[k].obj, k, v, d).kind \in Kinds
    BY DEF Item, Kinds
  <2>2. rows' = rows \/ \E i : rows' = Applied(i, k) /\ i.kind \in Kinds
    BY <1>3, <2>1 DEF WriteRow
  <2> QED BY <1>0, <1>1, <2>2, AppliedStay
<1>4. ASSUME NEW tab \in Tabs, NEW id,
             \/ \E v \in Vals, d \in BOOLEAN : EditTemp(tab, id, v, d)
             \/ DeleteTemp(tab, id)
      PROVE  RowsStay
  BY <1>1, <1>4 DEF EditTemp, DeleteTemp
<1>5. ASSUME NEW k \in DOMAIN rows, OtherDeviceDelete(k) PROVE RowsStay
  BY <1>0, <1>5 DEF OtherDeviceDelete, RowsStay, Rows
<1>6. CASE Write
  BY <1>2, <1>3, <1>4, <1>5, <1>6, ZenonT(60) DEF Write
<1>7. CASE Environment
  BY <1>1, <1>7 DEF Environment, ClosePage, GoDown, GoUp
<1>8. ASSUME NEW r \in Run, DraftStep(r) PROVE RowsStay
  BY <1>1, <1>8 DEF DraftStep, PutLocal, EnqueueCreate
<1>9. ASSUME NEW r \in Run, SendStep(r) PROVE RowsStay
  <2>1. PICK i \in todo[r] :
         \/ \E body \in BOOLEAN : SendOk(r, i, body)
         \/ SendRejected(r, i)
         \/ \E how \in {"lost", "unsent"} : SendFailed(r, i, how)
         \/ SendUnauthorized(r, i)
    BY <1>9 DEF SendStep
  <2>2. i \in Items
    BY DEF IInv, TypeInv, TypeOK, CallsOK
  <2>3. WithCid(i) \in Items
    BY <1>0, <2>2, WithCidType
  <2>4. rows' = rows \/ rows' = Applied(WithCid(i), Target(r, i))
    BY <2>1 DEF SendOk, SendRejected, SendFailed, SendUnauthorized, Reaches
  <2> QED BY <1>0, <1>1, <2>3, <2>4, AppliedStay DEF Items
<1>10. ASSUME NEW r \in Run, SyncStep(r) PROVE RowsStay
  BY <1>1, <1>9, <1>10 DEF SyncStep, StartSync, ReadSnapshot, DropLocal, Retarget, Rewrite, Remove,
     PutBack, Finish, RefreshPage
<1>11. CASE UNCHANGED vars
  BY <1>1, <1>11 DEF vars
<1> QED BY <1>6, <1>7, <1>8, <1>10, <1>11 DEF Next

-----------------------------------------------------------------------------
(* Temporary ids, and the rows that writes name.                           *)

\* A call at one of the places S works on item i.
Past(i, S) == \E r \in Run : pc[r] \in S /\ cur[r].seq = i.seq

\* The local copy is dropped from here on; only now may its id be given again.
Dropped  == {"retarget", "rewrite", "remove"}
Released == {"rewrite", "remove"}

Creates == {i \in outbox : i.kind = "create"}

Ids ==
  /\ \A i \in Creates : Past(i, Dropped) \/ i.temp \in DOMAIN locals
  /\ \A i, j \in Creates : i.temp = j.temp => i = j \/ Past(i, Released) \/ Past(j, Released)
  /\ \A i \in Creates : \A r \in Run : drafts[r] # NoDraft /\ drafts[r].id = i.temp => Past(i, Released)
  /\ \A r \in Run : drafts[r] # NoDraft /\ drafts[r].step = "enqueue" => drafts[r].id \in DOMAIN locals

\* Calls and stores that keep the ids as they are.
LEMMA IdsStand ==
  ASSUME Ids, Copied', UNCHANGED drafts, DOMAIN locals \subseteq DOMAIN locals',
         \A i \in outbox' : \E a \in outbox : Alike(a, i),
         \A i \in outbox' : \A S \in {Dropped, Released} : Past(i, S) => Past(i, S)'
  PROVE  Ids'
<1>1. \A i \in Creates' : \E a \in Creates : /\ a.temp = i.temp /\ a.seq = i.seq
                                             /\ Past(a, Dropped) => Past(i, Dropped)'
                                             /\ Past(a, Released) => Past(i, Released)'
  <2> SUFFICES ASSUME NEW i \in Creates'
               PROVE  \E a \in Creates : /\ a.temp = i.temp /\ a.seq = i.seq
                                         /\ Past(a, Dropped) => Past(i, Dropped)'
                                         /\ Past(a, Released) => Past(i, Released)'
    OBVIOUS
  <2>1. i \in outbox' /\ i.kind = "create"
    BY DEF Creates
  <2>2. PICK a \in outbox : Alike(a, i)
    BY <2>1
  <2>3. a \in Creates /\ a.temp = i.temp /\ a.seq = i.seq
    BY <2>1, <2>2 DEF Creates, Alike
  <2>4. Past(i, Dropped) => Past(i, Dropped)'
    BY <2>1
  <2>5. Past(i, Released) => Past(i, Released)'
    BY <2>1
  <2>6. (Past(a, Dropped) <=> Past(i, Dropped)) /\ (Past(a, Released) <=> Past(i, Released))
    BY <2>3 DEF Past
  <2> QED BY <2>3, <2>4, <2>5, <2>6
<1>2. \A i \in Creates' : Past(i, Dropped)' \/ i.temp \in DOMAIN locals'
  BY <1>1 DEF Ids
<1>3. ASSUME NEW i \in Creates', NEW j \in Creates', i.temp = j.temp
      PROVE  i = j \/ Past(i, Released)' \/ Past(j, Released)'
  <2>1. PICK a \in Creates : a.temp = i.temp /\ a.seq = i.seq /\ (Past(a, Released) => Past(i, Released)')
    BY <1>1
  <2>2. PICK b \in Creates : b.temp = j.temp /\ b.seq = j.seq /\ (Past(b, Released) => Past(j, Released)')
    BY <1>1
  <2>3. a = b \/ Past(a, Released) \/ Past(b, Released)
    BY <1>3, <2>1, <2>2 DEF Ids
  <2>4. a = b => i = j
    BY <2>1, <2>2 DEF Copied, Creates
  <2> QED BY <2>1, <2>2, <2>3, <2>4
<1>4. \A i \in Creates' : \A r \in Run : drafts[r] # NoDraft /\ drafts[r].id = i.temp => Past(i, Released)'
  BY <1>1 DEF Ids
<1>5. \A r \in Run : drafts[r] # NoDraft /\ drafts[r].step = "enqueue" => drafts[r].id \in DOMAIN locals'
  BY DEF Ids
<1> QED BY <1>2, <1>3, <1>4, <1>5 DEF Ids

\* A new draft takes an id that no create in the queue has.
LEMMA IdsCreate ==
  ASSUME Solo, IInv, Copied, Ids, NEW r \in Run, NEW v \in Vals,
         NEW how \in {"answer", "lost", "unsent"}, CreateTask(r, v, how)
  PROVE  Ids'
<1> DEFINE new == [step |-> "put", id |-> NextTempId, obj |-> Len(want) + 1, val |-> v]
<1>1. /\ UNCHANGED <<outbox, locals, pc, cur>>
      /\ \/ drafts' = drafts
         \/ drafts' = [drafts EXCEPT ![r] = new] /\ how # "answer"
  BY DEF CreateTask, stores, calls
<1>2. NextTempId \notin DOMAIN locals /\ new.id = NextTempId /\ new.step = "put"
  BY NextTempIdLemma DEF IInv
<1>3. \A i \in Creates : how # "answer" => Past(i, Released) \/ i.temp \in DOMAIN locals
  <2>1. how # "answer" => \A s \in Run : pc[s] # "retarget"
    <3>1. \A s \in Run : s = r
      BY DEF Solo
    <3>2. \E t \in Slots : r = <<r[1], t>>
      BY DEF Run
    <3> QED BY <3>1, <3>2 DEF CreateTask
  <2> QED BY <2>1 DEF Ids, Past, Dropped, Released
<1>4. DOMAIN drafts = Run
  BY DEF IInv, TypeInv, TypeOK, StoresOK
<1> HIDE DEF new
<1>5. \A i \in Creates : \A s \in Run : drafts'[s] # NoDraft /\ drafts'[s].id = i.temp => Past(i, Released)
  BY <1>1, <1>2, <1>3, <1>4 DEF Ids
<1>6. \A s \in Run : drafts'[s] # NoDraft /\ drafts'[s].step = "enqueue" => drafts'[s].id \in DOMAIN locals
  BY <1>1, <1>2, <1>4 DEF Ids
<1>7. Creates' = Creates
  BY <1>1 DEF Creates
<1>8. ASSUME NEW i PROVE (Past(i, Released)' <=> Past(i, Released)) /\ (Past(i, Dropped)' <=> Past(i, Dropped))
  BY <1>1 DEF Past
<1> QED BY <1>1, <1>5, <1>6, <1>7, <1>8 DEF Ids

LEMMA IdsPutLocal ==
  ASSUME Solo, IInv, Copied, Ids, NEW r \in Run, PutLocal(r)
  PROVE  Ids'
<1>1. /\ drafts[r] # NoDraft /\ drafts' = [drafts EXCEPT ![r].step = "enqueue"]
      /\ DOMAIN locals' = DOMAIN locals \cup {drafts[r].id} /\ UNCHANGED <<outbox, pc, cur>>
  BY DEF PutLocal, Keep, With, Solo, calls
<1>2. drafts[r] \in Drafts /\ DOMAIN drafts = Run /\ drafts[r] # NoDraft
  BY <1>1 DEF IInv, TypeInv, TypeOK, StoresOK
<1>3. drafts'[r].id = drafts[r].id /\ drafts'[r] # NoDraft /\ \A s \in Run : s # r => drafts'[s] = drafts[s]
  <2>1. "id" \in DOMAIN drafts'[r]
    BY <1>1, <1>2 DEF Drafts
  <2> QED BY <1>1, <1>2, <2>1 DEF Drafts, NoDraft
<1>4. Creates' = Creates
  BY <1>1 DEF Creates
<1>5. ASSUME NEW i PROVE (Past(i, Released)' <=> Past(i, Released)) /\ (Past(i, Dropped)' <=> Past(i, Dropped))
  BY <1>1 DEF Past
<1> QED BY <1>1, <1>3, <1>4, <1>5 DEF Ids

\* The item a write becomes.
LEMMA EnqueuedItem ==
  ASSUME Solo, NEW k, Enqueue(k), {"seq", "kind", "obj", "temp", "task", "val", "done", "cid", "tries"} = DOMAIN k
  PROVE  \E e : /\ outbox' = outbox \cup {e} /\ e.seq = Len(fate) + 1
                /\ e.kind = k.kind /\ e.obj = k.obj /\ e.temp = k.temp /\ e.task = k.task
                /\ e.val = k.val /\ e.done = k.done /\ e.cid = k.cid /\ e.tries = k.tries
<1> DEFINE e == [k EXCEPT !.seq = Len(fate) + 1]
<1>1. outbox' = outbox \cup {e}
  BY DEF Enqueue, Solo
<1>2. /\ e.seq = Len(fate) + 1
      /\ e.kind = k.kind /\ e.obj = k.obj /\ e.temp = k.temp /\ e.task = k.task
      /\ e.val = k.val /\ e.done = k.done /\ e.cid = k.cid /\ e.tries = k.tries
  OBVIOUS
<1> HIDE DEF e
<1> QED BY <1>1, <1>2

\* No call works on what is queued only now.
LEMMA NewIsNotPast ==
  ASSUME IInv, NEW e, e.seq = Len(fate) + 1, NEW S \in {Dropped, Released}
  PROVE  ~Past(e, S)
<1>1. \A r \in Run : pc[r] \in Holding => cur[r].seq # e.seq
  BY Places DEF IInv, Queue, Numbered
<1> QED BY <1>1 DEF Past, Holding, Dropped, Released

LEMMA IdsEnqueueCreate ==
  ASSUME Solo, IInv, Copied, Ids, NEW r \in Run, EnqueueCreate(r)
  PROVE  Ids'
<1> DEFINE d == drafts[r]
           k == [Item("create", d.obj, d.id, d.val, FALSE) EXCEPT !.temp = d.id]
<1>1. /\ d # NoDraft /\ d.step = "enqueue" /\ Enqueue(k) /\ drafts' = [drafts EXCEPT ![r] = NoDraft]
      /\ UNCHANGED <<locals, pc, cur>>
  BY DEF EnqueueCreate, calls
<1>2. /\ DOMAIN k = {"seq", "kind", "obj", "temp", "task", "val", "done", "cid", "tries"}
      /\ k.kind = "create" /\ k.temp = d.id
  BY DEF Item
<1> HIDE DEF k
<1>3. PICK e : outbox' = outbox \cup {e} /\ e.seq = Len(fate) + 1 /\ e.kind = "create" /\ e.temp = d.id
  BY <1>1, <1>2, EnqueuedItem
<1>4. Creates' = Creates \cup {e}
  BY <1>3 DEF Creates
<1>5. ASSUME NEW i PROVE (Past(i, Released)' <=> Past(i, Released)) /\ (Past(i, Dropped)' <=> Past(i, Dropped))
  BY <1>1 DEF Past
<1>6. \A i \in Creates : i.temp = d.id => Past(i, Released)
  BY <1>1 DEF Ids
<1>7. d.id \in DOMAIN locals
  BY <1>1 DEF Ids
<1>8. \A s \in Run : drafts'[s] = NoDraft
  BY <1>1 DEF Solo, IInv, TypeInv, TypeOK, StoresOK
<1> HIDE DEF d
<1>9. \A i \in Creates' : Past(i, Dropped)' \/ i.temp \in DOMAIN locals'
  BY <1>1, <1>3, <1>4, <1>5, <1>7 DEF Ids
<1>10. \A i, j \in Creates' : i.temp = j.temp => i = j \/ Past(i, Released)' \/ Past(j, Released)'
  BY <1>3, <1>4, <1>5, <1>6 DEF Ids
<1> QED BY <1>8, <1>9, <1>10 DEF Ids

\* A write to a row is no create: ids stay as they are.
LEMMA IdsWriteRow ==
  ASSUME Solo, IInv, Copied, Ids, NEW tab \in Tabs, NEW row \in DOMAIN rows, NEW v \in Vals,
         NEW kind \in {"patch", "done", "delete"},
         NEW how \in {"answer", "lost", "unsent"}, WriteRow(tab, row, kind, v, how)
  PROVE  Ids'
<1> DEFINE k == Item(kind, rows[row].obj, row, v, ~want[rows[row].obj].done)
<1>1. UNCHANGED <<drafts, locals, pc, cur>> /\ (outbox' = outbox \/ Enqueue(k))
  BY DEF WriteRow, calls
<1>2. DOMAIN k = {"seq", "kind", "obj", "temp", "task", "val", "done", "cid", "tries"} /\ k.kind # "create"
  BY DEF Item
<1> HIDE DEF k
<1>3. outbox' = outbox \/ \E e : outbox' = outbox \cup {e} /\ e.kind # "create"
  BY <1>1, <1>2, EnqueuedItem
<1>4. Creates' = Creates
  BY <1>3 DEF Creates
<1>5. ASSUME NEW i PROVE (Past(i, Released)' <=> Past(i, Released)) /\ (Past(i, Dropped)' <=> Past(i, Dropped))
  BY <1>1 DEF Past
<1> QED BY <1>1, <1>4, <1>5 DEF Ids

\* Where the copy goes, the call is about to settle the only create with this id.
LEMMA IdsDropLocal ==
  ASSUME Solo, IInv, Copied, Ids, NEW r \in Run, DropLocal(r)
  PROVE  Ids'
<1>1. /\ pc[r] = "drop" /\ DOMAIN locals' = DOMAIN locals \ {cur[r].temp}
      /\ UNCHANGED <<outbox, drafts, cur>> /\ pc'[r] \in {"remove", "retarget"}
  BY DEF DropLocal, Without, IInv, TypeInv, TypeOK, CallsOK
<1>2. \A s \in Run : s = r
  BY DEF Solo
<1>3. PICK j \in outbox : Alike(j, cur[r])
  BY <1>1, CurIsQueued DEF Holding
<1>4. j \in Creates
  BY <1>1, <1>3 DEF Creates, Alike, Copied, CallCopied
<1>5. ASSUME NEW i PROVE ~Past(i, Released) /\ ~Past(i, Dropped)
  BY <1>1, <1>2 DEF Past, Released, Dropped
<1>6. Past(j, Dropped)'
  BY <1>1, <1>3 DEF Past, Dropped, Alike
<1>7. Creates' = Creates
  BY <1>1 DEF Creates
<1>8. ASSUME NEW i \in Creates PROVE Past(i, Dropped)' \/ i.temp \in DOMAIN locals'
  <2>1. i = j \/ i.temp # cur[r].temp
    BY <1>3, <1>4, <1>5 DEF Ids, Alike
  <2> QED BY <1>1, <1>5, <1>6, <2>1 DEF Ids
<1>9. ASSUME NEW s \in Run, drafts[s] # NoDraft, drafts[s].step = "enqueue" PROVE drafts[s].id \in DOMAIN locals'
  <2>1. drafts[s].id # cur[r].temp
    BY <1>3, <1>4, <1>5, <1>9 DEF Ids, Alike
  <2> QED BY <1>1, <1>9, <2>1 DEF Ids
<1>10. \A a, b \in Creates : a.temp = b.temp => a = b
  BY <1>5 DEF Ids
<1>11. \A a \in Creates : \A s \in Run : ~(drafts[s] # NoDraft /\ drafts[s].id = a.temp)
  BY <1>5 DEF Ids
<1> QED BY <1>1, <1>7, <1>8, <1>9, <1>10, <1>11 DEF Ids

LEMMA IdsSync ==
  ASSUME Solo, IInv, Copied, Copied', Ids, NEW r \in Run, SyncStep(r)
  PROVE  Ids'
<1>0. (\A s \in Run : s = r) /\ DOMAIN pc = Run /\ DOMAIN cur = Run
  BY DEF Solo, IInv, TypeInv, TypeOK, CallsOK
<1>1. CASE DropLocal(r)
  BY <1>1, IdsDropLocal
<1>2. CASE ~DropLocal(r)
  <2>1. UNCHANGED <<drafts, locals>>
    <3>1. CASE SendStep(r)
      BY <3>1, SendShape
    <3> QED BY <1>2, <3>1 DEF SyncStep, StartSync, ReadSnapshot, Retarget, Rewrite, Remove, PutBack,
               Finish, RefreshPage, stores
  <2>2. \A i \in outbox' : \E a \in outbox : Alike(a, i)
    BY SyncAddsNone
  <2>3. ASSUME NEW i \in outbox', NEW S \in {Dropped, Released}, Past(i, S) PROVE Past(i, S)'
    <3>1. pc[r] \in S /\ cur[r].seq = i.seq
      BY <1>0, <2>3 DEF Past
    <3>2. pc[r] \in {"retarget", "rewrite", "remove"}
      BY <3>1 DEF Dropped, Released
    <3>3. CASE SendStep(r)
      BY <3>2, <3>3, SendShape DEF Begin
    <3>4. CASE Retarget(r)
      <4>1. pc'[r] \in {"remove", "rewrite"} /\ cur' = cur
        BY <1>0, <3>4 DEF Retarget
      <4>2. pc'[r] \in S
        BY <4>1 DEF Dropped, Released
      <4> QED BY <3>1, <4>1, <4>2 DEF Past
    <3>5. CASE Rewrite(r)
      <4>1. pc'[r] = "remove" /\ cur' = cur
        BY <1>0, <3>5 DEF Rewrite
      <4>2. pc'[r] \in S
        BY <4>1 DEF Dropped, Released
      <4> QED BY <3>1, <4>1, <4>2 DEF Past
    <3>6. CASE Remove(r)
      BY <3>1, <3>6 DEF Remove
    <3> QED BY <1>2, <3>2, <3>3, <3>4, <3>5, <3>6 DEF SyncStep, StartSync, ReadSnapshot, PutBack,
               Finish, RefreshPage
  <2> QED BY <2>1, <2>2, <2>3, IdsStand
<1> QED BY <1>1, <1>2

LEMMA StepIds ==
  Solo /\ "temp_delete" \notin Admitted /\ IInv /\ Copied /\ Ids /\ [Next]_vars => Ids'
<1> SUFFICES ASSUME Solo, "temp_delete" \notin Admitted, IInv, Copied, Ids, [Next]_vars PROVE Ids'
  OBVIOUS
<1>0. Copied'
  BY StepCopied
<1>1. ASSUME UNCHANGED <<outbox, drafts, pc, cur>>, DOMAIN locals \subseteq DOMAIN locals' PROVE Ids'
  <2>1. \A i \in outbox' : \E a \in outbox : Alike(a, i)
    BY <1>1 DEF Alike
  <2>2. \A i, S : Past(i, S)' <=> Past(i, S)
    BY <1>1 DEF Past
  <2>3. \A i \in outbox' : \A S \in {Dropped, Released} : Past(i, S) => Past(i, S)'
    BY <2>2
  <2> QED BY <1>0, <1>1, <2>1, <2>3, IdsStand
<1>2. ASSUME NEW tab \in Tabs, NEW id, NEW v \in Vals, NEW d \in BOOLEAN, EditTemp(tab, id, v, d)
      PROVE  Ids'
  BY <1>1, <1>2 DEF EditTemp, Keep, With, calls
<1>3. ASSUME NEW tab \in Tabs, NEW id, DeleteTemp(tab, id) PROVE FALSE
  BY <1>3 DEF DeleteTemp
<1>4. ASSUME NEW k \in DOMAIN rows, OtherDeviceDelete(k) PROVE Ids'
  BY <1>1, <1>4 DEF OtherDeviceDelete, stores, calls
<1>5. ASSUME NEW r \in Run, NEW v \in Vals, NEW how \in {"answer", "lost", "unsent"}, CreateTask(r, v, how)
      PROVE  Ids'
  BY <1>5, IdsCreate
<1>6. ASSUME NEW tab \in Tabs, NEW k \in DOMAIN rows, NEW v \in Vals,
             NEW kind \in {"patch", "done", "delete"},
             NEW how \in {"answer", "lost", "unsent"}, WriteRow(tab, k, kind, v, how)
      PROVE  Ids'
  BY <1>6, IdsWriteRow
<1>7. CASE Write
  BY <1>2, <1>3, <1>4, <1>5, <1>6, <1>7, ZenonT(60) DEF Write
<1>8. CASE Environment
  BY <1>1, <1>8 DEF Environment, ClosePage, GoDown, GoUp, stores, calls, Solo
<1>9. ASSUME NEW r \in Run, DraftStep(r) PROVE Ids'
  BY <1>9, IdsPutLocal, IdsEnqueueCreate DEF DraftStep
<1>10. ASSUME NEW r \in Run, SyncStep(r) PROVE Ids'
  BY <1>0, <1>10, IdsSync
<1>11. CASE UNCHANGED vars
  BY <1>1, <1>11 DEF vars, stores, calls
<1> QED BY <1>7, <1>8, <1>9, <1>10, <1>11 DEF Next

-----------------------------------------------------------------------------
OfTask(i)  == i.task \in DOMAIN rows /\ rows[i.task].obj = i.obj
NamesRow(i) == IF i.kind = "create" THEN i.task = i.temp ELSE OfTask(i)

\* A queued write names the row of its task, a create its temporary id until the call that
\* delivered it has written the row's id over it.
CallNames(r) ==
  /\ \A i \in todo[r] : NamesRow(i)
  /\ pc[r] = "rewrite" => \A j \in affected[r] : j.seq = cur[r].seq
  /\ \A t \in DOMAIN idMap[r] : t < 0

Names ==
  /\ \A i \in outbox : NamesRow(i) \/ (i.kind = "create" /\ Past(i, {"remove"}))
  /\ \A r \in Run : CallNames(r)

LEMMA NamesStay ==
  ASSUME RowsStay, NEW i, NamesRow(i)
  PROVE  NamesRow(i)'
BY DEF RowsStay, NamesRow, OfTask

LEMMA NamesStand ==
  ASSUME Names, RowsStay, UNCHANGED <<todo, cur, pc, affected, idMap>>,
         \A i \in outbox' : i \in outbox \/ NamesRow(i)'
  PROVE  Names'
<1>1. \A i : Past(i, {"remove"}) => Past(i, {"remove"})'
  BY DEF Past
<1>2. \A i \in outbox : NamesRow(i)' \/ (i.kind = "create" /\ Past(i, {"remove"})')
  BY <1>1, NamesStay DEF Names
<1>3. ASSUME NEW r \in Run PROVE CallNames(r)'
  BY NamesStay DEF Names, CallNames
<1> QED BY <1>2, <1>3 DEF Names

LEMMA NamesWrites ==
  ASSUME Solo, IInv, Copied, Names, RowsStay, Write \/ \E r \in Run : DraftStep(r)
  PROVE  Names'
<1>1. ASSUME NEW r \in Run, NEW v \in Vals, NEW how \in {"answer", "lost", "unsent"},
             CreateTask(r, v, how)
      PROVE  Names'
  BY <1>1, NamesStand DEF CreateTask, stores, calls
<1>2. ASSUME NEW tab \in Tabs, NEW row \in DOMAIN rows, NEW v \in Vals,
             NEW kind \in {"patch", "done", "delete"},
             NEW how \in {"answer", "lost", "unsent"}, WriteRow(tab, row, kind, v, how)
      PROVE  Names'
  <2> DEFINE k == Item(kind, rows[row].obj, row, v, ~want[rows[row].obj].done)
  <2>1. UNCHANGED <<todo, cur, pc, affected, idMap>> /\ (outbox' = outbox \/ Enqueue(k))
    BY <1>2 DEF WriteRow, calls
  <2>2. /\ DOMAIN k = {"seq", "kind", "obj", "temp", "task", "val", "done", "cid", "tries"}
        /\ k.kind # "create" /\ k.task = row /\ k.obj = rows[row].obj
    BY DEF Item
  <2> HIDE DEF k
  <2>3. outbox' = outbox \/ \E e : outbox' = outbox \cup {e} /\ e.kind # "create" /\ e.task = row /\ e.obj = rows[row].obj
    BY <2>1, <2>2, EnqueuedItem
  <2>4. \A i \in outbox' : i \in outbox \/ NamesRow(i)'
    BY <2>3 DEF NamesRow, OfTask, RowsStay
  <2> QED BY <2>1, <2>4, NamesStand
<1>3. ASSUME NEW tab \in Tabs, NEW id,
             \/ \E v \in Vals, d \in BOOLEAN : EditTemp(tab, id, v, d)
             \/ DeleteTemp(tab, id)
      PROVE  Names'
  BY <1>3, NamesStand DEF EditTemp, DeleteTemp, calls
<1>4. ASSUME NEW k \in DOMAIN rows, OtherDeviceDelete(k) PROVE Names'
  BY <1>4, NamesStand DEF OtherDeviceDelete, stores, calls
<1>5. CASE Write
  BY <1>1, <1>2, <1>3, <1>4, <1>5, ZenonT(60) DEF Write
<1>6. ASSUME NEW r \in Run, PutLocal(r) PROVE Names'
  BY <1>6, NamesStand DEF PutLocal, calls
<1>7. ASSUME NEW r \in Run, EnqueueCreate(r) PROVE Names'
  <2> DEFINE d == drafts[r]
             k == [Item("create", d.obj, d.id, d.val, FALSE) EXCEPT !.temp = d.id]
  <2>1. UNCHANGED <<todo, cur, pc, affected, idMap>> /\ Enqueue(k)
    BY <1>7 DEF EnqueueCreate, calls
  <2>2. /\ DOMAIN k = {"seq", "kind", "obj", "temp", "task", "val", "done", "cid", "tries"}
        /\ k.kind = "create" /\ k.task = k.temp
    BY DEF Item
  <2> HIDE DEF k
  <2>3. PICK e : outbox' = outbox \cup {e} /\ e.kind = "create" /\ e.task = e.temp
    BY <2>1, <2>2, EnqueuedItem
  <2>4. \A i \in outbox' : i \in outbox \/ NamesRow(i)'
    BY <2>3 DEF NamesRow
  <2> QED BY <2>1, <2>4, NamesStand
<1> QED BY <1>5, <1>6, <1>7 DEF DraftStep

\* The only queued write that names the temporary id is the create that got the row.
LEMMA FoundIsCur ==
  ASSUME Solo, IInv, Copied, Ids, Names, NEW r \in Run, pc[r] = "retarget",
         NEW i \in outbox, i.task = cur[r].temp
  PROVE  i.seq = cur[r].seq
<1>0. \A s \in Run : s = r
  BY DEF Solo
<1>1. PICK j \in outbox : Alike(j, cur[r])
  BY CurIsQueued DEF Holding
<1>2. cur[r].kind = "create" /\ j.kind = "create" /\ j.temp = cur[r].temp /\ j.seq = cur[r].seq
  BY <1>1 DEF Copied, CallCopied, Alike
<1>3. j.temp < 0 /\ j \in Items
  BY <1>2 DEF Copied, Marked, IInv, TypeInv, TypeOK, StoresOK
<1>4. NamesRow(i)
  BY <1>0 DEF Names, Past
<1>5. i.kind = "create"
  <2> SUFFICES ASSUME i.kind # "create" PROVE FALSE
    OBVIOUS
  <2>1. i.task \in DOMAIN rows
    BY <1>4 DEF NamesRow, OfTask
  <2>2. i.task > 0
    BY <2>1, LenProperties DEF IInv, TypeInv, TypeOK, WorldOK
  <2> QED BY <1>2, <1>3, <2>2 DEF Items
<1>6. i.temp = j.temp /\ i \in Creates /\ j \in Creates
  BY <1>2, <1>4, <1>5 DEF NamesRow, Creates
<1>7. ~Past(i, Released) /\ ~Past(j, Released)
  BY <1>0 DEF Past, Released
<1> QED BY <1>2, <1>6, <1>7 DEF Ids

LEMMA NamesSync ==
  ASSUME Solo, IInv, Copied, Ids, Names, RowsStay, NEW r \in Run, SyncStep(r)
  PROVE  Names'
<1>0. /\ \A s \in Run : s = r
      /\ DOMAIN pc = Run /\ DOMAIN cur = Run /\ DOMAIN todo = Run /\ DOMAIN idMap = Run /\ DOMAIN affected = Run
      /\ outbox \subseteq Items /\ todo[r] \subseteq Items /\ CallNames(r)
  BY DEF Solo, IInv, TypeInv, TypeOK, CallsOK, StoresOK, Names
<1>1. /\ \A i \in outbox : NamesRow(i) => NamesRow(i)'
      /\ \A i \in todo[r] : NamesRow(i)'
  BY <1>0, NamesStay DEF CallNames
<1>2. pc[r] # "remove" => \A i \in outbox : NamesRow(i) /\ NamesRow(i)'
  BY <1>0, <1>1 DEF Names, Past
<1>3. CASE StartSync(r) \/ ReadSnapshot(r) \/ Finish(r) \/ RefreshPage(r)
  <2>1. /\ outbox' = outbox /\ pc[r] # "remove"
        /\ pc'[r] # "rewrite" /\ pc'[r] # "remove"
        /\ todo'[r] \in {todo[r], outbox, {}} /\ idMap'[r] \in {idMap[r], <<>>}
    BY <1>0, <1>3 DEF StartSync, ReadSnapshot, Finish, RefreshPage, stores
  <2>2. CallNames(r)'
    <3>1. DOMAIN <<>> = {}
      OBVIOUS
    <3> QED BY <1>0, <1>1, <1>2, <2>1, <3>1 DEF CallNames
  <2> QED BY <1>0, <1>2, <2>1, <2>2 DEF Names
<1>4. CASE SendStep(r)
  <2>1. /\ UNCHANGED <<outbox, todo, idMap>> /\ pc[r] = "send" /\ pc'[r] \in {"drop", "remove", "put", "finish"}
    BY <1>0, <1>4, SendShape DEF Begin
  <2>2. CallNames(r)'
    BY <1>0, <1>1, <2>1 DEF CallNames
  <2> QED BY <1>0, <1>2, <2>1, <2>2 DEF Names
<1>5. CASE DropLocal(r)
  <2>1. /\ UNCHANGED <<outbox, todo>> /\ pc[r] = "drop" /\ pc'[r] # "rewrite"
        /\ idMap'[r] = idMap[r] \/ idMap'[r] = With(idMap[r], cur[r].task, res[r])
    BY <1>0, <1>5 DEF DropLocal
  <2>2. cur[r].task < 0
    <3>1. PICK i \in todo[r] : Alike(i, cur[r]) /\ i.task = cur[r].task
      BY <2>1, CurIsQueued DEF Holding
    <3>2. i.kind = "create" /\ Marked(i)
      BY <2>1, <3>1 DEF Copied, CallCopied, Alike
    <3> QED BY <1>0, <3>1, <3>2 DEF Marked, CallNames, NamesRow
  <2>3. CallNames(r)'
    BY <1>0, <1>1, <2>1, <2>2 DEF CallNames, With
  <2> QED BY <1>0, <1>2, <2>1, <2>3 DEF Names
<1>6. CASE Retarget(r)
  <2>1. /\ UNCHANGED <<outbox, todo, idMap, cur>> /\ pc[r] = "retarget"
        /\ affected'[r] = {i \in outbox : i.task = cur[r].temp}
    BY <1>0, <1>6 DEF Retarget, stores
  <2>2. CallNames(r)'
    BY <1>0, <1>1, <2>1, FoundIsCur DEF CallNames
  <2> QED BY <1>0, <1>2, <2>1, <2>2 DEF Names
<1>7. CASE Rewrite(r)
  <2>1. /\ UNCHANGED <<todo, idMap, cur>> /\ pc[r] = "rewrite" /\ pc'[r] = "remove"
        /\ outbox' = {i \in outbox : \A j \in affected[r] : j.seq # i.seq}
                       \cup {[j EXCEPT !.task = res[r]] : j \in affected[r]}
        /\ affected[r] \subseteq outbox
    BY <1>0, <1>7 DEF Rewrite, Copied, CallCopied
  <2>2. CallNames(r)'
    BY <1>0, <1>1, <2>1 DEF CallNames
  <2>3. ASSUME NEW i \in outbox' PROVE i \in outbox \/ (i.kind = "create" /\ i.seq = cur[r].seq)
    <3>1. PICK c \in outbox : Alike(c, cur[r])
      BY <2>1, CurIsQueued DEF Holding
    <3>2. c.kind = "create"
      BY <2>1, <3>1 DEF Copied, CallCopied, Alike
    <3>3. ASSUME NEW j \in affected[r], i = [j EXCEPT !.task = res[r]] PROVE i.kind = "create" /\ i.seq = cur[r].seq
      <4>1. j \in Items /\ j.seq = cur[r].seq /\ j \in outbox
        BY <1>0, <2>1 DEF CallNames
      <4>2. j = c
        BY <3>1, <4>1 DEF Copied, Alike
      <4> QED BY <3>2, <3>3, <4>1, <4>2 DEF Items
    <3> QED BY <2>1, <3>3
  <2> QED BY <1>0, <1>2, <2>1, <2>2, <2>3 DEF Names, Past
<1>8. CASE Remove(r)
  <2>1. /\ UNCHANGED <<idMap, cur>> /\ pc[r] = "remove" /\ pc'[r] # "rewrite"
        /\ outbox' = {i \in outbox : i.seq # cur[r].seq} /\ todo'[r] \subseteq todo[r]
    BY <1>0, <1>8 DEF Remove
  <2>2. CallNames(r)'
    BY <1>0, <1>1, <2>1 DEF CallNames
  <2>3. \A i \in outbox' : NamesRow(i)'
    BY <1>0, <1>1, <2>1 DEF Names, Past
  <2> QED BY <1>0, <2>2, <2>3 DEF Names
<1>9. CASE PutBack(r)
  <2>0. PICK again : again = [cur[r] EXCEPT !.tries = @ + 1]
    OBVIOUS
  <2>1. /\ UNCHANGED <<idMap, cur, todo>> /\ pc[r] = "put" /\ pc'[r] = "finish"
        /\ outbox' = {i \in outbox : i.seq # cur[r].seq} \cup {again}
    BY <1>0, <1>9, <2>0 DEF PutBack
  <2>2. cur[r] \in Items
    BY <2>1 DEF IInv, TypeInv, TypeOK, CallsOK, Holding
  <2>3. PICK i \in todo[r] : Alike(i, cur[r]) /\ i.task = cur[r].task
    BY <2>1, CurIsQueued DEF Holding
  <2>4. again.kind = i.kind /\ again.temp = i.temp /\ again.task = i.task /\ again.obj = i.obj
    BY <2>0, <2>2, <2>3 DEF Items, Alike
  <2>5. NamesRow(again)'
    BY <1>1, <2>4 DEF NamesRow, OfTask
  <2>6. CallNames(r)'
    BY <1>0, <1>1, <2>1 DEF CallNames
  <2> QED BY <1>0, <1>2, <2>1, <2>5, <2>6 DEF Names
<1> QED BY <1>3, <1>4, <1>5, <1>6, <1>7, <1>8, <1>9 DEF SyncStep

LEMMA StepNames ==
  Solo /\ IInv /\ Copied /\ Ids /\ Names /\ [Next]_vars => Names'
<1> SUFFICES ASSUME Solo, IInv, Copied, Ids, Names, [Next]_vars PROVE Names'
  OBVIOUS
<1>0. RowsStay
  BY StepRows
<1>1. CASE Write \/ \E r \in Run : DraftStep(r)
  BY <1>0, <1>1, NamesWrites
<1>2. CASE Environment
  BY <1>0, <1>2, NamesStand DEF Environment, ClosePage, GoDown, GoUp, stores, calls, Solo
<1>3. ASSUME NEW r \in Run, SyncStep(r) PROVE Names'
  BY <1>0, <1>3, NamesSync
<1>4. CASE UNCHANGED vars
  BY <1>0, <1>4, NamesStand DEF vars, stores, calls
<1> QED BY <1>1, <1>2, <1>3, <1>4 DEF Next

\* What holds at the start, when nothing is queued and no call is under way.
LEMMA InitAlone == Init => Copied /\ Ids /\ Names
<1> SUFFICES ASSUME Init PROVE Copied /\ Ids /\ Names
  OBVIOUS
<1>1. /\ outbox = {} /\ \A r \in Run : /\ drafts[r] = NoDraft /\ todo[r] = {} /\ pc[r] = "idle"
                                       /\ idMap[r] = <<>>
  BY DEF Init
<1>2. DOMAIN <<>> = {}
  OBVIOUS
<1> QED BY <1>1, <1>2 DEF Copied, CallCopied, Ids, Names, CallNames, Creates, Active, Holding

\* With one call at a time, and no waiting task deleted, a replayed write goes to the row of
\* its task: whatever goes wrong, whatever is edited or deleted meanwhile, and however
\* often temporary ids are used again (offline.ts idMap, retargetOutbox, nextTempId).
THEOREM SoloSentToItsTask ==
  Solo /\ "temp_delete" \notin Admitted => (Spec => []SentToItsTask)
<1> SUFFICES ASSUME Solo, "temp_delete" \notin Admitted
             PROVE  Spec => []SentToItsTask
  OBVIOUS
<1> DEFINE Inv == Copied /\ Ids /\ Names
<1>1. Spec => []IInv
  BY QueueInvariant DEF Solo
<1>2. IInv /\ Inv /\ [Next]_vars => Inv'
  BY StepCopied, StepIds, StepNames
<1>3. IInv /\ Inv => SentToItsTask
  <2> SUFFICES ASSUME IInv, Names, NEW r \in Run, NEW i \in todo[r], i.kind # "create"
               PROVE  Target(r, i) \in DOMAIN rows /\ rows[Target(r, i)].obj = i.obj
    BY DEF SentToItsTask
  <2>1. OfTask(i) /\ \A t \in DOMAIN idMap[r] : t < 0
    BY DEF Names, CallNames, NamesRow
  <2>2. i.task > 0
    BY <2>1, LenProperties DEF OfTask, IInv, TypeInv, TypeOK, WorldOK
  <2>3. i.task \notin DOMAIN idMap[r]
    BY <2>1, <2>2 DEF IInv, TypeInv, TypeOK, CallsOK
  <2> QED BY <2>1, <2>3 DEF Target, OfTask
<1> QED BY <1>1, <1>2, <1>3, InitAlone, PTL DEF Spec

\* ... and two creates that wait for the server have ids of their own.
THEOREM SoloTempIdsDistinct ==
  Solo /\ "temp_delete" \notin Admitted => (Spec => []TempIdsDistinct)
<1> SUFFICES ASSUME Solo, "temp_delete" \notin Admitted
             PROVE  Spec => []TempIdsDistinct
  OBVIOUS
<1> DEFINE Inv == Copied /\ Ids
<1>1. Spec => []IInv
  BY QueueInvariant DEF Solo
<1>2. IInv /\ Inv /\ [Next]_vars => Inv'
  BY StepCopied, StepIds
<1>3. IInv /\ Inv => TempIdsDistinct
  <2> SUFFICES ASSUME IInv, Ids, NEW i \in outbox, NEW j \in outbox, i.temp = j.temp,
                      i.kind = "create", j.kind = "create", fate[i.seq] = "queued", fate[j.seq] = "queued"
               PROVE  i.seq = j.seq
    BY DEF TempIdsDistinct
  <2>1. ~Past(i, Released) /\ ~Past(j, Released)
    BY DEF Past, Released, IInv, Queue, RemovesSettled
  <2> QED BY <2>1 DEF Ids, Creates
<1> QED BY <1>1, <1>2, <1>3, InitAlone, PTL DEF Spec

-----------------------------------------------------------------------------
(* Local copies are those of the creates on their way.                     *)

Awaited(t) ==
  \/ \E i \in Creates : i.temp = t /\ ~Past(i, Dropped)
  \/ \E s \in Run : drafts[s] # NoDraft /\ drafts[s].id = t

Held == \A t \in DOMAIN locals : Awaited(t)

LEMMA HeldStand ==
  ASSUME Held, DOMAIN locals' \subseteq DOMAIN locals, UNCHANGED drafts,
         \A i \in Creates : ~Past(i, Dropped) /\ i.temp \in DOMAIN locals' =>
           \E j \in Creates' : j.temp = i.temp /\ ~Past(j, Dropped)'
  PROVE  Held'
<1> SUFFICES ASSUME NEW t \in DOMAIN locals' PROVE Awaited(t)'
  BY DEF Held
<1>1. Awaited(t)
  BY DEF Held
<1>2. CASE \E i \in Creates : i.temp = t /\ ~Past(i, Dropped)
  <2>1. PICK i \in Creates : i.temp = t /\ ~Past(i, Dropped)
    BY <1>2
  <2>2. PICK j \in Creates' : j.temp = t /\ ~Past(j, Dropped)'
    BY <2>1
  <2> QED BY <2>2 DEF Awaited
<1>3. CASE \E s \in Run : drafts[s] # NoDraft /\ drafts[s].id = t
  BY <1>3 DEF Awaited
<1> QED BY <1>1, <1>2, <1>3 DEF Awaited

LEMMA HeldWrites ==
  ASSUME Solo, "temp_edit" \notin Admitted, "temp_delete" \notin Admitted, IInv, Copied, Ids, Held,
         Write \/ \E r \in Run : DraftStep(r)
  PROVE  Held'
<1>0. DOMAIN drafts = Run
  BY DEF IInv, TypeInv, TypeOK, StoresOK
<1>1. ASSUME NEW r \in Run, NEW v \in Vals, NEW how \in {"answer", "lost", "unsent"},
             CreateTask(r, v, how)
      PROVE  Held'
  <2>1. /\ UNCHANGED <<outbox, locals, pc, cur>> /\ drafts[r] = NoDraft
        /\ \A s \in Run : s # r => drafts'[s] = drafts[s]
    BY <1>1 DEF CreateTask, stores, calls
  <2>2. Creates' = Creates /\ \A i : Past(i, Dropped)' <=> Past(i, Dropped)
    BY <2>1 DEF Creates, Past
  <2>3. \A t : Awaited(t) => Awaited(t)'
    BY <2>1, <2>2 DEF Awaited
  <2> QED BY <2>1, <2>3 DEF Held
<1>2. ASSUME NEW tab \in Tabs, NEW row \in DOMAIN rows, NEW v \in Vals,
             NEW kind \in {"patch", "done", "delete"},
             NEW how \in {"answer", "lost", "unsent"}, WriteRow(tab, row, kind, v, how)
      PROVE  Held'
  <2>1. UNCHANGED <<drafts, locals, pc, cur>> /\ outbox \subseteq outbox'
    BY <1>2 DEF WriteRow, Enqueue, calls
  <2>2. Creates \subseteq Creates' /\ \A i : Past(i, Dropped)' <=> Past(i, Dropped)
    BY <2>1 DEF Creates, Past
  <2> QED BY <2>1, <2>2, HeldStand
<1>3. ASSUME NEW tab \in Tabs, NEW id,
             \/ \E v \in Vals, d \in BOOLEAN : EditTemp(tab, id, v, d)
             \/ DeleteTemp(tab, id)
      PROVE  FALSE
  BY <1>3 DEF EditTemp, DeleteTemp
<1>4. ASSUME NEW k \in DOMAIN rows, OtherDeviceDelete(k) PROVE Held'
  <2>1. UNCHANGED <<drafts, locals, pc, cur, outbox>>
    BY <1>4 DEF OtherDeviceDelete, stores, calls
  <2>2. Creates' = Creates /\ \A i : Past(i, Dropped)' <=> Past(i, Dropped)
    BY <2>1 DEF Creates, Past
  <2> QED BY <2>1, <2>2, HeldStand
<1>5. CASE Write
  BY <1>1, <1>2, <1>3, <1>4, <1>5, ZenonT(60) DEF Write
<1>6. ASSUME NEW r \in Run, PutLocal(r) PROVE Held'
  <2>1. /\ drafts[r] # NoDraft /\ drafts' = [drafts EXCEPT ![r].step = "enqueue"]
        /\ DOMAIN locals' = DOMAIN locals \cup {drafts[r].id} /\ UNCHANGED <<outbox, pc, cur>>
    BY <1>6 DEF PutLocal, Keep, With, Solo, calls
  <2>2. drafts[r] \in Drafts
    BY <1>0, <2>1 DEF IInv, TypeInv, TypeOK, StoresOK
  <2>3. drafts'[r].id = drafts[r].id /\ drafts'[r] # NoDraft /\ \A s \in Run : s # r => drafts'[s] = drafts[s]
    <3>1. "id" \in DOMAIN drafts'[r]
      BY <1>0, <2>1, <2>2 DEF Drafts
    <3> QED BY <1>0, <2>1, <2>2, <3>1 DEF Drafts, NoDraft
  <2>4. Creates' = Creates /\ \A i : Past(i, Dropped)' <=> Past(i, Dropped)
    BY <2>1 DEF Creates, Past
  <2>5. \A t : Awaited(t) => Awaited(t)'
    BY <2>3, <2>4 DEF Awaited
  <2>6. Awaited(drafts[r].id)'
    BY <2>3 DEF Awaited
  <2> QED BY <2>1, <2>5, <2>6 DEF Held
<1>7. ASSUME NEW r \in Run, EnqueueCreate(r) PROVE Held'
  <2> DEFINE d == drafts[r]
             k == [Item("create", d.obj, d.id, d.val, FALSE) EXCEPT !.temp = d.id]
  <2>1. /\ Enqueue(k) /\ drafts' = [drafts EXCEPT ![r] = NoDraft] /\ UNCHANGED <<locals, pc, cur>>
    BY <1>7 DEF EnqueueCreate, calls
  <2>2. /\ DOMAIN k = {"seq", "kind", "obj", "temp", "task", "val", "done", "cid", "tries"}
        /\ k.kind = "create" /\ k.temp = d.id
    BY DEF Item
  <2> HIDE DEF k
  <2>3. PICK e : outbox' = outbox \cup {e} /\ e.seq = Len(fate) + 1 /\ e.kind = "create" /\ e.temp = d.id
    BY <2>1, <2>2, EnqueuedItem
  <2>4. Creates' = Creates \cup {e} /\ \A i : Past(i, Dropped)' <=> Past(i, Dropped)
    BY <2>1, <2>3 DEF Creates, Past
  <2>5. ~Past(e, Dropped)
    BY <2>3, NewIsNotPast
  <2>6. \A t : Awaited(t) => Awaited(t)'
    BY <1>0, <2>1, <2>3, <2>4, <2>5 DEF Awaited
  <2> QED BY <2>1, <2>6 DEF Held
<1> QED BY <1>5, <1>6, <1>7 DEF DraftStep

LEMMA HeldSync ==
  ASSUME Solo, "bodyless" \notin Admitted, IInv, Copied, Names, Held, NEW r \in Run, SyncStep(r)
  PROVE  Held'
<1>0. /\ \A s \in Run : s = r
      /\ DOMAIN pc = Run /\ DOMAIN cur = Run
  BY DEF Solo, IInv, TypeInv, TypeOK, CallsOK
<1>1. CASE StartSync(r) \/ ReadSnapshot(r) \/ Finish(r) \/ RefreshPage(r)
  <2>1. UNCHANGED <<outbox, locals, drafts>> /\ pc'[r] \notin Dropped
    BY <1>0, <1>1 DEF StartSync, ReadSnapshot, Finish, RefreshPage, stores, Dropped
  <2>2. Creates' = Creates /\ \A i : ~Past(i, Dropped)'
    BY <1>0, <2>1 DEF Creates, Past
  <2> QED BY <2>1, <2>2, HeldStand
<1>2. CASE SendStep(r)
  <2>1. PICK i \in todo[r] :
         \/ \E body \in BOOLEAN : SendOk(r, i, body)
         \/ SendRejected(r, i)
         \/ \E how \in {"lost", "unsent"} : SendFailed(r, i, how)
         \/ SendUnauthorized(r, i)
    BY <1>2 DEF SendStep
  <2>2. /\ Begin(r, i) /\ UNCHANGED <<outbox, locals, drafts>> /\ pc[r] = "send"
        /\ cur'[r] = WithCid(i)
    BY <1>0, <2>1 DEF SendOk, SendRejected, SendFailed, SendUnauthorized, Begin, stores
  <2>3. i \in Items /\ i.kind \in Kinds /\ Marked(i)
    BY DEF IInv, TypeInv, TypeOK, CallsOK, Items, Copied, CallCopied
  <2>4. WithCid(i).seq = i.seq
    BY <2>3, WithCidType DEF IInv, TypeInv, TypeOK, WorldOK
  <2>5. i.kind = "create" => pc'[r] \notin Dropped
    <3> SUFFICES ASSUME i.kind = "create" PROVE pc'[r] \notin Dropped
      OBVIOUS
    <3>0. i.temp # 0
      BY <2>3 DEF Marked
    <3>1. ASSUME NEW body \in BOOLEAN, SendOk(r, i, body) PROVE pc'[r] = "drop"
      BY <1>0, <3>1 DEF SendOk
    <3>2. CASE SendRejected(r, i)
      BY <1>0, <3>0, <3>2 DEF SendRejected, Dropped
    <3>3. ASSUME NEW how, SendFailed(r, i, how) PROVE pc'[r] \in {"drop", "put"}
      BY <1>0, <3>0, <3>3 DEF SendFailed
    <3>4. CASE SendUnauthorized(r, i)
      BY <1>0, <3>4 DEF SendUnauthorized, Dropped
    <3> QED BY <2>1, <3>1, <3>2, <3>3, <3>4 DEF Dropped
  <2>6. PICK q \in outbox : q.seq = i.seq /\ q.kind = i.kind
    BY <2>2 DEF Copied, CallCopied, Active, SameWrite
  <2>7. Creates' = Creates
    BY <2>2 DEF Creates
  <2>8. ASSUME NEW c \in Creates PROVE ~Past(c, Dropped)'
    <3>1. c.seq = i.seq => i.kind = "create"
      BY <2>6 DEF Copied, Creates
    <3> QED BY <1>0, <2>2, <2>4, <2>5, <3>1 DEF Past
  <2> QED BY <2>2, <2>7, <2>8, HeldStand
<1>3. CASE DropLocal(r)
  <2>1. /\ pc[r] = "drop" /\ DOMAIN locals' = DOMAIN locals \ {cur[r].temp}
        /\ UNCHANGED <<outbox, drafts, cur>>
    BY <1>3 DEF DropLocal, Without
  <2>2. PICK q \in outbox : Alike(q, cur[r])
    BY <2>1, CurIsQueued DEF Holding
  <2>3. Creates' = Creates
    BY <2>1 DEF Creates
  <2>4. ASSUME NEW c \in Creates, c.temp # cur[r].temp PROVE ~Past(c, Dropped)'
    <3>1. c.seq # cur[r].seq
      BY <2>2, <2>4 DEF Copied, Creates, Alike
    <3> QED BY <1>0, <2>1, <3>1 DEF Past
  <2> QED BY <2>1, <2>3, <2>4, HeldStand
<1>4. CASE Retarget(r) \/ Rewrite(r) \/ Remove(r)
  <2>1. pc[r] \in Dropped /\ UNCHANGED <<locals, drafts, cur>>
    BY <1>4 DEF Retarget, Rewrite, Remove, Dropped, stores
  <2>2. ASSUME NEW c \in outbox, c.seq # cur[r].seq PROVE c \in outbox'
    <3>1. CASE Retarget(r)
      BY <3>1 DEF Retarget, stores
    <3>2. CASE Rewrite(r)
      <4>1. \A j \in affected[r] : j.seq = cur[r].seq
        BY <3>2 DEF Rewrite, Names, CallNames
      <4> QED BY <2>2, <3>2, <4>1 DEF Rewrite
    <3>3. CASE Remove(r)
      BY <2>2, <3>3 DEF Remove
    <3> QED BY <1>4, <3>1, <3>2, <3>3
  <2>3. ASSUME NEW c \in Creates, ~Past(c, Dropped) PROVE c \in Creates' /\ ~Past(c, Dropped)'
    <3>1. c.seq # cur[r].seq
      BY <2>1, <2>3 DEF Past
    <3> QED BY <1>0, <2>1, <2>2, <3>1 DEF Past, Creates
  <2> QED BY <2>1, <2>3, HeldStand
<1>5. CASE PutBack(r)
  <2>0. PICK again : again = [cur[r] EXCEPT !.tries = @ + 1]
    OBVIOUS
  <2>1. /\ UNCHANGED <<locals, drafts, cur>> /\ pc[r] = "put" /\ pc'[r] = "finish"
        /\ outbox' = {i \in outbox : i.seq # cur[r].seq} \cup {again}
    BY <1>0, <1>5, <2>0 DEF PutBack
  <2>2. cur[r] \in Items
    BY <2>1 DEF IInv, TypeInv, TypeOK, CallsOK, Holding
  <2>3. PICK q \in outbox : Alike(q, cur[r])
    BY <2>1, CurIsQueued DEF Holding
  <2>4. again.kind = q.kind /\ again.temp = q.temp
    BY <2>0, <2>2, <2>3 DEF Items, Alike
  <2>5. \A i : ~Past(i, Dropped)'
    BY <1>0, <2>1 DEF Past, Dropped
  <2>6. ASSUME NEW c \in Creates PROVE \E j \in Creates' : j.temp = c.temp
    <3>1. c = q \/ c.seq # cur[r].seq
      BY <2>3 DEF Copied, Creates, Alike
    <3> QED BY <2>1, <2>4, <3>1 DEF Creates
  <2> QED BY <2>1, <2>5, <2>6, HeldStand
<1> QED BY <1>1, <1>2, <1>3, <1>4, <1>5 DEF SyncStep

\* With one call at a time, answers that can be read, and waiting tasks left alone, the local
\* copies are those of the creates on the way: no phantom stays, and no waiting task is
\* invisible, whatever requests go wrong (offline.ts dropLocalTask, createTaskOffline).
THEOREM SoloCopiesMatchQueue ==
  Solo /\ Admitted \cap {"temp_edit", "temp_delete", "bodyless"} = {} => (Spec => []CopiesMatchQueue)
<1> SUFFICES ASSUME Solo, "temp_edit" \notin Admitted, "temp_delete" \notin Admitted, "bodyless" \notin Admitted
             PROVE  Spec => []CopiesMatchQueue
  OBVIOUS
<1> DEFINE Inv == Copied /\ Ids /\ Names /\ Held
<1>1. Spec => []IInv
  BY QueueInvariant DEF Solo
<1>2. Init => Inv
  <2>1. DOMAIN <<>> = {}
    OBVIOUS
  <2> QED BY <2>1, InitAlone DEF Init, Held
<1>3. IInv /\ Inv /\ [Next]_vars => Inv'
  <2> SUFFICES ASSUME IInv, Inv, [Next]_vars PROVE Inv'
    OBVIOUS
  <2>1. Copied' /\ Ids' /\ Names'
    BY StepCopied, StepIds, StepNames
  <2>2. ASSUME UNCHANGED <<outbox, drafts, pc, cur, locals>> PROVE Held'
    <3>1. Creates' = Creates /\ \A i : Past(i, Dropped)' <=> Past(i, Dropped)
      BY <2>2 DEF Creates, Past
    <3> QED BY <2>2, <3>1, HeldStand
  <2>3. CASE Write \/ \E r \in Run : DraftStep(r)
    BY <2>1, <2>3, HeldWrites
  <2>4. CASE Environment
    BY <2>1, <2>2, <2>4 DEF Environment, ClosePage, GoDown, GoUp, stores, calls, Solo
  <2>5. ASSUME NEW r \in Run, SyncStep(r) PROVE Held'
    BY <2>5, HeldSync
  <2>6. CASE UNCHANGED vars
    BY <2>1, <2>2, <2>6 DEF vars, stores, calls
  <2> QED BY <2>1, <2>3, <2>4, <2>5, <2>6 DEF Next
<1>4. IInv /\ Inv => CopiesMatchQueue
  <2> SUFFICES ASSUME IInv, Ids, Held PROVE CopiesMatchQueue
    OBVIOUS
  <2>1. ASSUME NEW t \in DOMAIN locals
        PROVE  \/ \E i \in outbox : i.kind = "create" /\ i.temp = t
               \/ \E s \in Run : drafts[s] # NoDraft /\ drafts[s].id = t
    BY DEF Held, Awaited, Creates
  <2>2. ASSUME NEW i \in outbox, i.kind = "create", fate[i.seq] = "queued" PROVE i.temp \in DOMAIN locals
    <3>1. ~Past(i, Dropped)
      BY <2>2 DEF Past, Dropped, IInv, Queue, RemovesSettled
    <3> QED BY <2>2, <3>1 DEF Ids, Creates
  <2> QED BY <2>1, <2>2 DEF CopiesMatchQueue
<1> QED BY <1>1, <1>2, <1>3, <1>4, PTL DEF Spec

-----------------------------------------------------------------------------
(* One row for each task the user created.                                 *)

\* Client ids are never given twice, and tasks are not forgotten.
Used ==
  /\ nextCid > 0
  /\ \A k \in DOMAIN rows : rows[k].obj \in DOMAIN want /\ rows[k].cid < nextCid
  /\ \A i \in outbox : i.obj \in DOMAIN want /\ i.cid < nextCid
  /\ \A r \in Run : pc[r] \in Holding => cur[r].cid < nextCid
  /\ \A r \in Run : drafts[r] # NoDraft => drafts[r].obj \in DOMAIN want

LEMMA StepWant == IInv /\ [Next]_vars => DOMAIN want \subseteq DOMAIN want' /\ nextCid <= nextCid'
<1> SUFFICES ASSUME IInv, [Next]_vars PROVE DOMAIN want \subseteq DOMAIN want' /\ nextCid <= nextCid'
  OBVIOUS
<1>0. want \in Seq(Wants) /\ nextCid \in Nat
  BY DEF IInv, TypeInv, TypeOK, WorldOK
<1>1. CASE want' = want /\ nextCid' = nextCid
  BY <1>0, <1>1
<1>2. ASSUME NEW r \in Run, NEW v \in Vals, NEW how \in {"answer", "lost", "unsent"},
             CreateTask(r, v, how)
      PROVE  DOMAIN want \subseteq DOMAIN want' /\ nextCid <= nextCid'
  <2>1. nextCid' = nextCid + 1 /\ \E x : want' = Append(want, x)
    BY <1>2 DEF CreateTask
  <2> QED BY <1>0, <2>1, LenProperties
<1>3. ASSUME NEW tab \in Tabs, NEW k \in DOMAIN rows, NEW v \in Vals,
             NEW kind \in {"patch", "done", "delete"},
             NEW how \in {"answer", "lost", "unsent"}, WriteRow(tab, k, kind, v, how)
      PROVE  DOMAIN want \subseteq DOMAIN want' /\ nextCid <= nextCid'
  BY <1>0, <1>3 DEF WriteRow
<1>4. ASSUME NEW tab \in Tabs, NEW id,
             \/ \E v \in Vals, d \in BOOLEAN : EditTemp(tab, id, v, d)
             \/ DeleteTemp(tab, id)
      PROVE  DOMAIN want \subseteq DOMAIN want' /\ nextCid <= nextCid'
  <2>1. nextCid' = nextCid /\ \E o, w : want' = [want EXCEPT ![o] = w]
    BY <1>4 DEF EditTemp, DeleteTemp
  <2> QED BY <1>0, <2>1
<1>5. ASSUME NEW k \in DOMAIN rows, OtherDeviceDelete(k)
      PROVE  DOMAIN want \subseteq DOMAIN want' /\ nextCid <= nextCid'
  BY <1>0, <1>5 DEF OtherDeviceDelete
<1>6. CASE Write
  BY <1>2, <1>3, <1>4, <1>5, <1>6, ZenonT(60) DEF Write
<1>7. CASE Environment
  BY <1>1, <1>7 DEF Environment, ClosePage, GoDown, GoUp, ghosts
<1>8. ASSUME NEW r \in Run, DraftStep(r) PROVE DOMAIN want \subseteq DOMAIN want' /\ nextCid <= nextCid'
  BY <1>1, <1>8 DEF DraftStep, PutLocal, EnqueueCreate, ghosts
<1>9. ASSUME NEW r \in Run, SendStep(r) PROVE DOMAIN want \subseteq DOMAIN want' /\ nextCid <= nextCid'
  <2>1. PICK i \in todo[r] :
         \/ \E body \in BOOLEAN : SendOk(r, i, body)
         \/ SendRejected(r, i)
         \/ \E how \in {"lost", "unsent"} : SendFailed(r, i, how)
         \/ SendUnauthorized(r, i)
    BY <1>9 DEF SendStep
  <2>2. Begin(r, i) /\ DOMAIN want' = DOMAIN want
    BY <2>1 DEF SendOk, SendRejected, SendFailed, SendUnauthorized, ghosts
  <2> QED BY <1>0, <2>2 DEF Begin
<1>10. ASSUME NEW r \in Run, SyncStep(r) PROVE DOMAIN want \subseteq DOMAIN want' /\ nextCid <= nextCid'
  BY <1>1, <1>9, <1>10 DEF SyncStep, StartSync, ReadSnapshot, DropLocal, Retarget, Rewrite, Remove,
     PutBack, Finish, RefreshPage, ghosts
<1>11. CASE UNCHANGED vars
  BY <1>1, <1>11 DEF vars
<1> QED BY <1>6, <1>7, <1>8, <1>10, <1>11 DEF Next

\* A row that is new, and what the others have left of them.
Fewer ==
  /\ RowsStay
  /\ \A k \in DOMAIN rows' : k \in DOMAIN rows /\ (rows'[k].live => rows[k].live)

LEMMA AppliedFewer ==
  ASSUME rows \in Seq(Rows), NEW i, NEW j, rows' = Applied(i, j), i.kind \in Kinds \ {"create"}
  PROVE  Fewer
<1>0. (\A k \in DOMAIN rows : rows[k] \in Rows) /\ i.kind \in {"patch", "done", "delete"} /\ i.kind \in Kinds
  BY PlaceOfSeq DEF Kinds
<1>1. RowsStay
  BY <1>0, AppliedStay
<1>2. CASE i.kind = "patch"
  BY <1>0, <1>1, <1>2 DEF Applied, Fewer, Rows
<1>3. CASE i.kind = "done"
  BY <1>0, <1>1, <1>3 DEF Applied, Fewer, Rows
<1>4. CASE i.kind = "delete"
  BY <1>0, <1>1, <1>4 DEF Applied, Fewer, Rows
<1> QED BY <1>0, <1>2, <1>3, <1>4

\* A request of a create adds at most one row, with the client id of the create; it adds
\* none where a live row has that id.
LEMMA AppliedCreate ==
  ASSUME rows \in Seq(Rows), NEW i, NEW j, rows' = Applied(i, j), i.kind = "create"
  PROVE  \/ rows' = rows /\ Earlier(i.cid) # {}
         \/ /\ Earlier(i.cid) = {}
            /\ \A k \in DOMAIN rows : k \in DOMAIN rows' /\ rows'[k] = rows[k]
            /\ \E n \in DOMAIN rows' :
                 /\ DOMAIN rows' = DOMAIN rows \cup {n} /\ n \notin DOMAIN rows
                 /\ rows'[n] = NewRow(i)
<1>1. CASE Earlier(i.cid) # {}
  BY <1>1 DEF Applied
<1>2. CASE Earlier(i.cid) = {}
  <2>1. rows' = Append(rows, NewRow(i))
    BY <1>2 DEF Applied
  <2>2. PICK n : n = Len(rows) + 1
    OBVIOUS
  <2>3. DOMAIN rows = 1 .. Len(rows) /\ Len(rows) \in Nat
    BY LenProperties
  <2>4. DOMAIN rows' = DOMAIN rows \cup {n} /\ n \notin DOMAIN rows /\ rows'[n] = NewRow(i)
        /\ \A k \in DOMAIN rows : rows'[k] = rows[k]
    BY <2>1, <2>2, <2>3
  <2> QED BY <1>2, <2>4
<1> QED BY <1>1, <1>2

LEMMA RowTypes ==
  ASSUME IInv
  PROVE  /\ rows \in Seq(Rows)
         /\ \A k \in DOMAIN rows : rows[k] \in Rows /\ rows[k].cid \in Nat
<1>1. rows \in Seq(Rows)
  BY DEF IInv, TypeInv, TypeOK, WorldOK
<1>2. \A k \in DOMAIN rows : rows[k] \in Rows
  BY <1>1, PlaceOfSeq
<1> QED BY <1>1, <1>2 DEF Rows

LEMMA UsedStand ==
  ASSUME IInv, Used, [Next]_vars, Fewer,
         \A i \in outbox' \ outbox : i.obj \in DOMAIN want /\ i.cid < nextCid /\ i.cid \in Nat,
         \A r \in Run : pc'[r] \in Holding => pc[r] \in Holding /\ cur'[r] = cur[r],
         \A r \in Run : drafts'[r] # NoDraft => drafts[r] # NoDraft /\ drafts'[r].obj = drafts[r].obj
  PROVE  Used'
<1>1. DOMAIN want \subseteq DOMAIN want' /\ nextCid <= nextCid'
  BY StepWant
<1>2. nextCid \in Nat /\ nextCid' \in Nat
  BY StepType DEF IInv, TypeInv, TypeOK, WorldOK
<1>3. \A k \in DOMAIN rows : rows[k].cid \in Nat
  BY RowTypes
<1>4. \A i \in outbox : i.cid \in Nat
  BY DEF IInv, TypeInv, TypeOK, StoresOK, Items
<1>5. \A r \in Run : pc[r] \in Holding => cur[r].cid \in Nat
  BY DEF IInv, TypeInv, TypeOK, CallsOK, Items
<1>6. \A k \in DOMAIN rows' : rows'[k].obj \in DOMAIN want' /\ rows'[k].cid < nextCid'
  BY <1>1, <1>2, <1>3 DEF Used, Fewer, RowsStay
<1>7. \A i \in outbox' : i.obj \in DOMAIN want' /\ i.cid < nextCid'
  BY <1>1, <1>2, <1>4 DEF Used
<1>8. \A r \in Run : pc'[r] \in Holding => cur'[r].cid < nextCid'
  BY <1>1, <1>2, <1>5 DEF Used
<1>9. nextCid' > 0 /\ \A r \in Run : drafts'[r] # NoDraft => drafts'[r].obj \in DOMAIN want'
  BY <1>1, <1>2 DEF Used
<1> QED BY <1>6, <1>7, <1>8, <1>9 DEF Used

\* The rows after a step other than a create that reaches the server.
LEMMA SameIsFewer == rows' = rows => Fewer
BY DEF Fewer, RowsStay

LEMMA WriteRowFewer ==
  ASSUME IInv, NEW tab \in Tabs, NEW k \in DOMAIN rows, NEW v \in Vals,
         NEW kind \in {"patch", "done", "delete"},
         NEW how \in {"answer", "lost", "unsent"}, WriteRow(tab, k, kind, v, how)
  PROVE  Fewer
<1>0. rows \in Seq(Rows)
  BY DEF IInv, TypeInv, TypeOK, WorldOK
<1>1. \A d : Item("done", rows[k].obj, k, v, d).kind = "done" /\ Item(kind, rows[k].obj, k, v, d).kind = kind
  BY DEF Item
<1>2. rows' = rows \/ \E i : rows' = Applied(i, k) /\ i.kind \in Kinds \ {"create"}
  BY <1>1 DEF WriteRow, Kinds
<1> QED BY <1>0, <1>2, SameIsFewer, AppliedFewer

LEMMA OtherDeviceFewer ==
  ASSUME IInv, NEW k \in DOMAIN rows, OtherDeviceDelete(k)
  PROVE  Fewer
<1>0. rows \in Seq(Rows) /\ \A n \in DOMAIN rows : rows[n] \in Rows
  BY PlaceOfSeq DEF IInv, TypeInv, TypeOK, WorldOK
<1>1. rows' = [rows EXCEPT ![k].live = FALSE]
  BY DEF OtherDeviceDelete
<1> QED BY <1>0, <1>1 DEF Fewer, RowsStay, Rows

\* A draft is moved on as it is.
LEMMA PutLocalDraft ==
  ASSUME IInv, NEW r \in Run, PutLocal(r)
  PROVE  /\ drafts[r] # NoDraft /\ drafts'[r] # NoDraft
         /\ drafts'[r].obj = drafts[r].obj /\ drafts'[r].val = drafts[r].val
         /\ \A s \in Run : s # r => drafts'[s] = drafts[s]
<1>1. drafts[r] # NoDraft /\ drafts' = [drafts EXCEPT ![r].step = "enqueue"]
  BY DEF PutLocal
<1>2. drafts[r] \in Drafts /\ DOMAIN drafts = Run
  BY <1>1 DEF IInv, TypeInv, TypeOK, StoresOK
<1>3. "id" \in DOMAIN drafts'[r]
  BY <1>1, <1>2 DEF Drafts
<1> QED BY <1>1, <1>2, <1>3 DEF Drafts, NoDraft

LEMMA UsedWrites ==
  ASSUME Solo, IInv, Used, [Next]_vars, Write \/ \E r \in Run : DraftStep(r)
  PROVE  Used'
<1>0. /\ nextCid \in Nat /\ nextCid > 0 /\ want \in Seq(Wants) /\ rows \in Seq(Rows) /\ DOMAIN drafts = Run
      /\ \A k \in DOMAIN rows : rows[k].obj \in DOMAIN want
  BY DEF IInv, TypeInv, TypeOK, WorldOK, StoresOK, Used
<1>1. ASSUME NEW r \in Run, NEW v \in Vals, NEW how \in {"answer", "lost", "unsent"},
             CreateTask(r, v, how)
      PROVE  Used'
  <2> DEFINE o   == Len(want) + 1
             new == [Item("create", o, 0, v, FALSE) EXCEPT !.cid = nextCid]
             row == NewRow(new)
             fresh == [step |-> "put", id |-> NextTempId, obj |-> o, val |-> v]
  <2>1. /\ UNCHANGED <<outbox, pc, cur>> /\ nextCid' = nextCid + 1
        /\ want' = Append(want, [val |-> v, done |-> FALSE, live |-> TRUE])
        /\ rows' = rows \/ rows' = Append(rows, row)
        /\ drafts' = drafts \/ drafts' = [drafts EXCEPT ![r] = fresh]
    BY <1>1 DEF CreateTask, stores, calls
  <2>2. o \in DOMAIN want' /\ DOMAIN want \subseteq DOMAIN want'
    BY <1>0, <2>1, LenProperties
  <2>3. row.obj = o /\ row.cid = nextCid /\ fresh.obj = o
    BY DEF NewRow, Item
  <2> HIDE DEF o, new, row, fresh
  <2>4. \A k \in DOMAIN rows : rows[k].cid \in Nat
    BY RowTypes
  <2>5. \A k \in DOMAIN rows' : (k \in DOMAIN rows /\ rows'[k] = rows[k]) \/ rows'[k] = row
    BY <1>0, <2>1, LenProperties
  <2>6. \A k \in DOMAIN rows' : rows'[k].obj \in DOMAIN want' /\ rows'[k].cid < nextCid'
    BY <1>0, <2>1, <2>2, <2>3, <2>4, <2>5 DEF Used
  <2>7. \A i \in outbox' : i.obj \in DOMAIN want' /\ i.cid < nextCid'
    BY <1>0, <2>1, <2>2 DEF Used, IInv, TypeInv, TypeOK, StoresOK, Items
  <2>8. \A s \in Run : pc'[s] \in Holding => cur'[s].cid < nextCid'
    BY <1>0, <2>1 DEF Used, IInv, TypeInv, TypeOK, CallsOK, Items
  <2>9. \A s \in Run : drafts'[s] # NoDraft => drafts'[s].obj \in DOMAIN want'
    BY <1>0, <2>1, <2>2, <2>3 DEF Used
  <2> QED BY <1>0, <2>1, <2>6, <2>7, <2>8, <2>9 DEF Used
<1>2. ASSUME NEW tab \in Tabs, NEW row \in DOMAIN rows, NEW v \in Vals,
             NEW kind \in {"patch", "done", "delete"},
             NEW how \in {"answer", "lost", "unsent"}, WriteRow(tab, row, kind, v, how)
      PROVE  Used'
  <2> DEFINE k == Item(kind, rows[row].obj, row, v, ~want[rows[row].obj].done)
  <2>1. UNCHANGED <<drafts, pc, cur>> /\ (outbox' = outbox \/ Enqueue(k))
    BY <1>2 DEF WriteRow, calls
  <2>2. DOMAIN k = {"seq", "kind", "obj", "temp", "task", "val", "done", "cid", "tries"}
        /\ k.obj = rows[row].obj /\ k.cid = 0
    BY DEF Item
  <2> HIDE DEF k
  <2>3. outbox' = outbox \/ \E e : outbox' = outbox \cup {e} /\ e.obj = k.obj /\ e.cid = k.cid
    BY <2>1, <2>2, EnqueuedItem
  <2>4. \A i \in outbox' \ outbox : i.obj \in DOMAIN want /\ i.cid < nextCid /\ i.cid \in Nat
    BY <1>0, <2>2, <2>3
  <2> QED BY <1>2, <2>1, <2>4, UsedStand, WriteRowFewer
<1>3. ASSUME NEW tab \in Tabs, NEW id,
             \/ \E v \in Vals, d \in BOOLEAN : EditTemp(tab, id, v, d)
             \/ DeleteTemp(tab, id)
      PROVE  Used'
  <2>1. UNCHANGED <<drafts, pc, cur, outbox, rows>>
    BY <1>3 DEF EditTemp, DeleteTemp, calls
  <2> QED BY <2>1, UsedStand, SameIsFewer
<1>4. ASSUME NEW k \in DOMAIN rows, OtherDeviceDelete(k) PROVE Used'
  <2>1. UNCHANGED <<drafts, pc, cur, outbox>>
    BY <1>4 DEF OtherDeviceDelete, stores, calls
  <2> QED BY <1>4, <2>1, UsedStand, OtherDeviceFewer
<1>5. CASE Write
  BY <1>1, <1>2, <1>3, <1>4, <1>5, ZenonT(60) DEF Write
<1>6. ASSUME NEW r \in Run, PutLocal(r) PROVE Used'
  <2>1. UNCHANGED <<pc, cur, outbox, rows>>
    BY <1>6 DEF PutLocal, calls
  <2> QED BY <1>6, <2>1, UsedStand, SameIsFewer, PutLocalDraft
<1>7. ASSUME NEW r \in Run, EnqueueCreate(r) PROVE Used'
  <2> DEFINE d == drafts[r]
             k == [Item("create", d.obj, d.id, d.val, FALSE) EXCEPT !.temp = d.id]
  <2>1. d # NoDraft /\ Enqueue(k) /\ drafts' = [drafts EXCEPT ![r] = NoDraft] /\ UNCHANGED <<pc, cur, rows>>
    BY <1>7 DEF EnqueueCreate, calls
  <2>2. DOMAIN k = {"seq", "kind", "obj", "temp", "task", "val", "done", "cid", "tries"}
        /\ k.obj = d.obj /\ k.cid = 0
    BY DEF Item
  <2> HIDE DEF k
  <2>3. \E e : outbox' = outbox \cup {e} /\ e.obj = k.obj /\ e.cid = k.cid
    BY <2>1, <2>2, EnqueuedItem
  <2>4. \A i \in outbox' \ outbox : i.obj \in DOMAIN want /\ i.cid < nextCid /\ i.cid \in Nat
    BY <1>0, <2>1, <2>2, <2>3 DEF Used
  <2>5. \A s \in Run : drafts'[s] # NoDraft => drafts[s] # NoDraft /\ drafts'[s].obj = drafts[s].obj
    BY <1>0, <2>1
  <2> QED BY <2>1, <2>4, <2>5, UsedStand, SameIsFewer
<1> QED BY <1>5, <1>6, <1>7 DEF DraftStep

\* What a call puts into the store is what it took from there.
LEMMA SyncPuts ==
  ASSUME IInv, Copied, NEW r \in Run, SyncStep(r)
  PROVE  \A i \in outbox' :
           \/ \E a \in outbox : a.seq = i.seq /\ SameWrite(a, i)
           \/ /\ pc[r] = "put" /\ i = [cur[r] EXCEPT !.tries = @ + 1]
              /\ i.obj = cur[r].obj /\ i.cid = cur[r].cid /\ i.kind = cur[r].kind /\ i.seq = cur[r].seq
<1>1. outbox \subseteq Items
  BY DEF IInv, TypeInv, TypeOK, StoresOK
<1>2. CASE outbox' \subseteq outbox
  BY <1>2 DEF SameWrite
<1>3. CASE Rewrite(r)
  <2>1. /\ outbox' = {i \in outbox : \A j \in affected[r] : j.seq # i.seq}
                       \cup {[j EXCEPT !.task = res[r]] : j \in affected[r]}
        /\ affected[r] \subseteq outbox
    BY <1>3 DEF Rewrite, Copied, CallCopied
  <2>2. \A j \in affected[r] : j.seq = [j EXCEPT !.task = res[r]].seq /\ SameWrite(j, [j EXCEPT !.task = res[r]])
    BY <1>1, <2>1 DEF SameWrite, Items
  <2>3. \A i \in outbox : SameWrite(i, i)
    BY DEF SameWrite
  <2>4. \A i \in outbox' : \E a \in outbox : a.seq = i.seq /\ SameWrite(a, i)
    <3> SUFFICES ASSUME NEW i \in outbox' PROVE \E a \in outbox : a.seq = i.seq /\ SameWrite(a, i)
      OBVIOUS
    <3>1. CASE i \in outbox
      BY <2>3, <3>1
    <3>2. ASSUME NEW j \in affected[r], i = [j EXCEPT !.task = res[r]]
          PROVE  \E a \in outbox : a.seq = i.seq /\ SameWrite(a, i)
      BY <2>1, <2>2, <3>2
    <3> QED BY <2>1, <3>1, <3>2
  <2> QED BY <2>4
<1>4. CASE PutBack(r)
  <2>0. PICK again : again = [cur[r] EXCEPT !.tries = @ + 1]
    OBVIOUS
  <2>1. pc[r] = "put" /\ outbox' = {i \in outbox : i.seq # cur[r].seq} \cup {again}
    BY <1>4, <2>0 DEF PutBack
  <2>2. cur[r] \in Items
    BY <2>1 DEF IInv, TypeInv, TypeOK, CallsOK, Holding
  <2>3. again.obj = cur[r].obj /\ again.cid = cur[r].cid /\ again.kind = cur[r].kind /\ again.seq = cur[r].seq
    BY <2>0, <2>2 DEF Items
  <2>4. \A i \in outbox : SameWrite(i, i)
    BY DEF SameWrite
  <2> QED BY <2>0, <2>1, <2>3, <2>4
<1>5. CASE SendStep(r)
  BY <1>2, <1>5, SendShape
<1> QED BY <1>2, <1>3, <1>4, <1>5 DEF SyncStep, StartSync, ReadSnapshot, DropLocal, Retarget,
       Remove, Finish, RefreshPage, stores

LEMMA UsedSync ==
  ASSUME Solo, IInv, Copied, Used, [Next]_vars, NEW r \in Run, SyncStep(r)
  PROVE  Used'
<1>0. /\ \A s \in Run : s = r
      /\ DOMAIN pc = Run /\ DOMAIN cur = Run /\ nextCid \in Nat /\ nextCid > 0
  BY DEF Solo, IInv, TypeInv, TypeOK, CallsOK, WorldOK, Used
<1>1. \A i \in outbox' \ outbox : i.obj \in DOMAIN want /\ i.cid < nextCid /\ i.cid \in Nat
  <2>1. ASSUME NEW i \in outbox', NEW a \in outbox, SameWrite(a, i)
        PROVE  i.obj \in DOMAIN want /\ i.cid < nextCid /\ i.cid \in Nat
    BY <2>1 DEF SameWrite, Used, IInv, TypeInv, TypeOK, StoresOK, Items
  <2>2. ASSUME NEW i \in outbox', pc[r] = "put", i.obj = cur[r].obj, i.cid = cur[r].cid
        PROVE  i.obj \in DOMAIN want /\ i.cid < nextCid /\ i.cid \in Nat
    <3>1. cur[r] \in Items /\ pc[r] \in Holding
      BY <2>2 DEF IInv, TypeInv, TypeOK, CallsOK, Holding
    <3>2. PICK j \in outbox : j.obj = cur[r].obj
      BY <3>1, CurIsQueued DEF Alike
    <3> QED BY <2>2, <3>1, <3>2 DEF Used, Items
  <2> QED BY <2>1, <2>2, SyncPuts
<1>2. CASE SendStep(r)
  <2>1. PICK i \in todo[r] :
         /\ Begin(r, i) /\ cur' = [cur EXCEPT ![r] = WithCid(i)]
         /\ UNCHANGED <<outbox, drafts>>
         /\ WithCid(i).kind = i.kind
         /\ rows' = rows \/ rows' = Applied(WithCid(i), Target(r, i))
    BY <1>2, SendShape
  <2>2. PICK a \in outbox : SameWrite(i, a)
    BY <2>1 DEF Begin, Copied, CallCopied, Active
  <2>3. i \in Items /\ i.obj \in DOMAIN want /\ i.cid < nextCid /\ i.cid \in Nat /\ i.kind \in Kinds
    BY <2>2 DEF IInv, TypeInv, TypeOK, CallsOK, Used, SameWrite, Items
  <2>4. WithCid(i).cid < nextCid' /\ WithCid(i).obj = i.obj /\ nextCid <= nextCid' /\ nextCid' \in Nat
    BY <1>0, <2>1, <2>3 DEF WithCid, Begin, Items
  <2>5. \A k \in DOMAIN rows' : rows'[k].obj \in DOMAIN want /\ rows'[k].cid < nextCid'
    <3>0. \A k \in DOMAIN rows : rows[k].obj \in DOMAIN want /\ rows[k].cid < nextCid'
      BY <1>0, <2>4, RowTypes DEF Used
    <3>1. CASE rows' = rows
      BY <3>0, <3>1
    <3>2. CASE i.kind = "create" /\ rows' = Applied(WithCid(i), Target(r, i))
      <4>1. NewRow(WithCid(i)).obj = i.obj /\ NewRow(WithCid(i)).cid = WithCid(i).cid
        BY <2>4 DEF NewRow
      <4>2. \A k \in DOMAIN rows' : (k \in DOMAIN rows /\ rows'[k] = rows[k]) \/ rows'[k] = NewRow(WithCid(i))
        BY <2>1, <3>2, RowTypes, AppliedCreate
      <4> QED BY <2>3, <2>4, <3>0, <4>1, <4>2
    <3>3. CASE i.kind # "create" /\ rows' = Applied(WithCid(i), Target(r, i))
      <4>1. Fewer
        BY <2>1, <2>3, <3>3, RowTypes, AppliedFewer
      <4> QED BY <3>0, <4>1 DEF Fewer, RowsStay
    <3> QED BY <2>1, <3>1, <3>2, <3>3
  <2>6. DOMAIN want \subseteq DOMAIN want'
    BY StepWant
  <2>7. \A j \in outbox : j.obj \in DOMAIN want /\ j.cid < nextCid'
    BY <1>0, <2>4 DEF Used, IInv, TypeInv, TypeOK, StoresOK, Items
  <2>8. cur'[r].cid < nextCid'
    BY <1>0, <2>1, <2>4
  <2> QED BY <1>0, <2>1, <2>4, <2>5, <2>6, <2>7, <2>8 DEF Used
<1>3. CASE ~SendStep(r)
  <2>1. UNCHANGED <<rows, drafts>>
    BY <1>3 DEF SyncStep, StartSync, ReadSnapshot, DropLocal, Retarget, Rewrite, Remove, PutBack,
       Finish, RefreshPage
  <2>2. pc'[r] \in Holding => pc[r] \in Holding /\ cur'[r] = cur[r]
    BY <1>0, <1>3 DEF SyncStep, StartSync, ReadSnapshot, DropLocal, Retarget, Rewrite, Remove, PutBack,
       Finish, RefreshPage, Holding
  <2> QED BY <1>0, <1>1, <2>1, <2>2, UsedStand, SameIsFewer
<1> QED BY <1>2, <1>3

LEMMA StepUsed == Solo /\ IInv /\ Copied /\ Used /\ [Next]_vars => Used'
<1> SUFFICES ASSUME Solo, IInv, Copied, Used, [Next]_vars PROVE Used'
  OBVIOUS
<1>1. CASE Write \/ \E r \in Run : DraftStep(r)
  BY <1>1, UsedWrites
<1>2. ASSUME UNCHANGED <<rows, outbox, pc, cur, drafts>> PROVE Used'
  BY <1>2, UsedStand, SameIsFewer
<1>3. CASE Environment
  BY <1>2, <1>3 DEF Environment, ClosePage, GoDown, GoUp, stores, calls, Solo
<1>4. ASSUME NEW r \in Run, SyncStep(r) PROVE Used'
  BY <1>4, UsedSync
<1>5. CASE UNCHANGED vars
  BY <1>2, <1>5 DEF vars, stores, calls
<1> QED BY <1>1, <1>3, <1>4, <1>5 DEF Next

\* The client id of c tells whether the server has its task already.
Sure(c) ==
  \A k \in DOMAIN rows :
    /\ rows[k].live /\ rows[k].obj = c.obj => c.cid # 0 /\ rows[k].cid = c.cid
    /\ c.cid # 0 /\ rows[k].cid = c.cid => rows[k].obj = c.obj

Singles ==
  /\ OneRowPerCreate
  /\ \A i, j \in Creates : i.obj = j.obj \/ (i.cid = j.cid /\ i.cid # 0) => i = j
  /\ \A i \in Creates : Sure(i) \/ Past(i, Holding)
  /\ \A r \in Run : drafts[r] # NoDraft =>
       /\ \A k \in DOMAIN rows : rows[k].obj # drafts[r].obj
       /\ \A i \in Creates : i.obj # drafts[r].obj
  /\ \A r \in Run : pc[r] = "put" /\ cur[r].kind = "create" =>
       /\ cur[r].cid # 0 /\ Sure(cur[r])
       /\ \A j \in Creates : j.cid = cur[r].cid => j.seq = cur[r].seq

LEMMA SureStands ==
  ASSUME Fewer, NEW a, NEW i, Sure(a), a.obj = i.obj, a.cid = i.cid
  PROVE  Sure(i)'
BY DEF Sure, Fewer, RowsStay

LEMMA SinglesStand ==
  ASSUME Singles, Copied', Fewer,
         \A i \in Creates' : \E a \in Creates :
           a.seq = i.seq /\ SameWrite(a, i) /\ (Past(a, Holding) => Past(i, Holding)'),
         \A r \in Run : drafts'[r] # NoDraft => drafts[r] # NoDraft /\ drafts'[r].obj = drafts[r].obj,
         \A r \in Run : pc'[r] = "put" => pc[r] = "put" /\ cur'[r] = cur[r]
  PROVE  Singles'
<1>1. OneRowPerCreate'
  BY DEF OneRowPerCreate, Singles, Fewer, RowsStay
<1>2. ASSUME NEW i \in Creates', NEW j \in Creates', i.obj = j.obj \/ (i.cid = j.cid /\ i.cid # 0)
      PROVE  i = j
  <2>1. PICK a \in Creates : a.seq = i.seq /\ SameWrite(a, i)
    OBVIOUS
  <2>2. PICK b \in Creates : b.seq = j.seq /\ SameWrite(b, j)
    OBVIOUS
  <2>3. a = b
    BY <1>2, <2>1, <2>2 DEF SameWrite, Singles
  <2> QED BY <2>1, <2>2, <2>3 DEF Copied, Creates
<1>3. ASSUME NEW i \in Creates' PROVE Sure(i)' \/ Past(i, Holding)'
  <2>1. PICK a \in Creates : a.seq = i.seq /\ SameWrite(a, i) /\ (Past(a, Holding) => Past(i, Holding)')
    OBVIOUS
  <2>2. Sure(a) \/ Past(a, Holding)
    BY DEF Singles
  <2> QED BY <2>1, <2>2, SureStands DEF SameWrite
<1>4. ASSUME NEW r \in Run, drafts'[r] # NoDraft
      PROVE  /\ \A k \in DOMAIN rows' : rows'[k].obj # drafts'[r].obj
             /\ \A i \in Creates' : i.obj # drafts'[r].obj
  BY <1>4 DEF Singles, Fewer, RowsStay, SameWrite
<1>5. ASSUME NEW r \in Run, pc'[r] = "put", cur'[r].kind = "create"
      PROVE  /\ cur'[r].cid # 0 /\ Sure(cur[r])'
             /\ \A j \in Creates' : j.cid = cur'[r].cid => j.seq = cur'[r].seq
  <2>1. pc[r] = "put" /\ cur'[r] = cur[r]
    BY <1>5
  <2>2. PICK c : c = cur[r]
    OBVIOUS
  <2>3. c.cid # 0 /\ Sure(c) /\ \A j \in Creates : j.cid = c.cid => j.seq = c.seq
    BY <1>5, <2>1, <2>2 DEF Singles, Sure
  <2>4. Sure(c)'
    BY <2>3, SureStands
  <2>5. Sure(cur[r])'
    BY <2>1, <2>2, <2>4 DEF Sure
  <2>6. \A j \in Creates' : j.cid = c.cid => j.seq = c.seq
    BY <2>3 DEF SameWrite
  <2> QED BY <2>1, <2>2, <2>3, <2>5, <2>6
<1> QED BY <1>1, <1>2, <1>3, <1>4, <1>5 DEF Singles

LEMMA SinglesCreate ==
  ASSUME Solo, "lost_create" \notin Admitted, IInv, Copied, Used, Singles, Copied', NEW r \in Run, NEW v \in Vals,
         NEW how \in {"answer", "lost", "unsent"}, CreateTask(r, v, how)
  PROVE  Singles'
<1> DEFINE o   == Len(want) + 1
           new == [Item("create", o, 0, v, FALSE) EXCEPT !.cid = nextCid]
           row == NewRow(new)
           fresh == [step |-> "put", id |-> NextTempId, obj |-> o, val |-> v]
<1>1. /\ UNCHANGED <<outbox, pc, cur>> /\ drafts[r] = NoDraft
      /\ \/ rows' = Append(rows, row) /\ drafts' = drafts
         \/ rows' = rows /\ drafts' = [drafts EXCEPT ![r] = fresh]
  BY DEF CreateTask, stores, calls
<1>2. row.obj = o /\ row.cid = nextCid /\ fresh.obj = o
  BY DEF NewRow, Item
<1>3. o \notin DOMAIN want
  BY LenProperties DEF IInv, TypeInv, TypeOK, WorldOK
<1> HIDE DEF o, new, row, fresh
<1>4. CASE rows' = rows /\ drafts' = [drafts EXCEPT ![r] = fresh]
  <2>1. Fewer
    BY <1>4, SameIsFewer
  <2>2. Creates' = Creates /\ \A i : Past(i, Holding)' <=> Past(i, Holding)
    BY <1>1 DEF Creates, Past
  <2>3. DOMAIN drafts = Run /\ \A s \in Run : s = r
    BY DEF IInv, TypeInv, TypeOK, StoresOK, Solo
  <2>4. \A s \in Run : drafts'[s] # NoDraft =>
             /\ \A k \in DOMAIN rows' : rows'[k].obj # drafts'[s].obj
             /\ \A i \in Creates' : i.obj # drafts'[s].obj
    BY <1>2, <1>3, <1>4, <2>2, <2>3 DEF Used, Creates
  <2>5. \A i : Sure(i)' <=> Sure(i)
    BY <1>4 DEF Sure
  <2>6. OneRowPerCreate'
    BY <1>4 DEF OneRowPerCreate, Singles
  <2>7. \A s \in Run : pc'[s] = "put" /\ cur'[s].kind = "create" =>
          /\ cur'[s].cid # 0 /\ Sure(cur[s])'
          /\ \A j \in Creates' : j.cid = cur'[s].cid => j.seq = cur'[s].seq
    BY <1>1, <1>4, <2>2 DEF Singles, Sure
  <2> QED BY <2>2, <2>4, <2>5, <2>6, <2>7 DEF Singles
<1>5. CASE rows' = Append(rows, row) /\ drafts' = drafts
  <2>1. \A k \in DOMAIN rows' : (k \in DOMAIN rows /\ rows'[k] = rows[k]) \/ rows'[k] = row
    BY <1>5, RowTypes, LenProperties
  <2>2. Creates' = Creates /\ \A i : Past(i, Holding)' <=> Past(i, Holding)
    BY <1>1 DEF Creates, Past
  <2>3. ASSUME NEW i, Sure(i), i.obj \in DOMAIN want, i.cid < nextCid PROVE Sure(i)'
    <3>1. nextCid \in Nat
      BY DEF IInv, TypeInv, TypeOK, WorldOK
    <3>2. i.cid # nextCid
      BY <2>3, <3>1
    <3> QED BY <1>2, <1>3, <2>1, <2>3, <3>2 DEF Sure
  <2>4. OneRowPerCreate'
    <3>1. \A k \in DOMAIN rows : rows[k].obj # o
      BY <1>3 DEF Used
    <3>2. PICK n : n = Len(rows) + 1
      OBVIOUS
    <3>3. \A k \in DOMAIN rows' : (k \in DOMAIN rows /\ rows'[k] = rows[k]) \/ (k = n /\ rows'[k] = row)
      BY <1>5, <3>2, RowTypes, LenProperties
    <3> QED BY <1>2, <3>1, <3>3 DEF OneRowPerCreate, Singles
  <2>5. \A i \in Creates' : Sure(i)' \/ Past(i, Holding)'
    BY <2>2, <2>3 DEF Singles, Used, Creates
  <2>6. \A s \in Run : drafts'[s] # NoDraft =>
             /\ \A k \in DOMAIN rows' : rows'[k].obj # drafts'[s].obj
             /\ \A i \in Creates' : i.obj # drafts'[s].obj
    BY <1>2, <1>3, <1>5, <2>1, <2>2 DEF Used, Singles
  <2>7. ASSUME NEW s \in Run, pc'[s] = "put", cur'[s].kind = "create"
        PROVE  /\ cur'[s].cid # 0 /\ Sure(cur[s])'
               /\ \A j \in Creates' : j.cid = cur'[s].cid => j.seq = cur'[s].seq
    <3>1. PICK c : c = cur[s]
      OBVIOUS
    <3>2. /\ c.cid # 0 /\ Sure(c) /\ c.cid < nextCid /\ pc[s] \in Holding
          /\ \A j \in Creates : j.cid = c.cid => j.seq = c.seq
      BY <1>1, <2>7, <3>1 DEF Singles, Sure, Used, Holding
    <3>3. c.obj \in DOMAIN want
      <4>1. PICK j \in outbox : Alike(j, cur[s])
        BY <3>2, CurIsQueued, <1>1
      <4> QED BY <3>1, <4>1 DEF Alike, Used
    <3>4. Sure(c)'
      BY <2>3, <3>2, <3>3
    <3> QED BY <1>1, <2>2, <3>1, <3>2, <3>4 DEF Sure
  <2> QED BY <2>2, <2>4, <2>5, <2>6, <2>7 DEF Singles
<1> QED BY <1>1, <1>4, <1>5

LEMMA SinglesWrites ==
  ASSUME Solo, "lost_create" \notin Admitted, IInv, Copied, Used, Singles, Copied',
         Write \/ \E r \in Run : DraftStep(r)
  PROVE  Singles'
<1>0. \A i : SameWrite(i, i)
  BY DEF SameWrite
<1>1. ASSUME NEW r \in Run, NEW v \in Vals, NEW how \in {"answer", "lost", "unsent"},
             CreateTask(r, v, how)
      PROVE  Singles'
  BY <1>1, SinglesCreate
<1>2. ASSUME NEW tab \in Tabs, NEW row \in DOMAIN rows, NEW v \in Vals,
             NEW kind \in {"patch", "done", "delete"},
             NEW how \in {"answer", "lost", "unsent"}, WriteRow(tab, row, kind, v, how)
      PROVE  Singles'
  <2> DEFINE k == Item(kind, rows[row].obj, row, v, ~want[rows[row].obj].done)
  <2>1. UNCHANGED <<drafts, pc, cur>> /\ (outbox' = outbox \/ Enqueue(k))
    BY <1>2 DEF WriteRow, calls
  <2>2. DOMAIN k = {"seq", "kind", "obj", "temp", "task", "val", "done", "cid", "tries"}
        /\ k.kind # "create"
    BY DEF Item
  <2> HIDE DEF k
  <2>3. outbox' = outbox \/ \E e : outbox' = outbox \cup {e} /\ e.kind # "create"
    BY <2>1, <2>2, EnqueuedItem
  <2>4. Creates' = Creates /\ \A i : Past(i, Holding)' <=> Past(i, Holding)
    BY <2>1, <2>3 DEF Creates, Past
  <2> QED BY <1>0, <1>2, <2>1, <2>4, SinglesStand, WriteRowFewer
<1>3. ASSUME NEW tab \in Tabs, NEW id,
             \/ \E v \in Vals, d \in BOOLEAN : EditTemp(tab, id, v, d)
             \/ DeleteTemp(tab, id)
      PROVE  Singles'
  <2>1. UNCHANGED <<drafts, pc, cur, outbox, rows>>
    BY <1>3 DEF EditTemp, DeleteTemp, calls
  <2>2. Creates' = Creates /\ \A i : Past(i, Holding)' <=> Past(i, Holding)
    BY <2>1 DEF Creates, Past
  <2> QED BY <1>0, <2>1, <2>2, SinglesStand, SameIsFewer
<1>4. ASSUME NEW k \in DOMAIN rows, OtherDeviceDelete(k) PROVE Singles'
  <2>1. UNCHANGED <<drafts, pc, cur, outbox>>
    BY <1>4 DEF OtherDeviceDelete, stores, calls
  <2>2. Creates' = Creates /\ \A i : Past(i, Holding)' <=> Past(i, Holding)
    BY <2>1 DEF Creates, Past
  <2> QED BY <1>0, <1>4, <2>1, <2>2, SinglesStand, OtherDeviceFewer
<1>5. CASE Write
  BY <1>1, <1>2, <1>3, <1>4, <1>5, ZenonT(60) DEF Write
<1>6. ASSUME NEW r \in Run, PutLocal(r) PROVE Singles'
  <2>1. UNCHANGED <<pc, cur, outbox, rows>>
    BY <1>6 DEF PutLocal, calls
  <2>2. Creates' = Creates /\ \A i : Past(i, Holding)' <=> Past(i, Holding)
    BY <2>1 DEF Creates, Past
  <2> QED BY <1>0, <1>6, <2>1, <2>2, SinglesStand, SameIsFewer, PutLocalDraft
<1>7. ASSUME NEW r \in Run, EnqueueCreate(r) PROVE Singles'
  <2> DEFINE d == drafts[r]
             k == [Item("create", d.obj, d.id, d.val, FALSE) EXCEPT !.temp = d.id]
  <2>1. d # NoDraft /\ Enqueue(k) /\ drafts' = [drafts EXCEPT ![r] = NoDraft] /\ UNCHANGED <<pc, cur, rows>>
    BY <1>7 DEF EnqueueCreate, calls
  <2>2. DOMAIN k = {"seq", "kind", "obj", "temp", "task", "val", "done", "cid", "tries"}
        /\ k.obj = d.obj /\ k.cid = 0 /\ k.kind = "create"
    BY DEF Item
  <2> HIDE DEF k
  <2>3. PICK e : outbox' = outbox \cup {e} /\ e.obj = d.obj /\ e.cid = 0 /\ e.kind = "create" /\ e.seq = Len(fate) + 1
    BY <2>1, <2>2, EnqueuedItem
  <2>4. Creates' = Creates \cup {e} /\ \A i : Past(i, Holding)' <=> Past(i, Holding)
    BY <2>1, <2>3 DEF Creates, Past
  <2>5. \A i : Sure(i)' <=> Sure(i)
    BY <2>1 DEF Sure
  <2>6. Sure(e)
    BY <2>1, <2>3 DEF Singles, Sure
  <2>7. \A i \in Creates : i.obj # e.obj
    BY <2>1, <2>3 DEF Singles
  <2>8. \A i, j \in Creates' : i.obj = j.obj \/ (i.cid = j.cid /\ i.cid # 0) => i = j
    BY <2>3, <2>4, <2>7 DEF Singles
  <2>9. \A i \in Creates' : Sure(i)' \/ Past(i, Holding)'
    BY <2>4, <2>5, <2>6 DEF Singles
  <2>10. \A s \in Run : drafts'[s] = NoDraft
    BY <2>1 DEF Solo, IInv, TypeInv, TypeOK, StoresOK
  <2>11. \A s \in Run : pc'[s] = "put" /\ cur'[s].kind = "create" =>
           /\ cur'[s].cid # 0 /\ Sure(cur[s])'
           /\ \A j \in Creates' : j.cid = cur'[s].cid => j.seq = cur'[s].seq
    BY <2>1, <2>3, <2>4 DEF Singles, Sure
  <2>12. OneRowPerCreate'
    BY <2>1 DEF OneRowPerCreate, Singles
  <2> QED BY <2>8, <2>9, <2>10, <2>11, <2>12 DEF Singles
<1> QED BY <1>5, <1>6, <1>7 DEF DraftStep

\* The rows after an attempt to send a create.
LEMMA SinglesSend ==
  ASSUME Solo, IInv, Copied, Used, Singles, Copied', NEW r \in Run, SendStep(r)
  PROVE  Singles'
<1>0. /\ \A s \in Run : s = r
      /\ DOMAIN pc = Run /\ DOMAIN cur = Run /\ nextCid \in Nat /\ nextCid > 0
  BY DEF Solo, IInv, TypeInv, TypeOK, CallsOK, WorldOK, Used
<1>1. PICK i \in todo[r] :
       /\ Begin(r, i) /\ cur' = [cur EXCEPT ![r] = WithCid(i)]
       /\ UNCHANGED <<outbox, drafts>>
       /\ WithCid(i).kind = i.kind /\ WithCid(i).seq = i.seq
       /\ rows' = rows \/ rows' = Applied(WithCid(i), Target(r, i))
       /\ \E p \in {"drop", "remove", "put", "finish"} :
            /\ pc' = [pc EXCEPT ![r] = p]
            /\ p = "finish" => rows' = rows
  BY SendShape
<1>2. PICK a \in outbox : a.seq = i.seq /\ SameWrite(i, a)
  BY <1>1 DEF Begin, Copied, CallCopied, Active
<1>3. pc[r] = "send" /\ i \in Items /\ i.kind \in Kinds /\ a \in Items
  BY <1>1 DEF Begin, IInv, TypeInv, TypeOK, CallsOK, StoresOK, Items
<1>4. PICK c : c = WithCid(i)
  OBVIOUS
<1>5. /\ c.obj = i.obj /\ c.kind = i.kind /\ c.seq = i.seq
      /\ i.kind = "create" => c.cid # 0 /\ (i.cid # 0 => c.cid = i.cid) /\ (i.cid = 0 => c.cid = nextCid)
      /\ cur'[r] = c
  BY <1>0, <1>1, <1>3, <1>4 DEF WithCid, Items
<1>6. Creates' = Creates /\ \A j : ~Past(j, Holding)
  BY <1>0, <1>1, <1>3 DEF Creates, Past, Holding
<1>7. \A j \in Creates : Sure(j)
  BY <1>6 DEF Singles
<1>8. CASE i.kind # "create"
  <2>1. Fewer
    BY <1>1, <1>3, <1>8, SameIsFewer, AppliedFewer, RowTypes
  <2>2. OneRowPerCreate'
    BY <2>1 DEF OneRowPerCreate, Singles, Fewer, RowsStay
  <2>3. \A j \in Creates' : Sure(j)'
    BY <1>6, <1>7, <2>1, SureStands
  <2>4. \A s \in Run : drafts'[s] # NoDraft =>
          /\ \A k \in DOMAIN rows' : rows'[k].obj # drafts'[s].obj
          /\ \A j \in Creates' : j.obj # drafts'[s].obj
    BY <1>1, <1>6, <2>1 DEF Singles, Fewer, RowsStay
  <2>5. cur'[r].kind # "create"
    BY <1>5, <1>8
  <2> QED BY <1>0, <1>6, <2>2, <2>3, <2>4, <2>5 DEF Singles
<1>9. CASE i.kind = "create"
  <2>1. a \in Creates /\ a.obj = i.obj /\ a.cid = i.cid
    BY <1>2, <1>9 DEF Creates, SameWrite
  <2>2. \A j \in Creates : j.cid < nextCid
    BY DEF Used, Creates
  <2>3. \A j \in Creates : j.cid = c.cid => j = a
    BY <1>0, <1>5, <1>9, <2>1, <2>2 DEF Singles
  <2>4. Sure(c)
    <3>1. Sure(a)
      BY <1>7, <2>1
    <3>2. \A k \in DOMAIN rows : rows[k].cid # nextCid
      BY <1>0, RowTypes DEF Used
    <3> QED BY <1>5, <1>9, <2>1, <3>1, <3>2 DEF Sure
  <2>5. \A k \in DOMAIN rows' : (k \in DOMAIN rows /\ rows'[k] = rows[k]) \/ rows'[k] = NewRow(c)
    <3>1. CASE rows' = Applied(c, Target(r, i))
      <4>1. rows' = rows \/ ((\A k \in DOMAIN rows : rows'[k] = rows[k])
                               /\ \E n \in DOMAIN rows' : /\ DOMAIN rows' = DOMAIN rows \cup {n}
                                                           /\ rows'[n] = NewRow(c))
        BY <1>5, <1>9, <3>1, RowTypes, AppliedCreate
      <4> QED BY <4>1
    <3> QED BY <1>1, <1>4, <3>1
  <2>6. NewRow(c).obj = i.obj /\ NewRow(c).cid = c.cid
    BY <1>5 DEF NewRow
  <2>7. Sure(c)'
    BY <1>5, <1>9, <2>4, <2>5, <2>6 DEF Sure
  <2>8. ASSUME NEW j \in Creates, j # a PROVE Sure(j)'
    <3>1. j.obj # i.obj /\ j.cid # c.cid
      BY <2>1, <2>3, <2>8 DEF Singles
    <3> QED BY <1>7, <2>5, <2>6, <2>8, <3>1 DEF Sure
  <2>9. Sure(a)' \/ Past(a, Holding)'
    <3>1. pc'[r] = "finish" => rows' = rows
      BY <1>0, <1>1
    <3>2. pc'[r] \in Holding \/ pc'[r] = "finish"
      BY <1>0, <1>1 DEF Holding
    <3>3. rows' = rows => Sure(a)'
      BY <1>7, <2>1 DEF Sure
    <3>4. pc'[r] \in Holding => Past(a, Holding)'
      BY <1>2, <1>5 DEF Past
    <3> QED BY <3>1, <3>2, <3>3, <3>4
  <2>10. OneRowPerCreate'
    <3>1. CASE rows' = rows
      BY <3>1 DEF OneRowPerCreate, Singles
    <3>2. CASE rows' # rows
      <4>1. Earlier(c.cid) = {} /\ \E n \in DOMAIN rows' : /\ DOMAIN rows' = DOMAIN rows \cup {n} /\ n \notin DOMAIN rows
                                      /\ rows'[n] = NewRow(c)
        BY <1>1, <1>4, <1>5, <1>9, <3>2, RowTypes, AppliedCreate
      <4>2. \A k \in DOMAIN rows : rows[k].live => rows[k].obj # i.obj
        BY <1>5, <2>4, <4>1 DEF Earlier, Sure
      <4>3. \A k \in DOMAIN rows : rows'[k] = rows[k]
        BY <1>1, <1>4, <1>5, <1>9, <3>2, RowTypes, AppliedCreate
      <4> QED BY <2>6, <4>1, <4>2, <4>3 DEF OneRowPerCreate, Singles
    <3> QED BY <3>1, <3>2
  <2>11. \A s \in Run : drafts'[s] # NoDraft =>
           /\ \A k \in DOMAIN rows' : rows'[k].obj # drafts'[s].obj
           /\ \A j \in Creates' : j.obj # drafts'[s].obj
    BY <1>1, <1>6, <2>1, <2>5, <2>6 DEF Singles
  <2>12. cur'[r].cid # 0 /\ Sure(cur[r])' /\ \A j \in Creates' : j.cid = cur'[r].cid => j.seq = cur'[r].seq
    BY <1>2, <1>5, <1>6, <1>9, <2>3, <2>7 DEF Sure
  <2>13. \A j \in Creates' : Sure(j)' \/ Past(j, Holding)'
    BY <1>6, <2>8, <2>9
  <2>14. \A j, k \in Creates' : j.obj = k.obj \/ (j.cid = k.cid /\ j.cid # 0) => j = k
    BY <1>6 DEF Singles
  <2> QED BY <1>0, <2>10, <2>11, <2>12, <2>13, <2>14 DEF Singles
<1> QED BY <1>8, <1>9

LEMMA SinglesSync ==
  ASSUME Solo, IInv, Copied, Used, Singles, Copied', NEW r \in Run, SyncStep(r)
  PROVE  Singles'
<1>0. /\ \A s \in Run : s = r
      /\ DOMAIN pc = Run /\ DOMAIN cur = Run
  BY DEF Solo, IInv, TypeInv, TypeOK, CallsOK
<1>a. \A i : SameWrite(i, i)
  BY DEF SameWrite
<1>1. CASE SendStep(r)
  BY <1>1, SinglesSend
<1>2. CASE StartSync(r) \/ ReadSnapshot(r) \/ Finish(r) \/ RefreshPage(r)
  <2>1. UNCHANGED <<rows, outbox, drafts>> /\ pc[r] \notin Holding /\ pc'[r] # "put"
    BY <1>0, <1>2 DEF StartSync, ReadSnapshot, Finish, RefreshPage, stores, Holding
  <2>2. Creates' = Creates /\ \A i : ~Past(i, Holding)
    BY <1>0, <2>1 DEF Creates, Past
  <2> QED BY <1>0, <1>a, <2>1, <2>2, SinglesStand, SameIsFewer
<1>3. CASE DropLocal(r) \/ Retarget(r) \/ Rewrite(r)
  <2>1. UNCHANGED <<rows, cur, drafts>> /\ pc'[r] \in Holding \ {"put"} /\ pc[r] # "put"
    BY <1>0, <1>3 DEF DropLocal, Retarget, Rewrite, stores, Holding
  <2>2. \A i \in outbox' : \E a \in outbox : a.seq = i.seq /\ SameWrite(a, i)
    BY <1>3, <2>1, SyncPuts DEF SyncStep
  <2>3. ASSUME NEW i \in Creates'
        PROVE  \E a \in Creates : a.seq = i.seq /\ SameWrite(a, i) /\ (Past(a, Holding) => Past(i, Holding)')
    <3>1. PICK a \in outbox : a.seq = i.seq /\ SameWrite(a, i)
      BY <2>2 DEF Creates
    <3>2. a \in Creates
      BY <3>1 DEF Creates, SameWrite
    <3>3. Past(a, Holding) => Past(i, Holding)'
      BY <1>0, <2>1, <3>1 DEF Past
    <3> QED BY <3>1, <3>2, <3>3
  <2> QED BY <1>0, <2>1, <2>3, SinglesStand, SameIsFewer
<1>4. CASE Remove(r)
  <2>1. /\ UNCHANGED <<rows, cur, drafts>> /\ pc'[r] # "put" /\ pc[r] = "remove"
        /\ outbox' = {i \in outbox : i.seq # cur[r].seq}
    BY <1>0, <1>4 DEF Remove
  <2>2. \A i \in Creates' : i \in Creates /\ ~Past(i, Holding)
    BY <1>0, <2>1 DEF Creates, Past
  <2> QED BY <1>0, <1>a, <2>1, <2>2, SinglesStand, SameIsFewer
<1>5. CASE PutBack(r)
  <2>0. PICK again : again = [cur[r] EXCEPT !.tries = @ + 1]
    OBVIOUS
  <2>1. /\ UNCHANGED <<rows, drafts, cur>> /\ pc[r] = "put" /\ pc'[r] = "finish"
        /\ outbox' = {i \in outbox : i.seq # cur[r].seq} \cup {again}
    BY <1>0, <1>5, <2>0 DEF PutBack
  <2>2. cur[r] \in Items
    BY <2>1 DEF IInv, TypeInv, TypeOK, CallsOK, Holding
  <2>3. again.kind = cur[r].kind /\ again.obj = cur[r].obj /\ again.cid = cur[r].cid /\ again.seq = cur[r].seq
    BY <2>0, <2>2 DEF Items
  <2>4. PICK q \in outbox : Alike(q, cur[r])
    BY <2>1, CurIsQueued DEF Holding
  <2>5. \A i : Sure(i)' <=> Sure(i)
    BY <2>1 DEF Sure
  <2>6. \A i \in outbox : i.seq = q.seq => i = q
    BY <2>4 DEF Copied
  <2>7. ASSUME NEW i \in Creates'
        PROVE  \/ i \in Creates /\ i.seq # cur[r].seq /\ ~Past(i, Holding)
               \/ i = again /\ cur[r].kind = "create" /\ q \in Creates
    BY <1>0, <2>1, <2>3, <2>4 DEF Creates, Past, Alike
  <2>8. cur[r].kind = "create" => /\ cur[r].cid # 0 /\ Sure(cur[r])
                                  /\ \A j \in Creates : j.cid = cur[r].cid => j.seq = cur[r].seq
    BY <2>1 DEF Singles
  <2>9. ASSUME NEW i \in Creates', NEW j \in Creates', i.obj = j.obj \/ (i.cid = j.cid /\ i.cid # 0)
        PROVE  i = j
    <3>1. CASE i = again /\ j # again
      <4>1. j \in Creates /\ j.seq # cur[r].seq /\ q \in Creates /\ cur[r].kind = "create"
        BY <2>3, <2>7, <2>9, <3>1
      <4>2. j.cid # again.cid
        BY <2>3, <2>8, <4>1
      <4>3. j.obj = q.obj
        BY <2>3, <2>4, <2>9, <3>1, <4>2 DEF Alike
      <4> QED BY <2>4, <4>1, <4>3 DEF Singles, Alike
    <3>2. CASE j = again /\ i # again
      <4>1. i \in Creates /\ i.seq # cur[r].seq /\ q \in Creates /\ cur[r].kind = "create"
        BY <2>3, <2>7, <2>9, <3>2
      <4>2. i.cid # again.cid
        BY <2>3, <2>8, <4>1
      <4>3. i.obj = q.obj
        BY <2>3, <2>4, <2>9, <3>2, <4>2 DEF Alike
      <4> QED BY <2>4, <4>1, <4>3 DEF Singles, Alike
    <3>3. CASE i # again /\ j # again
      BY <2>7, <2>9, <3>3 DEF Singles
    <3> QED BY <3>1, <3>2, <3>3
  <2>10. ASSUME NEW i \in Creates' PROVE Sure(i)'
    <3>1. CASE i = again
      <4>1. Sure(cur[r]) /\ cur[r].cid # 0
        BY <2>7, <2>8, <3>1, <2>1, <2>3
      <4> QED BY <2>1, <2>3, <3>1, <4>1 DEF Sure
    <3>2. CASE i # again
      BY <2>5, <2>7, <3>2 DEF Singles
    <3> QED BY <3>1, <3>2
  <2>11. ASSUME NEW s \in Run, drafts'[s] # NoDraft
         PROVE  /\ \A k \in DOMAIN rows' : rows'[k].obj # drafts'[s].obj
                /\ \A i \in Creates' : i.obj # drafts'[s].obj
    BY <2>1, <2>3, <2>4, <2>7, <2>11 DEF Singles, Alike
  <2>12. OneRowPerCreate'
    BY <2>1 DEF OneRowPerCreate, Singles
  <2> QED BY <1>0, <2>1, <2>9, <2>10, <2>11, <2>12 DEF Singles
<1> QED BY <1>1, <1>2, <1>3, <1>4, <1>5 DEF SyncStep

LEMMA StepSingles ==
  Solo /\ "lost_create" \notin Admitted /\ IInv /\ Copied /\ Used /\ Singles /\ [Next]_vars => Singles'
<1> SUFFICES ASSUME Solo, "lost_create" \notin Admitted, IInv, Copied, Used, Singles, [Next]_vars
             PROVE  Singles'
  OBVIOUS
<1>0. Copied'
  BY StepCopied
<1>1. CASE Write \/ \E r \in Run : DraftStep(r)
  BY <1>0, <1>1, SinglesWrites
<1>2. ASSUME UNCHANGED <<rows, outbox, pc, cur, drafts>> PROVE Singles'
  <2>1. Creates' = Creates /\ (\A i : Past(i, Holding)' <=> Past(i, Holding)) /\ \A i : SameWrite(i, i)
    BY <1>2 DEF Creates, Past, SameWrite
  <2> QED BY <1>0, <1>2, <2>1, SinglesStand, SameIsFewer
<1>3. CASE Environment
  BY <1>2, <1>3 DEF Environment, ClosePage, GoDown, GoUp, stores, calls, Solo
<1>4. ASSUME NEW r \in Run, SyncStep(r) PROVE Singles'
  BY <1>0, <1>4, SinglesSync
<1>5. CASE UNCHANGED vars
  BY <1>2, <1>5 DEF vars, stores, calls
<1> QED BY <1>1, <1>3, <1>4, <1>5 DEF Next

LEMMA InitSingles == Init => Used /\ Singles
<1> SUFFICES ASSUME Init PROVE Used /\ Singles
  OBVIOUS
<1>1. /\ outbox = {} /\ nextCid = 1 /\ \A r \in Run : drafts[r] = NoDraft /\ pc[r] = "idle"
      /\ DOMAIN rows = {1} /\ rows[1].obj = 1 /\ rows[1].cid = 0 /\ DOMAIN want = {1}
  BY DEF Init
<1> QED BY <1>1 DEF Used, Singles, Creates, Holding, OneRowPerCreate

\* With one call at a time, and no direct create whose answer is lost (a known weakness), a
\* task the user created is one row on the server: however often its create is sent again,
\* whatever answers are lost and whatever else is done to it meanwhile (offline.ts clientId).
THEOREM SoloOneRowPerCreate ==
  Solo /\ "lost_create" \notin Admitted => (Spec => []OneRowPerCreate)
<1> SUFFICES ASSUME Solo, "lost_create" \notin Admitted
             PROVE  Spec => []OneRowPerCreate
  OBVIOUS
<1> DEFINE Inv == Copied /\ Used /\ Singles
<1>1. Spec => []IInv
  BY QueueInvariant DEF Solo
<1>2. IInv /\ Inv /\ [Next]_vars => Inv'
  BY StepCopied, StepUsed, StepSingles
<1>3. Inv => OneRowPerCreate
  BY DEF Singles
<1>4. Init => Inv
  BY InitAlone, InitSingles
<1> QED BY <1>1, <1>2, <1>3, <1>4, PTL DEF Spec

-----------------------------------------------------------------------------
(* What the server holds, and what the queue is still to bring it.         *)

\* A write in the store waits, or a call is about to take it out.
Settling == {"drop", "retarget", "rewrite", "remove"}
OnlyWaiting == \A i \in outbox : fate[i.seq] = "queued" \/ Past(i, Settling)

LEMMA ExhaustedStays == Solo /\ IInv /\ [Next]_vars /\ NeverExhausted' => NeverExhausted
<1> SUFFICES ASSUME Solo, IInv, [Next]_vars, NeverExhausted', NEW s \in DOMAIN fate
             PROVE  fate[s] # "exhausted"
  BY DEF NeverExhausted
<1>1. [Log!Next]_Log!logVars
  BY StepLog DEF Solo
<1>2. fate \in Seq(Fates)
  BY DEF IInv, TypeInv, TypeOK, WorldOK
<1>3. s \in DOMAIN fate' /\ (fate[s] # "queued" => fate'[s] = fate[s])
  <2>1. CASE fate' = fate
    BY <2>1
  <2>2. CASE fate' = Append(fate, "queued")
    BY <1>2, <2>2, LenProperties
  <2>3. ASSUME NEW t \in Log!Waiting, NEW f, fate' = [fate EXCEPT ![t] = f]
        PROVE  s \in DOMAIN fate' /\ (fate[s] # "queued" => fate'[s] = fate[s])
    BY <2>3 DEF Log!Waiting
  <2> QED BY <1>1, <2>1, <2>2, <2>3 DEF Log!Next, Log!Accept, Log!Tidy, Log!Attempt, Log!logVars
<1> QED BY <1>3 DEF NeverExhausted

\* Each way to change the queue leaves only what waits.
LEMMA OnlyWaitingStands ==
  ASSUME IInv, OnlyWaiting, \A s \in DOMAIN fate : fate'[s] = fate[s],
         \A i \in outbox' : \/ \E a \in outbox : a.seq = i.seq /\ (Past(a, Settling) => Past(i, Settling)')
                            \/ fate'[i.seq] = "queued"
  PROVE  OnlyWaiting'
BY DEF OnlyWaiting, IInv, Queue, Numbered

LEMMA NewWaits ==
  ASSUME IInv, NEW k, Enqueue(k)
  PROVE  fate'[Len(fate) + 1] = "queued" /\ \A s \in DOMAIN fate : fate'[s] = fate[s]
<1>1. fate \in Seq(Fates)
  BY DEF IInv, TypeInv, TypeOK, WorldOK
<1> QED BY <1>1, LenProperties DEF Enqueue

\* What an attempt to send may do to the server, the queue and the user's wishes.
Unsettled(r, i) ==
  /\ UNCHANGED <<fate, want>>
  /\ rows' = rows \/ (Accepts(i, Target(r, i)) /\ rows' = Applied(WithCid(i), Target(r, i)))

Delivered(r, i) ==
  /\ Settle(i.seq, "delivered") /\ want' = want
  /\ Accepts(i, Target(r, i)) /\ rows' = Applied(WithCid(i), Target(r, i))

Rejected(r, i) ==
  /\ Settle(i.seq, "rejected") /\ rows' = rows
  /\ \/ ~Accepts(i, Target(r, i)) /\ want' = want
     \/ /\ i.kind = "create" /\ Earlier(WithCid(i).cid) = {}
        /\ want' = [want EXCEPT ![i.obj].live = FALSE]

Exhausted(i) == Settle(i.seq, "exhausted")

LEMMA SendEffect ==
  ASSUME Solo, IInv, Copied, NEW r \in Run, SendStep(r)
  PROVE  \E i \in todo[r], a \in outbox :
           /\ Begin(r, i) /\ a.seq = i.seq /\ SameWrite(i, a) /\ cur'[r].seq = i.seq
           /\ UNCHANGED <<outbox, drafts>>
           /\ \/ Unsettled(r, i)
              \/ pc'[r] \in Settling /\ (Delivered(r, i) \/ Rejected(r, i) \/ Exhausted(i))
<1>1. PICK i \in todo[r] :
       \/ \E body \in BOOLEAN : SendOk(r, i, body)
       \/ SendRejected(r, i)
       \/ \E how \in {"lost", "unsent"} : SendFailed(r, i, how)
       \/ SendUnauthorized(r, i)
  BY DEF SendStep
<1>2. Begin(r, i)
  BY <1>1 DEF SendOk, SendRejected, SendFailed, SendUnauthorized
<1>3. PICK a \in outbox : a.seq = i.seq /\ SameWrite(i, a)
  BY <1>2 DEF Begin, Copied, CallCopied, Active
<1>4. DOMAIN pc = Run /\ DOMAIN cur = Run /\ i \in Items /\ nextCid \in Nat
  BY DEF IInv, TypeInv, TypeOK, CallsOK, WorldOK
<1>5. cur'[r].seq = i.seq /\ UNCHANGED <<outbox, drafts>>
  BY <1>2, <1>4, WithCidType DEF Begin, stores
<1> DEFINE Effect == \/ Unsettled(r, i)
                     \/ pc'[r] \in Settling /\ (Delivered(r, i) \/ Rejected(r, i) \/ Exhausted(i))
<1>6. ASSUME NEW body \in BOOLEAN, SendOk(r, i, body) PROVE Effect
  BY <1>4, <1>6 DEF SendOk, Reaches, Delivered, Settling
<1>7. ASSUME SendRejected(r, i) PROVE Effect
  <2>1. pc'[r] \in Settling
    BY <1>4, <1>7 DEF SendRejected, Settling
  <2>2. Rejected(r, i)
    BY <1>7 DEF SendRejected, Rejected
  <2> QED BY <2>1, <2>2
<1>8. ASSUME NEW how \in {"lost", "unsent"}, SendFailed(r, i, how) PROVE Effect
  <2>1. CASE LastTry(i)
    BY <1>4, <1>8, <2>1 DEF SendFailed, Exhausted, Settling
  <2>2. CASE ~LastTry(i)
    BY <1>8, <2>2 DEF SendFailed, Unsettled, Reaches
  <2> QED BY <2>1, <2>2
<1>9. ASSUME SendUnauthorized(r, i) PROVE Effect
  BY <1>9 DEF SendUnauthorized, Unsettled, ghosts
<1>10. Effect
  BY <1>1, <1>6, <1>7, <1>8, <1>9
<1> QED BY <1>2, <1>3, <1>5, <1>10

\* The first answer settles a write, and no other.
LEMMA SettleFate ==
  ASSUME IInv, NEW s \in DOMAIN fate, NEW f, Settle(s, f)
  PROVE  /\ \A t \in DOMAIN fate : t # s => fate'[t] = fate[t]
         /\ fate[s] = "queued" => fate'[s] = f
         /\ DOMAIN fate' = DOMAIN fate
BY DEF Settle

LEMMA StepOnlyWaiting == Solo /\ IInv /\ Copied /\ OnlyWaiting /\ [Next]_vars => OnlyWaiting'
<1> SUFFICES ASSUME Solo, IInv, Copied, OnlyWaiting, [Next]_vars PROVE OnlyWaiting'
  OBVIOUS
<1>1. ASSUME UNCHANGED <<outbox, fate, pc, cur>> PROVE OnlyWaiting'
  <2>1. \A i : Past(i, Settling)' <=> Past(i, Settling)
    BY <1>1 DEF Past
  <2> QED BY <1>1, <2>1 DEF OnlyWaiting
<1>2. ASSUME NEW k, Enqueue(k), UNCHANGED <<pc, cur>>,
             DOMAIN k = {"seq", "kind", "obj", "temp", "task", "val", "done", "cid", "tries"}
      PROVE  OnlyWaiting'
  <2>1. PICK e : outbox' = outbox \cup {e} /\ e.seq = Len(fate) + 1
    BY <1>2, EnqueuedItem
  <2>2. fate'[Len(fate) + 1] = "queued" /\ \A s \in DOMAIN fate : fate'[s] = fate[s]
    BY <1>2, NewWaits
  <2>3. \A i : Past(i, Settling)' <=> Past(i, Settling)
    BY <1>2 DEF Past
  <2> QED BY <2>1, <2>2, <2>3, OnlyWaitingStands
<1>3. ASSUME NEW r \in Run, NEW v \in Vals, NEW how \in {"answer", "lost", "unsent"},
             CreateTask(r, v, how)
      PROVE  OnlyWaiting'
  BY <1>1, <1>3 DEF CreateTask, stores, calls
<1>4. ASSUME NEW tab \in Tabs, NEW row \in DOMAIN rows, NEW v \in Vals,
             NEW kind \in {"patch", "done", "delete"},
             NEW how \in {"answer", "lost", "unsent"}, WriteRow(tab, row, kind, v, how)
      PROVE  OnlyWaiting'
  <2> DEFINE k == Item(kind, rows[row].obj, row, v, ~want[rows[row].obj].done)
  <2>1. UNCHANGED <<pc, cur>> /\ (UNCHANGED <<outbox, fate>> \/ Enqueue(k))
    BY <1>4 DEF WriteRow, calls
  <2>2. DOMAIN k = {"seq", "kind", "obj", "temp", "task", "val", "done", "cid", "tries"}
    BY DEF Item
  <2> HIDE DEF k
  <2> QED BY <1>1, <1>2, <2>1, <2>2
<1>5. ASSUME NEW tab \in Tabs, NEW id,
             \/ \E v \in Vals, d \in BOOLEAN : EditTemp(tab, id, v, d)
             \/ DeleteTemp(tab, id)
      PROVE  OnlyWaiting'
  BY <1>1, <1>5 DEF EditTemp, DeleteTemp, calls
<1>6. ASSUME NEW k \in DOMAIN rows, OtherDeviceDelete(k) PROVE OnlyWaiting'
  BY <1>1, <1>6 DEF OtherDeviceDelete, stores, calls
<1>7. CASE Write
  BY <1>3, <1>4, <1>5, <1>6, <1>7, ZenonT(60) DEF Write
<1>8. CASE Environment
  BY <1>1, <1>8 DEF Environment, ClosePage, GoDown, GoUp, stores, calls, ghosts, Solo
<1>9. ASSUME NEW r \in Run, DraftStep(r) PROVE OnlyWaiting'
  <2>1. CASE PutLocal(r)
    BY <1>1, <2>1 DEF PutLocal, calls, ghosts
  <2>2. CASE EnqueueCreate(r)
    <3> DEFINE d == drafts[r]
               k == [Item("create", d.obj, d.id, d.val, FALSE) EXCEPT !.temp = d.id]
    <3>1. Enqueue(k) /\ UNCHANGED <<pc, cur>>
      BY <2>2 DEF EnqueueCreate, calls
    <3>2. DOMAIN k = {"seq", "kind", "obj", "temp", "task", "val", "done", "cid", "tries"}
      BY DEF Item
    <3> HIDE DEF k
    <3> QED BY <1>2, <3>1, <3>2
  <2> QED BY <1>9, <2>1, <2>2 DEF DraftStep
<1>10. ASSUME NEW r \in Run, SyncStep(r) PROVE OnlyWaiting'
  <2>0. /\ \A s \in Run : s = r
        /\ DOMAIN pc = Run /\ DOMAIN cur = Run
    BY DEF Solo, IInv, TypeInv, TypeOK, CallsOK
  <2>1. CASE SendStep(r)
    <3>1. PICK i \in todo[r], a \in outbox :
            /\ Begin(r, i) /\ a.seq = i.seq /\ cur'[r].seq = i.seq
            /\ UNCHANGED <<outbox, drafts>>
            /\ \/ Unsettled(r, i)
               \/ pc'[r] \in Settling /\ (Delivered(r, i) \/ Rejected(r, i) \/ Exhausted(i))
      BY <2>1, SendEffect
    <3>2. i.seq \in DOMAIN fate /\ \A j \in outbox : j.seq \in DOMAIN fate
      BY DEF IInv, Queue, Numbered
    <3>3. \A j \in outbox : fate[j.seq] = "queued"
      BY <2>0, <3>1 DEF OnlyWaiting, Past, Begin, Settling
    <3>4. CASE Unsettled(r, i)
      BY <3>1, <3>3, <3>4 DEF Unsettled, OnlyWaiting
    <3>5. CASE pc'[r] \in Settling /\ (Delivered(r, i) \/ Rejected(r, i) \/ Exhausted(i))
      <4>1. \A t \in DOMAIN fate : t # i.seq => fate'[t] = fate[t]
        BY <3>2, <3>5, SettleFate DEF Delivered, Rejected, Exhausted
      <4> QED BY <3>1, <3>2, <3>3, <3>5, <4>1 DEF OnlyWaiting, Past
    <3> QED BY <3>1, <3>4, <3>5
  <2>2. CASE ~SendStep(r)
    <3>0. fate' = fate
      BY <1>10, <2>2 DEF SyncStep, StartSync, ReadSnapshot, DropLocal, Retarget, Rewrite, Remove, PutBack,
       Finish, RefreshPage, ghosts
    <3>1. CASE StartSync(r) \/ ReadSnapshot(r) \/ Finish(r) \/ RefreshPage(r)
      <4>1. outbox' = outbox /\ pc[r] \notin Settling
        BY <3>1 DEF StartSync, ReadSnapshot, Finish, RefreshPage, stores, Settling
      <4>2. \A i : ~Past(i, Settling)
        BY <2>0, <4>1 DEF Past
      <4> QED BY <3>0, <4>1, <4>2, OnlyWaitingStands
    <3>2. CASE DropLocal(r) \/ Retarget(r) \/ Rewrite(r)
      <4>1. cur' = cur /\ pc'[r] \in Settling
        BY <2>0, <3>2 DEF DropLocal, Retarget, Rewrite, Settling
      <4>2. \A i \in outbox' : \E a \in outbox : a.seq = i.seq
        BY <1>10, SyncAddsNone DEF Alike
      <4>3. ASSUME NEW i, NEW a, a.seq = i.seq, Past(a, Settling) PROVE Past(i, Settling)'
        BY <2>0, <4>1, <4>3 DEF Past
      <4> QED BY <3>0, <4>2, <4>3, OnlyWaitingStands
    <3>3. CASE Remove(r)
      <4>1. cur' = cur /\ outbox' = {i \in outbox : i.seq # cur[r].seq}
        BY <3>3 DEF Remove
      <4>2. \A i \in outbox' : i \in outbox /\ ~Past(i, Settling)
        BY <2>0, <4>1 DEF Past
      <4> QED BY <3>0, <4>2, OnlyWaitingStands
    <3>4. CASE PutBack(r)
      <4>1. pc[r] \notin Settling
        BY <3>4 DEF PutBack, Settling
      <4>2. \A i : ~Past(i, Settling)
        BY <2>0, <4>1 DEF Past
      <4>3. \A i \in outbox' : \E a \in outbox : a.seq = i.seq
        BY <1>10, SyncAddsNone DEF Alike
      <4> QED BY <3>0, <4>2, <4>3, OnlyWaitingStands
    <3> QED BY <1>10, <2>2, <3>1, <3>2, <3>3, <3>4 DEF SyncStep
  <2> QED BY <2>1, <2>2
<1>11. CASE UNCHANGED vars
  BY <1>1, <1>11 DEF vars, stores, calls, ghosts
<1> QED BY <1>7, <1>8, <1>9, <1>10, <1>11 DEF Next

\* The writes of one kind to task o that wait, and the last of them.
Waits(o, kind) == {i \in outbox : i.obj = o /\ i.kind = kind /\ fate[i.seq] = "queued"}
Latest(i) == \A j \in Waits(i.obj, i.kind) : j.seq <= i.seq

HasRow(o)  == \E k \in DOMAIN rows : rows[k].obj = o
Gone(o)    == \A k \in DOMAIN rows : rows[k].obj = o => ~rows[k].live
Drafted(o) == \E r \in Run : drafts[r] # NoDraft /\ drafts[r].obj = o
Fresh(v)   == [val |-> v, done |-> FALSE, live |-> TRUE]

\* A task that is wanted is somewhere; one that is not is gone, or its deletion waits.
Somewhere(o) == want[o].live => HasRow(o) \/ Drafted(o) \/ Waits(o, "create") # {}
DeletesWait(o) ==
  IF want[o].live THEN Waits(o, "delete") = {}
                  ELSE Waits(o, "delete") # {} \/ (Waits(o, "create") = {} /\ Gone(o))

\* A create that waits is the first write of its task; what was asked of the task since is
\* behind it in the queue, and possible only after the server has made the row.
CreateLeads(o) ==
  \A c \in Waits(o, "create") :
    /\ \A k \in DOMAIN rows : rows[k].obj = o => rows[k].live
    /\ HasRow(o) \/ want[o] = Fresh(c.val)
    /\ \A kind \in Kinds : \A i \in Waits(o, kind) : c.seq <= i.seq

\* The row has what the user asked for, unless a write that will set it still waits.
RowAgrees(o) ==
  want[o].live => \A k \in DOMAIN rows : rows[k].obj = o =>
    /\ rows[k].live
    /\ Waits(o, "patch") = {} => rows[k].val = want[o].val
    /\ Waits(o, "done") = {} => rows[k].done = want[o].done

QueueAgrees(o) ==
  want[o].live =>
    /\ \A i \in Waits(o, "patch") : Latest(i) => i.val = want[o].val
    /\ \A i \in Waits(o, "done") : Latest(i) => i.done = want[o].done

DraftAgrees(o) ==
  \A r \in Run : drafts[r] # NoDraft /\ drafts[r].obj = o => want[o] = Fresh(drafts[r].val)

TaskAgrees(o) ==
  /\ Somewhere(o) /\ DeletesWait(o) /\ CreateLeads(o)
  /\ RowAgrees(o) /\ QueueAgrees(o) /\ DraftAgrees(o)

RowPerTask == \A j, k \in DOMAIN rows : rows[j].obj = rows[k].obj => j = k

TasksAgree == RowPerTask /\ \A o \in DOMAIN want : TaskAgrees(o)

\* What a step that does not touch task o leaves as it is.
SameRows(o) ==
  /\ \A k \in DOMAIN rows' : rows'[k].obj = o => k \in DOMAIN rows /\ rows'[k] = rows[k]
  /\ \A k \in DOMAIN rows : rows[k].obj = o => k \in DOMAIN rows' /\ rows'[k] = rows[k]

SameQueue(o) ==
  \A kind \in Kinds : /\ \A i \in Waits(o, kind)' : \E a \in Waits(o, kind) : Alike(a, i)
                      /\ \A a \in Waits(o, kind) : \E i \in Waits(o, kind)' : Alike(a, i)

SameDrafts(o) ==
  /\ \A r \in Run : drafts'[r] # NoDraft /\ drafts'[r].obj = o =>
       drafts[r] # NoDraft /\ drafts[r].obj = o /\ drafts'[r].val = drafts[r].val
  /\ \A r \in Run : drafts[r] # NoDraft /\ drafts[r].obj = o =>
       drafts'[r] # NoDraft /\ drafts'[r].obj = o

LEMMA TaskStands ==
  ASSUME NEW o, TaskAgrees(o), SameRows(o), SameQueue(o), SameDrafts(o), want'[o] = want[o]
  PROVE  TaskAgrees(o)'
<1>1. (HasRow(o)' <=> HasRow(o)) /\ (Gone(o)' <=> Gone(o)) /\ (Drafted(o)' <=> Drafted(o))
  BY DEF HasRow, Gone, Drafted, SameRows, SameDrafts
<1>2. \A kind \in Kinds : Waits(o, kind)' = {} <=> Waits(o, kind) = {}
  BY DEF SameQueue
<1>3. Somewhere(o)' /\ DeletesWait(o)'
  BY <1>1, <1>2 DEF TaskAgrees, Somewhere, DeletesWait, Kinds
<1>4. CreateLeads(o)'
  <2> SUFFICES ASSUME NEW c \in Waits(o, "create")'
               PROVE  /\ \A k \in DOMAIN rows' : rows'[k].obj = o => rows'[k].live
                      /\ HasRow(o)' \/ want'[o] = Fresh(c.val)
                      /\ \A kind \in Kinds : \A i \in Waits(o, kind)' : c.seq <= i.seq
    BY DEF CreateLeads
  <2>1. PICK a \in Waits(o, "create") : Alike(a, c)
    BY DEF SameQueue, Kinds
  <2>2. ASSUME NEW kind \in Kinds, NEW i \in Waits(o, kind)' PROVE c.seq <= i.seq
    <3>1. PICK b \in Waits(o, kind) : Alike(b, i)
      BY DEF SameQueue
    <3> QED BY <2>1, <3>1 DEF TaskAgrees, CreateLeads, Alike
  <2> QED BY <1>1, <2>1, <2>2 DEF TaskAgrees, CreateLeads, Alike, SameRows
<1>5. RowAgrees(o)'
  BY <1>2 DEF TaskAgrees, RowAgrees, SameRows, Kinds
<1>6. ASSUME NEW kind \in Kinds, NEW i \in Waits(o, kind)', Latest(i)'
      PROVE  \E a \in Waits(o, kind) : Alike(a, i) /\ Latest(a)
  <2>1. PICK a \in Waits(o, kind) : Alike(a, i)
    BY DEF SameQueue
  <2>2. i.obj = o /\ i.kind = kind /\ a.obj = o /\ a.kind = kind
    BY DEF Waits
  <2>3. ASSUME NEW b \in Waits(o, kind) PROVE b.seq <= a.seq
    <3>1. PICK j \in Waits(o, kind)' : Alike(b, j)
      BY DEF SameQueue
    <3>2. j.seq <= i.seq
      BY <1>6, <2>2, <3>1 DEF Latest
    <3> QED BY <2>1, <3>1, <3>2 DEF Alike
  <2> QED BY <2>1, <2>2, <2>3 DEF Latest
<1>7. QueueAgrees(o)'
  <2>1. ASSUME NEW i \in Waits(o, "patch")', Latest(i)', want[o].live PROVE i.val = want[o].val
    <3>1. PICK a \in Waits(o, "patch") : Alike(a, i) /\ Latest(a)
      BY <1>6, <2>1 DEF Kinds
    <3> QED BY <2>1, <3>1 DEF TaskAgrees, QueueAgrees, Alike
  <2>2. ASSUME NEW i \in Waits(o, "done")', Latest(i)', want[o].live PROVE i.done = want[o].done
    <3>1. PICK a \in Waits(o, "done") : Alike(a, i) /\ Latest(a)
      BY <1>6, <2>2 DEF Kinds
    <3> QED BY <2>2, <3>1 DEF TaskAgrees, QueueAgrees, Alike
  <2> QED BY <2>1, <2>2 DEF QueueAgrees
<1>8. DraftAgrees(o)'
  BY DEF TaskAgrees, DraftAgrees, SameDrafts
<1> QED BY <1>3, <1>4, <1>5, <1>7, <1>8 DEF TaskAgrees

LEMMA QueueUnmoved ==
  ASSUME UNCHANGED <<outbox, fate>>
  PROVE  \A o : SameQueue(o) /\ \A kind : Waits(o, kind)' = Waits(o, kind)
<1>1. \A o, kind : Waits(o, kind)' = Waits(o, kind)
  BY DEF Waits
<1> QED BY <1>1 DEF SameQueue, Alike

LEMMA WaitsMore ==
  ASSUME IInv, NEW e, outbox' = outbox \cup {e}, e.seq = Len(fate) + 1, fate'[e.seq] = "queued",
         \A s \in DOMAIN fate : fate'[s] = fate[s]
  PROVE  /\ \A o, kind : Waits(o, kind)' = IF e.obj = o /\ e.kind = kind THEN Waits(o, kind) \cup {e}
                                                                         ELSE Waits(o, kind)
         /\ \A o : o # e.obj => SameQueue(o)
         /\ \A i \in outbox : i.seq < e.seq
<1>1. \A i \in outbox : i.seq \in DOMAIN fate /\ i.seq < e.seq
  BY Places DEF IInv, Queue, Numbered
<1>2. ASSUME NEW o, NEW kind
      PROVE  Waits(o, kind)' = IF e.obj = o /\ e.kind = kind THEN Waits(o, kind) \cup {e} ELSE Waits(o, kind)
  BY <1>1 DEF Waits
<1>3. ASSUME NEW o, o # e.obj PROVE SameQueue(o)
  BY <1>2, <1>3 DEF SameQueue, Alike
<1> QED BY <1>1, <1>2, <1>3

LEMMA RowPerTaskStands == RowPerTask /\ Fewer => RowPerTask'
BY DEF RowPerTask, Fewer, RowsStay

LEMMA RowsUnmoved == rows' = rows => Fewer /\ \A o : SameRows(o)
BY DEF Fewer, RowsStay, SameRows

LEMMA DraftsUnmoved == drafts' = drafts => \A o : SameDrafts(o)
BY DEF SameDrafts

LEMMA WantTypes ==
  ASSUME IInv
  PROVE  \A o \in DOMAIN want : want[o] \in Wants
BY WantType DEF IInv, TypeInv, TypeOK

\* A task that has just been created is its row or its draft.
LEMMA AgreeCreate ==
  ASSUME Solo, "lost_create" \notin Admitted, IInv, Used, TasksAgree, NEW r \in Run, NEW v \in Vals,
         NEW how \in {"answer", "lost", "unsent"}, CreateTask(r, v, how)
  PROVE  TasksAgree'
<1> DEFINE new == [Item("create", Len(want) + 1, 0, v, FALSE) EXCEPT !.cid = nextCid]
<1>0. PICK o, row, fresh : /\ o = Len(want) + 1 /\ row = NewRow(new)
                           /\ fresh = [step |-> "put", id |-> NextTempId, obj |-> o, val |-> v]
  OBVIOUS
<1>1. /\ UNCHANGED <<outbox, fate>> /\ drafts[r] = NoDraft /\ want' = Append(want, Fresh(v))
      /\ \/ rows' = Append(rows, row) /\ drafts' = drafts
         \/ rows' = rows /\ drafts' = [drafts EXCEPT ![r] = fresh]
  BY <1>0 DEF CreateTask, stores, calls, Fresh
<1>2. row.obj = o /\ row.val = v /\ row.done = FALSE /\ row.live = TRUE /\ fresh.obj = o /\ fresh.val = v
  BY <1>0 DEF NewRow, Item
<1>3. /\ o \notin DOMAIN want /\ DOMAIN want' = DOMAIN want \cup {o} /\ want'[o] = Fresh(v)
      /\ \A p \in DOMAIN want : want'[p] = want[p]
  BY <1>0, <1>1, LenProperties DEF IInv, TypeInv, TypeOK, WorldOK
<1> HIDE DEF new
<1>4. \A p : SameQueue(p) /\ \A kind : Waits(p, kind)' = Waits(p, kind)
  BY <1>1, QueueUnmoved
<1>5. \A kind : Waits(o, kind)' = {}
  BY <1>3, <1>4 DEF Waits, Used
<1>6. PICK n : n = Len(rows) + 1
  OBVIOUS
<1>7. \/ /\ DOMAIN rows' = DOMAIN rows \cup {n} /\ n \notin DOMAIN rows /\ rows'[n] = row
         /\ (\A k \in DOMAIN rows : rows'[k] = rows[k]) /\ drafts' = drafts
      \/ rows' = rows /\ drafts' = [drafts EXCEPT ![r] = fresh]
  <2>1. CASE rows' = Append(rows, row) /\ drafts' = drafts
    <3>1. DOMAIN rows = 1 .. Len(rows) /\ Len(rows) \in Nat
      BY RowTypes, LenProperties
    <3>2. DOMAIN rows' = DOMAIN rows \cup {n} /\ n \notin DOMAIN rows /\ rows'[n] = row
          /\ \A k \in DOMAIN rows : rows'[k] = rows[k]
      BY <1>6, <2>1, <3>1
    <3> QED BY <2>1, <3>2
  <2> QED BY <1>1, <2>1
<1>8. \A k \in DOMAIN rows : rows[k].obj \in DOMAIN want
  BY DEF Used
<1>9. DOMAIN drafts = Run /\ (\A s \in Run : s = r) /\ \A s \in Run : drafts[s] # NoDraft => drafts[s].obj \in DOMAIN want
  BY DEF IInv, TypeInv, TypeOK, StoresOK, Solo, Used
<1>10. RowPerTask'
  BY <1>2, <1>3, <1>7, <1>8 DEF TasksAgree, RowPerTask
<1>11. ASSUME NEW p \in DOMAIN want PROVE TaskAgrees(p)'
  <2>1. p # o /\ TaskAgrees(p) /\ want'[p] = want[p]
    BY <1>3 DEF TasksAgree
  <2>2. SameRows(p)
    BY <1>2, <1>7, <2>1 DEF SameRows
  <2>3. SameDrafts(p)
    BY <1>1, <1>2, <1>7, <1>9, <2>1 DEF SameDrafts
  <2> QED BY <1>4, <2>1, <2>2, <2>3, TaskStands
<1>12. TaskAgrees(o)'
  <2>1. want'[o].live = TRUE /\ want'[o].val = v /\ want'[o].done = FALSE /\ want'[o] = Fresh(v)
    BY <1>3 DEF Fresh
  <2>2. Somewhere(o)'
    <3>1. CASE rows' = rows /\ drafts' = [drafts EXCEPT ![r] = fresh]
      <4>1. drafts'[r] = fresh /\ fresh # NoDraft
        <5>1. "obj" \in DOMAIN fresh
          BY <1>0
        <5> QED BY <1>9, <3>1, <5>1 DEF NoDraft
      <4> QED BY <1>2, <4>1 DEF Somewhere, Drafted
    <3>2. CASE n \in DOMAIN rows' /\ rows'[n] = row
      BY <1>2, <3>2 DEF Somewhere, HasRow
    <3> QED BY <1>7, <3>1, <3>2
  <2>3. DeletesWait(o)' /\ CreateLeads(o)' /\ QueueAgrees(o)'
    BY <1>5, <2>1 DEF DeletesWait, CreateLeads, QueueAgrees
  <2>4. RowAgrees(o)'
    <3>1. \A k \in DOMAIN rows' : rows'[k].obj = o => rows'[k] = row
      BY <1>3, <1>7, <1>8
    <3> QED BY <1>2, <2>1, <3>1 DEF RowAgrees
  <2>5. DraftAgrees(o)'
    BY <1>1, <1>2, <1>3, <1>7, <1>9, <2>1 DEF DraftAgrees
  <2> QED BY <2>2, <2>3, <2>4, <2>5 DEF TaskAgrees
<1> QED BY <1>3, <1>10, <1>11, <1>12 DEF TasksAgree

\* Its create takes over from the draft.
LEMMA AgreeDraft ==
  ASSUME Solo, IInv, Used, Singles, Names, TasksAgree, NEW r \in Run, DraftStep(r)
  PROVE  TasksAgree'
<1>1. CASE PutLocal(r)
  <2>1. UNCHANGED <<rows, outbox, fate, want>>
    BY <1>1 DEF PutLocal, ghosts
  <2>2. \A o : SameDrafts(o)
    <3>1. /\ drafts[r] # NoDraft /\ drafts'[r] # NoDraft
          /\ drafts'[r].obj = drafts[r].obj /\ drafts'[r].val = drafts[r].val
          /\ \A s \in Run : s # r => drafts'[s] = drafts[s]
      BY <1>1, PutLocalDraft
    <3> QED BY <3>1 DEF SameDrafts
  <2>3. \A o \in DOMAIN want : TaskAgrees(o)'
    BY <2>1, <2>2, TaskStands, RowsUnmoved, QueueUnmoved DEF TasksAgree
  <2> QED BY <2>1, <2>3, RowPerTaskStands, RowsUnmoved DEF TasksAgree
<1>2. CASE EnqueueCreate(r)
  <2> DEFINE k == [Item("create", drafts[r].obj, drafts[r].id, drafts[r].val, FALSE) EXCEPT !.temp = drafts[r].id]
  <2>0. PICK d : d = drafts[r]
    OBVIOUS
  <2>1. d # NoDraft /\ Enqueue(k) /\ drafts' = [drafts EXCEPT ![r] = NoDraft] /\ UNCHANGED <<rows, want>>
    BY <1>2, <2>0 DEF EnqueueCreate
  <2>2. DOMAIN k = {"seq", "kind", "obj", "temp", "task", "val", "done", "cid", "tries"}
        /\ k.obj = d.obj /\ k.val = d.val /\ k.kind = "create"
    BY <2>0 DEF Item
  <2> HIDE DEF k
  <2>3. PICK e : outbox' = outbox \cup {e} /\ e.seq = Len(fate) + 1 /\ e.obj = d.obj /\ e.val = d.val /\ e.kind = "create"
    BY <2>1, <2>2, EnqueuedItem
  <2>4. fate'[e.seq] = "queued" /\ \A s \in DOMAIN fate : fate'[s] = fate[s]
    BY <2>1, <2>3, NewWaits
  <2>5. /\ \A o, kind : Waits(o, kind)' = IF e.obj = o /\ e.kind = kind THEN Waits(o, kind) \cup {e}
                                                                        ELSE Waits(o, kind)
        /\ \A o : o # e.obj => SameQueue(o)
        /\ \A i \in outbox : i.seq < e.seq
    BY <2>3, <2>4, WaitsMore
  <2>6. (\A s \in Run : s = r) /\ DOMAIN drafts = Run
    BY DEF Solo, IInv, TypeInv, TypeOK, StoresOK
  <2>7. /\ \A n \in DOMAIN rows : rows[n].obj # d.obj
        /\ \A i \in Creates : i.obj # d.obj
    BY <2>0, <2>1 DEF Singles
  <2>8. \A i \in outbox : i.kind # "create" => i.task \in DOMAIN rows /\ rows[i.task].obj = i.obj
    BY DEF Names, NamesRow, OfTask
  <2>9. \A i \in outbox : i.obj # d.obj
    BY <2>7, <2>8 DEF Creates
  <2>10. want[d.obj] = Fresh(d.val) /\ d.obj \in DOMAIN want
    BY <2>0, <2>1 DEF TasksAgree, TaskAgrees, DraftAgrees, Used
  <2>11. ASSUME NEW o \in DOMAIN want, o # d.obj PROVE TaskAgrees(o)'
    <3>1. SameDrafts(o)
      BY <2>0, <2>1, <2>6, <2>11 DEF SameDrafts
    <3> QED BY <2>1, <2>3, <2>5, <2>11, <3>1, TaskStands, RowsUnmoved DEF TasksAgree
  <2>12. TaskAgrees(d.obj)'
    <3>1. \A kind : Waits(d.obj, kind)' = IF kind = "create" THEN {e} ELSE {}
      BY <2>3, <2>5, <2>9 DEF Waits
    <3>2. want'[d.obj] = Fresh(d.val) /\ want'[d.obj].live
      BY <2>1, <2>10 DEF Fresh
    <3>3. Somewhere(d.obj)' /\ DeletesWait(d.obj)' /\ QueueAgrees(d.obj)'
      BY <3>1, <3>2 DEF Somewhere, DeletesWait, QueueAgrees
    <3>4. e.seq <= e.seq
      BY <2>3, Places DEF IInv
    <3>5. CreateLeads(d.obj)'
      BY <2>1, <2>3, <2>7, <3>1, <3>2, <3>4 DEF CreateLeads
    <3>6. RowAgrees(d.obj)'
      BY <2>1, <2>7 DEF RowAgrees
    <3>7. DraftAgrees(d.obj)'
      BY <2>1, <2>6 DEF DraftAgrees
    <3> QED BY <3>3, <3>5, <3>6, <3>7 DEF TaskAgrees
  <2> QED BY <2>1, <2>11, <2>12, RowPerTaskStands, RowsUnmoved DEF TasksAgree
<1> QED BY <1>1, <1>2 DEF DraftStep

\* A write to a row: what it leaves of the queue of its task, and what it does to the row.
WrittenRow(k, kind, v) ==
  CASE kind = "patch"  -> [rows[k] EXCEPT !.val = v]
    [] kind = "done"   -> [rows[k] EXCEPT !.done = ~rows[k].done]
    [] kind = "delete" -> [rows[k] EXCEPT !.live = FALSE]

WrittenWant(o, kind, v) ==
  CASE kind = "patch"  -> [want[o] EXCEPT !.val = v]
    [] kind = "done"   -> [want[o] EXCEPT !.done = ~want[o].done]
    [] kind = "delete" -> [want[o] EXCEPT !.live = FALSE]

LEMMA WriteRowEffect ==
  ASSUME Solo, "temp_delete" \notin Admitted, "overtake" \notin Admitted, IInv, Used,
         NEW tab \in Tabs, NEW k \in DOMAIN rows, NEW v \in Vals,
         NEW kind \in {"patch", "done", "delete"},
         NEW how \in {"answer", "lost", "unsent"}, WriteRow(tab, k, kind, v, how)
  PROVE  LET o == rows[k].obj IN
         /\ o \in DOMAIN want /\ want[o].live /\ drafts' = drafts
         /\ want' = [want EXCEPT ![o] = WrittenWant(o, kind, v)]
         /\ \/ how = "unsent" /\ rows' = rows
            \/ /\ how # "unsent" /\ \A i \in outbox : i.obj # o
               /\ rows' = [rows EXCEPT ![k] = WrittenRow(k, kind, v)]
         /\ \/ how = "answer" /\ UNCHANGED <<outbox, fate>>
            \/ how # "answer" /\ \E e : /\ outbox' = outbox \cup {e} /\ e.seq = Len(fate) + 1
                                        /\ e.kind = kind /\ e.obj = o /\ e.val = v /\ e.done = ~want[o].done
                                        /\ fate'[e.seq] = "queued" /\ \A s \in DOMAIN fate : fate'[s] = fate[s]
<1>0. PICK o : o = rows[k].obj
  OBVIOUS
<1> DEFINE q == Item(kind, o, k, v, ~want[o].done)
           direct == IF kind = "done" THEN Item("done", o, k, v, ~rows[k].done) ELSE q
<1>1. o \in DOMAIN want /\ rows[k] \in Rows /\ want[o] \in Wants
  BY <1>0, RowTypes, WantTypes DEF Used
<1>2. want[o].live /\ drafts' = drafts /\ (how = "unsent" \/ \A i \in outbox : i.obj # o)
  BY <1>0 DEF WriteRow, OnScreen
<1>3. want' = [want EXCEPT ![o] = WrittenWant(o, kind, v)]
  BY <1>0, <1>1 DEF WriteRow, WrittenWant, Wants
<1>4. /\ how = "unsent" => rows' = rows
      /\ how # "unsent" => rows' = Applied(direct, k)
  BY <1>0 DEF WriteRow
<1>5. /\ direct.kind = kind /\ (kind = "patch" => direct.val = v) /\ (kind = "done" => direct.done = ~rows[k].done)
      /\ q.kind = kind /\ q.obj = o /\ q.val = v /\ q.done = ~want[o].done
      /\ DOMAIN q = {"seq", "kind", "obj", "temp", "task", "val", "done", "cid", "tries"}
  BY DEF Item
<1>6. /\ how = "answer" => UNCHANGED <<outbox, fate>>
      /\ how # "answer" => Enqueue(q)
  BY <1>0 DEF WriteRow
<1> HIDE DEF q, direct
<1>7. how # "unsent" => rows' = [rows EXCEPT ![k] = WrittenRow(k, kind, v)]
  BY <1>1, <1>4, <1>5 DEF Applied, WrittenRow
<1>8. how # "answer" => \E e : /\ outbox' = outbox \cup {e} /\ e.seq = Len(fate) + 1
                               /\ e.kind = kind /\ e.obj = o /\ e.val = v /\ e.done = ~want[o].done
                               /\ fate'[e.seq] = "queued" /\ \A s \in DOMAIN fate : fate'[s] = fate[s]
  <2> SUFFICES ASSUME how # "answer"
               PROVE  \E e : /\ outbox' = outbox \cup {e} /\ e.seq = Len(fate) + 1
                             /\ e.kind = kind /\ e.obj = o /\ e.val = v /\ e.done = ~want[o].done
                             /\ fate'[e.seq] = "queued" /\ \A s \in DOMAIN fate : fate'[s] = fate[s]
    OBVIOUS
  <2>1. PICK e : /\ outbox' = outbox \cup {e} /\ e.seq = Len(fate) + 1
                 /\ e.kind = q.kind /\ e.obj = q.obj /\ e.val = q.val /\ e.done = q.done
    BY <1>5, <1>6, EnqueuedItem
  <2>2. fate'[e.seq] = "queued" /\ \A s \in DOMAIN fate : fate'[s] = fate[s]
    BY <1>6, <2>1, NewWaits
  <2> QED BY <1>5, <2>1, <2>2
<1> QED BY <1>0, <1>1, <1>2, <1>3, <1>4, <1>6, <1>7, <1>8

LEMMA AgreeWriteRow ==
  ASSUME Solo, "temp_delete" \notin Admitted, "overtake" \notin Admitted, IInv, Used, Singles, TasksAgree,
         NEW tab \in Tabs, NEW k \in DOMAIN rows, NEW v \in Vals,
         NEW kind \in {"patch", "done", "delete"},
         NEW how \in {"answer", "lost", "unsent"}, WriteRow(tab, k, kind, v, how)
  PROVE  TasksAgree'
<1>0. PICK o, w, x : o = rows[k].obj /\ w = WrittenWant(o, kind, v) /\ x = WrittenRow(k, kind, v)
  OBVIOUS
<1>1. /\ o \in DOMAIN want /\ want[o].live /\ drafts' = drafts
      /\ want' = [want EXCEPT ![o] = w]
      /\ \/ how = "unsent" /\ rows' = rows
         \/ how # "unsent" /\ (\A i \in outbox : i.obj # o) /\ rows' = [rows EXCEPT ![k] = x]
  BY <1>0, WriteRowEffect
<1>2. \/ how = "answer" /\ UNCHANGED <<outbox, fate>>
      \/ how # "answer" /\ \E e : /\ outbox' = outbox \cup {e} /\ e.seq = Len(fate) + 1
                                  /\ e.kind = kind /\ e.obj = o /\ e.val = v /\ e.done = ~want[o].done
                                  /\ fate'[e.seq] = "queued" /\ \A s \in DOMAIN fate : fate'[s] = fate[s]
  BY <1>0, WriteRowEffect
<1>3. rows[k] \in Rows /\ want[o] \in Wants
  BY <1>1, RowTypes, WantTypes
<1>4. /\ w.live = (kind # "delete")
      /\ w.val = IF kind = "patch" THEN v ELSE want[o].val
      /\ w.done = IF kind = "done" THEN ~want[o].done ELSE want[o].done
  BY <1>0, <1>1, <1>3 DEF WrittenWant, Wants
<1>5. /\ x.obj = o
      /\ x.live = (IF kind = "delete" THEN FALSE ELSE rows[k].live)
      /\ x.val = IF kind = "patch" THEN v ELSE rows[k].val
      /\ x.done = IF kind = "done" THEN ~rows[k].done ELSE rows[k].done
  BY <1>0, <1>3 DEF WrittenRow, Rows
<1>6. TaskAgrees(o) /\ RowPerTask
  BY <1>1 DEF TasksAgree
<1>7. /\ DOMAIN want' = DOMAIN want /\ want'[o] = w /\ DOMAIN rows' = DOMAIN rows
      /\ \A p \in DOMAIN want : p # o => want'[p] = want[p]
      /\ \A n \in DOMAIN rows : n # k => rows'[n] = rows[n] /\ rows[n].obj # o
      /\ \/ how = "unsent" /\ rows'[k] = rows[k]
         \/ how # "unsent" /\ (\A i \in outbox : i.obj # o) /\ rows'[k] = x
      /\ rows'[k].obj = o
  BY <1>0, <1>1, <1>5, <1>6 DEF RowPerTask
<1>8. ASSUME NEW p \in DOMAIN want, p # o PROVE TaskAgrees(p)'
  <2>1. SameRows(p)
    BY <1>0, <1>7, <1>8 DEF SameRows
  <2>2. SameQueue(p)
    BY <1>2, <1>8, QueueUnmoved, WaitsMore
  <2> QED BY <1>1, <1>7, <1>8, <2>1, <2>2, TaskStands, DraftsUnmoved DEF TasksAgree
<1>9. RowPerTask'
  BY <1>0, <1>6, <1>7 DEF RowPerTask
<1>10. /\ how = "answer" => \A t : Waits(o, t)' = Waits(o, t)
       /\ how # "answer" => \E e : /\ e.val = v /\ e.done = ~want[o].done /\ e.obj = o /\ e.kind = kind
                                   /\ (\A i \in outbox : i.seq < e.seq) /\ e.seq \in Int
                                   /\ \A t : Waits(o, t)' = IF t = kind THEN Waits(o, t) \cup {e} ELSE Waits(o, t)
  <2>1. how = "answer" => \A t : Waits(o, t)' = Waits(o, t)
    BY <1>2, QueueUnmoved
  <2>2. ASSUME how # "answer"
        PROVE  \E e : /\ e.val = v /\ e.done = ~want[o].done /\ e.obj = o /\ e.kind = kind
                      /\ (\A i \in outbox : i.seq < e.seq) /\ e.seq \in Int
                      /\ \A t : Waits(o, t)' = IF t = kind THEN Waits(o, t) \cup {e} ELSE Waits(o, t)
    <3>1. PICK e : /\ outbox' = outbox \cup {e} /\ e.seq = Len(fate) + 1
                   /\ e.kind = kind /\ e.obj = o /\ e.val = v /\ e.done = ~want[o].done
                   /\ fate'[e.seq] = "queued" /\ \A s \in DOMAIN fate : fate'[s] = fate[s]
      BY <1>2, <2>2
    <3>2. \A t : Waits(o, t)' = IF e.obj = o /\ e.kind = t THEN Waits(o, t) \cup {e} ELSE Waits(o, t)
      BY <3>1, WaitsMore
    <3>3. \A i \in outbox : i.seq < e.seq
      BY <3>1, WaitsMore
    <3>4. e.seq \in Int
      BY <3>1, Places DEF IInv
    <3>5. \A t : Waits(o, t)' = IF t = kind THEN Waits(o, t) \cup {e} ELSE Waits(o, t)
      BY <3>1, <3>2
    <3> QED BY <3>1, <3>3, <3>4, <3>5
  <2> QED BY <2>1, <2>2
<1>11. /\ rows[k].live /\ Waits(o, "delete") = {}
       /\ Waits(o, "patch") = {} => rows[k].val = want[o].val
       /\ Waits(o, "done") = {} => rows[k].done = want[o].done
  BY <1>0, <1>1, <1>6 DEF TaskAgrees, RowAgrees, DeletesWait
<1>12. how # "unsent" => \A t : Waits(o, t) = {}
  BY <1>7 DEF Waits
<1>13. HasRow(o)'
  BY <1>0, <1>7 DEF HasRow
<1>14. TaskAgrees(o)'
  <2>1. Somewhere(o)'
    BY <1>13 DEF Somewhere
  <2>2. DeletesWait(o)'
    <3>1. CASE kind # "delete"
      <4>1. Waits(o, "delete")' = {}
        BY <1>10, <1>11, <3>1
      <4> QED BY <1>4, <1>7, <3>1, <4>1 DEF DeletesWait
    <3>2. CASE kind = "delete" /\ how = "answer"
      <4>1. Waits(o, "create")' = {}
        BY <1>10, <1>12, <3>2
      <4>2. Gone(o)'
        BY <1>5, <1>7, <3>2 DEF Gone
      <4> QED BY <1>4, <1>7, <3>2, <4>1, <4>2 DEF DeletesWait
    <3>3. CASE kind = "delete" /\ how # "answer"
      <4>1. Waits(o, "delete")' # {}
        BY <1>10, <3>3
      <4> QED BY <1>4, <1>7, <3>3, <4>1 DEF DeletesWait
    <3> QED BY <3>1, <3>2, <3>3
  <2>3. CreateLeads(o)'
    <3>1. Waits(o, "create")' = Waits(o, "create")
      BY <1>10
    <3>2. CASE how # "unsent"
      BY <1>12, <3>1, <3>2 DEF CreateLeads
    <3>3. CASE how = "unsent"
      <4>1. PICK e : /\ (\A i \in outbox : i.seq < e.seq)
                     /\ e.seq \in Int /\ \A t : Waits(o, t)' = IF t = kind THEN Waits(o, t) \cup {e} ELSE Waits(o, t)
        BY <1>10, <3>3
      <4>2. ASSUME NEW c \in Waits(o, "create"), NEW t \in Kinds, NEW i \in Waits(o, t)' PROVE c.seq <= i.seq
        <5>1. CASE i \in Waits(o, t)
          BY <1>6, <5>1 DEF TaskAgrees, CreateLeads
        <5>2. CASE i = e
          <6>1. c \in outbox /\ c.seq \in Int /\ c.seq < e.seq
            BY <4>1, Places DEF Waits, IInv, Queue, Numbered
          <6> QED BY <4>1, <5>2, <6>1
        <5> QED BY <4>1, <5>1, <5>2
      <4>3. \A c \in Waits(o, "create") : \A n \in DOMAIN rows' : rows'[n].obj = o => rows'[n].live
        BY <1>7, <1>11, <3>3
      <4> QED BY <1>13, <3>1, <4>2, <4>3 DEF CreateLeads
    <3> QED BY <3>2, <3>3
  <2>4. RowAgrees(o)'
    <3> SUFFICES ASSUME kind # "delete"
                 PROVE  /\ rows'[k].live
                        /\ Waits(o, "patch")' = {} => rows'[k].val = w.val
                        /\ Waits(o, "done")' = {} => rows'[k].done = w.done
      BY <1>4, <1>7 DEF RowAgrees
    <3>1. CASE how = "unsent"
      BY <1>4, <1>7, <1>10, <1>11, <3>1
    <3>2. CASE how # "unsent"
      BY <1>4, <1>5, <1>7, <1>11, <1>12, <3>2
    <3> QED BY <3>1, <3>2
  <2>5. QueueAgrees(o)'
    <3> SUFFICES ASSUME kind # "delete"
                 PROVE  /\ \A i \in Waits(o, "patch")' : Latest(i)' => i.val = w.val
                        /\ \A i \in Waits(o, "done")' : Latest(i)' => i.done = w.done
      BY <1>4, <1>7 DEF QueueAgrees
    <3>1. CASE how = "answer"
      BY <1>10, <1>12, <3>1
    <3>2. CASE how # "answer"
      <4>1. PICK e : /\ e.val = v /\ e.done = ~want[o].done /\ e.obj = o /\ e.kind = kind
                     /\ (\A i \in outbox : i.seq < e.seq) /\ e.seq \in Int
                     /\ \A t : Waits(o, t)' = IF t = kind THEN Waits(o, t) \cup {e} ELSE Waits(o, t)
        BY <1>10, <3>2
      <4>2. \A i \in outbox : i.seq \in Int
        BY Places DEF IInv, Queue, Numbered
      <4>3. ASSUME NEW i \in Waits(o, kind)', Latest(i)' PROVE i = e
        <5>1. e \in Waits(o, kind)' /\ i.obj = o /\ i.kind = kind
          BY <4>1 DEF Waits
        <5>2. e.seq <= i.seq
          BY <4>3, <5>1 DEF Latest
        <5>3. i \notin outbox
          BY <4>1, <4>2, <5>2
        <5> QED BY <4>1, <5>3 DEF Waits
      <4>4. ASSUME NEW t \in {"patch", "done"}, t # kind, NEW i \in Waits(o, t)', Latest(i)'
            PROVE  i \in Waits(o, t) /\ Latest(i)
        BY <4>1, <4>4 DEF Latest, Waits
      <4>5. \A i \in Waits(o, "patch")' : Latest(i)' => i.val = w.val
        BY <1>1, <1>4, <1>6, <4>1, <4>3, <4>4 DEF TaskAgrees, QueueAgrees
      <4>6. \A i \in Waits(o, "done")' : Latest(i)' => i.done = w.done
        BY <1>1, <1>4, <1>6, <4>1, <4>3, <4>4 DEF TaskAgrees, QueueAgrees
      <4> QED BY <4>5, <4>6
    <3> QED BY <3>1, <3>2
  <2>6. DraftAgrees(o)'
    BY <1>0, <1>1 DEF DraftAgrees, Singles
  <2> QED BY <2>1, <2>2, <2>3, <2>4, <2>5, <2>6 DEF TaskAgrees
<1> QED BY <1>7, <1>8, <1>9, <1>14 DEF TasksAgree

LEMMA AgreeOtherDevice ==
  ASSUME "overtake" \notin Admitted, IInv, Used, Singles, TasksAgree, NEW k \in DOMAIN rows, OtherDeviceDelete(k)
  PROVE  TasksAgree'
<1>0. PICK o : o = rows[k].obj
  OBVIOUS
<1>1. rows[k] \in Rows /\ o \in DOMAIN want /\ want[o] \in Wants /\ RowPerTask
  BY <1>0, RowTypes, WantTypes DEF Used, TasksAgree
<1>2. /\ UNCHANGED <<outbox, fate, drafts>> /\ \A i \in outbox : i.obj = o => i.kind # "create"
      /\ rows' = [rows EXCEPT ![k].live = FALSE] /\ want' = [want EXCEPT ![o].live = FALSE]
  BY <1>0 DEF OtherDeviceDelete, stores, ghosts
<1>3. /\ DOMAIN want' = DOMAIN want /\ want'[o].live = FALSE /\ DOMAIN rows' = DOMAIN rows
      /\ \A p \in DOMAIN want : p # o => want'[p] = want[p]
      /\ \A n \in DOMAIN rows : n # k => rows'[n] = rows[n] /\ rows[n].obj # o
      /\ rows'[k].obj = o /\ rows'[k].live = FALSE
  BY <1>0, <1>1, <1>2 DEF RowPerTask, Rows, Wants
<1>4. ASSUME NEW p \in DOMAIN want, p # o PROVE TaskAgrees(p)'
  <2>1. SameRows(p)
    BY <1>0, <1>3, <1>4 DEF SameRows
  <2> QED BY <1>2, <1>3, <1>4, <2>1, TaskStands, QueueUnmoved, DraftsUnmoved DEF TasksAgree
<1>5. RowPerTask'
  BY <1>0, <1>1, <1>3 DEF RowPerTask
<1>6. TaskAgrees(o)'
  <2>1. Waits(o, "create")' = {}
    BY <1>2 DEF Waits
  <2>2. Gone(o)'
    BY <1>3 DEF Gone
  <2>3. DraftAgrees(o)'
    BY <1>0, <1>2 DEF DraftAgrees, Singles
  <2> QED BY <1>3, <2>1, <2>2, <2>3 DEF TaskAgrees, Somewhere, DeletesWait, CreateLeads, RowAgrees, QueueAgrees
<1> QED BY <1>3, <1>4, <1>5, <1>6 DEF TasksAgree

\* The steps of a call between its requests leave all that waits.
LEMMA SyncQueue ==
  ASSUME Solo, IInv, Copied, Queue', NEW r \in Run, SyncStep(r), fate' = fate
  PROVE  \A o : SameQueue(o)
<1>1. \A i \in outbox' : \E a \in outbox : Alike(a, i)
  BY SyncAddsNone
<1>2. ASSUME NEW a \in outbox, fate[a.seq] = "queued" PROVE \E i \in outbox' : Alike(a, i)
  <2>1. a.seq \in DOMAIN fate
    BY DEF IInv, Queue, Numbered
  <2>2. PICK i \in outbox' : i.seq = a.seq
    BY <1>2, <2>1 DEF Queue, NothingForgotten
  <2>3. PICK b \in outbox : Alike(b, i)
    BY <1>1
  <2>4. b = a
    BY <2>2, <2>3 DEF Copied, Alike
  <2> QED BY <2>3, <2>4
<1>3. ASSUME NEW o, NEW kind, NEW i \in Waits(o, kind)' PROVE \E a \in Waits(o, kind) : Alike(a, i)
  BY <1>1 DEF Waits, Alike
<1>4. ASSUME NEW o, NEW kind, NEW a \in Waits(o, kind) PROVE \E i \in Waits(o, kind)' : Alike(a, i)
  BY <1>2 DEF Waits, Alike
<1> QED BY <1>3, <1>4 DEF SameQueue

\* A write that is answered waits no more.
LEMMA WaitsLess ==
  ASSUME IInv, Copied, NEW a \in outbox, fate[a.seq] = "queued", NEW f \in {"delivered", "rejected"},
         Settle(a.seq, f), outbox' = outbox
  PROVE  \A p, t : Waits(p, t)' = Waits(p, t) \ {a}
<1>1. \A j \in outbox : j.seq \in DOMAIN fate /\ (j.seq = a.seq => j = a)
  BY DEF IInv, Queue, Numbered, Copied
<1>2. fate'[a.seq] # "queued" /\ \A t \in DOMAIN fate : t # a.seq => fate'[t] = fate[t]
  BY <1>1, SettleFate
<1> QED BY <1>1, <1>2 DEF Waits

\* The queue of a task after its front item a has been sent: answered or not.
After(o, a) ==
  \/ \A t \in Kinds : Waits(o, t)' = Waits(o, t)
  \/ \A t \in Kinds : Waits(o, t)' = Waits(o, t) \ {a}

LEMMA CreateReaches ==
  ASSUME NEW o, NEW a, TaskAgrees(o), UNCHANGED <<want, drafts>>, After(o, a),
         Waits(o, "create") = {a}, a.kind = "create",
         \/ rows' = rows /\ HasRow(o)
         \/ /\ ~HasRow(o)
            /\ \E n : /\ DOMAIN rows' = DOMAIN rows \cup {n}
                      /\ \A k \in DOMAIN rows : rows'[k] = rows[k]
                      /\ rows'[n].obj = o /\ rows'[n].val = a.val
                      /\ rows'[n].done = FALSE /\ rows'[n].live = TRUE
  PROVE  TaskAgrees(o)'
<1>1. /\ \A t \in Kinds \ {"create"} : Waits(o, t)' = Waits(o, t)
      /\ Waits(o, "create")' \subseteq {a}
  BY DEF After, Waits, Kinds
<1>2. /\ \A k \in DOMAIN rows : rows[k].obj = o => rows[k].live
      /\ HasRow(o) \/ want[o] = Fresh(a.val)
      /\ \A kind \in Kinds : \A i \in Waits(o, kind) : a.seq <= i.seq
  BY DEF TaskAgrees, CreateLeads
<1>3. HasRow(o)' /\ \A k \in DOMAIN rows' : rows'[k].obj = o => rows'[k].live
  BY <1>2 DEF HasRow
<1>4. Somewhere(o)'
  BY <1>3 DEF Somewhere
<1>5. DeletesWait(o)'
  BY <1>1 DEF DeletesWait, TaskAgrees, Kinds
<1>6. CreateLeads(o)'
  BY <1>1, <1>2, <1>3 DEF CreateLeads, Kinds
<1>7. RowAgrees(o)'
  <2>1. CASE rows' = rows
    BY <1>1, <2>1 DEF RowAgrees, TaskAgrees, Kinds
  <2>2. CASE ~HasRow(o) /\ \E n : /\ DOMAIN rows' = DOMAIN rows \cup {n}
                      /\ \A k \in DOMAIN rows : rows'[k] = rows[k]
                      /\ rows'[n].obj = o /\ rows'[n].val = a.val
                      /\ rows'[n].done = FALSE /\ rows'[n].live = TRUE
    <3>1. want[o].val = a.val /\ want[o].done = FALSE
      BY <1>2, <2>2 DEF Fresh
    <3>2. \A k \in DOMAIN rows' : rows'[k].obj = o => rows'[k].val = a.val /\ rows'[k].done = FALSE /\ rows'[k].live
      BY <2>2 DEF HasRow
    <3> QED BY <3>1, <3>2 DEF RowAgrees
  <2> QED BY <2>1, <2>2
<1>8. QueueAgrees(o)'
  <2>1. \A t \in {"patch", "done"} : \A i \in Waits(o, t) : Latest(i)' => Latest(i)
    BY <1>1 DEF Latest, Waits, Kinds
  <2> QED BY <1>1, <2>1 DEF QueueAgrees, TaskAgrees, Kinds
<1>9. DraftAgrees(o)'
  BY DEF DraftAgrees, TaskAgrees
<1> QED BY <1>4, <1>5, <1>6, <1>7, <1>8, <1>9 DEF TaskAgrees

LEMMA WriteReaches ==
  ASSUME NEW o, NEW a, NEW T \in DOMAIN rows, NEW x, TaskAgrees(o), RowPerTask, UNCHANGED <<want, drafts>>,
         After(o, a), a \in Waits(o, a.kind), a.kind \in {"patch", "done", "delete"},
         Waits(o, "create") = {}, \A t \in Kinds : \A j \in Waits(o, t) : a.seq <= j.seq,
         rows[T].obj = o, rows' = [rows EXCEPT ![T] = x], x.obj = o,
         x.live = (IF a.kind = "delete" THEN FALSE ELSE rows[T].live),
         x.val = (IF a.kind = "patch" THEN a.val ELSE rows[T].val),
         x.done = (IF a.kind = "done" THEN a.done ELSE rows[T].done)
  PROVE  TaskAgrees(o)'
<1>1. /\ \A t \in Kinds : Waits(o, t)' \subseteq Waits(o, t)
      /\ \A t \in Kinds : t # a.kind => Waits(o, t)' = Waits(o, t)
      /\ \A t \in Kinds : Waits(o, t) \ {a} \subseteq Waits(o, t)'
  BY DEF After, Waits
<1>2. /\ \A k \in DOMAIN rows' : k \in DOMAIN rows /\ (k = T \/ (rows'[k] = rows[k] /\ rows[k].obj # o))
      /\ T \in DOMAIN rows' /\ rows'[T] = x
  BY DEF RowPerTask
<1>3. HasRow(o)' /\ (Gone(o) => Gone(o)') /\ (a.kind = "delete" => Gone(o)')
  BY <1>2 DEF HasRow, Gone
<1>4. a.kind = "delete" => ~want[o].live
  BY DEF TaskAgrees, DeletesWait
<1>5. Somewhere(o)'
  BY <1>3 DEF Somewhere
<1>6. DeletesWait(o)'
  BY <1>1, <1>3, <1>4 DEF DeletesWait, TaskAgrees, Kinds
<1>7. CreateLeads(o)'
  BY <1>1 DEF CreateLeads, Kinds
<1>8. RowAgrees(o)'
  <2> SUFFICES ASSUME want[o].live
               PROVE  /\ x.live
                      /\ Waits(o, "patch")' = {} => x.val = want[o].val
                      /\ Waits(o, "done")' = {} => x.done = want[o].done
    BY <1>2 DEF RowAgrees
  <2>1. /\ rows[T].live /\ (Waits(o, "patch") = {} => rows[T].val = want[o].val)
        /\ (Waits(o, "done") = {} => rows[T].done = want[o].done)
    BY DEF RowAgrees, TaskAgrees
  <2>2. ASSUME Waits(o, a.kind)' = {} PROVE Latest(a)
    <3>1. Waits(o, a.kind) \subseteq {a}
      BY <1>1, <2>2 DEF Kinds
    <3> QED BY <3>1 DEF Latest, Waits, Kinds
  <2>3. a.kind = "patch" /\ Waits(o, "patch")' = {} => a.val = want[o].val
    BY <2>2 DEF TaskAgrees, QueueAgrees
  <2>4. a.kind = "done" /\ Waits(o, "done")' = {} => a.done = want[o].done
    BY <2>2 DEF TaskAgrees, QueueAgrees
  <2> QED BY <1>1, <1>4, <2>1, <2>3, <2>4 DEF Kinds
<1>9. QueueAgrees(o)'
  <2>1. ASSUME NEW t \in {"patch", "done"}, NEW i \in Waits(o, t)', Latest(i)' PROVE i \in Waits(o, t) /\ Latest(i)
    <3>1. i \in Waits(o, t) /\ i.obj = o /\ i.kind = t
      BY <1>1 DEF Waits, Kinds
    <3>2. ASSUME NEW j \in Waits(o, t) PROVE j.seq <= i.seq
      <4>1. CASE j = a
        BY <3>1, <4>1 DEF Kinds
      <4>2. CASE j # a
        BY <1>1, <2>1, <3>1, <4>2 DEF Latest, Kinds
      <4> QED BY <4>1, <4>2
    <3> QED BY <3>1, <3>2 DEF Latest
  <2> QED BY <2>1 DEF QueueAgrees, TaskAgrees
<1>10. DraftAgrees(o)'
  BY DEF DraftAgrees, TaskAgrees
<1> QED BY <1>5, <1>6, <1>7, <1>8, <1>9, <1>10 DEF TaskAgrees

\* The item a round sends next is the first of all that wait.
LEMMA FrontWaits ==
  ASSUME Solo, IInv, Copied, Used, OnlyWaiting, NEW r \in Run, NEW i \in todo[r], NEW a \in outbox,
         Begin(r, i), a.seq = i.seq, SameWrite(i, a)
  PROVE  /\ a.obj = i.obj /\ a.kind = i.kind /\ i.obj \in DOMAIN want /\ i \in Items /\ i.kind \in Kinds
         /\ fate[a.seq] = "queued" /\ a \in Waits(i.obj, i.kind)
         /\ \A p, t : \A j \in Waits(p, t) : a.seq <= j.seq /\ (j.seq <= a.seq => j = a)
<1>1. a.obj = i.obj /\ a.kind = i.kind /\ i.obj \in DOMAIN want
  BY DEF SameWrite, Used
<1>2. i \in Items /\ i.kind \in Kinds
  BY DEF IInv, TypeInv, TypeOK, CallsOK, Items
<1>3. \A j \in outbox : fate[j.seq] = "queued"
  <2>1. \A j : ~Past(j, Settling)
    BY DEF Solo, Begin, Past, Settling
  <2> QED BY <2>1 DEF OnlyWaiting
<1>4. a \in Waits(i.obj, i.kind)
  BY <1>1, <1>3 DEF Waits
<1>5. ASSUME NEW p, NEW t, NEW j \in Waits(p, t)
      PROVE  a.seq <= j.seq /\ (j.seq <= a.seq => j = a)
  <2>1. j \in outbox /\ j.seq \in DOMAIN fate /\ a.seq \in DOMAIN fate /\ fate[j.seq] = "queued"
    BY DEF Waits, IInv, Queue, Numbered
  <2>2. i.seq <= j.seq
    BY <2>1, FrontIsFirst
  <2>3. j.seq <= a.seq => j.seq = a.seq
    BY <2>1, <2>2, Places DEF IInv
  <2> QED BY <2>1, <2>2, <2>3 DEF Copied
<1> QED BY <1>1, <1>2, <1>3, <1>4, <1>5

LEMMA QueueSent ==
  ASSUME IInv, Copied, NEW a \in outbox, fate[a.seq] = "queued", outbox' = outbox,
         fate' = fate \/ Settle(a.seq, "delivered") \/ Settle(a.seq, "rejected")
  PROVE  After(a.obj, a) /\ \A p : p # a.obj => SameQueue(p)
<1>1. CASE fate' = fate
  BY <1>1, QueueUnmoved DEF After
<1>2. CASE Settle(a.seq, "delivered") \/ Settle(a.seq, "rejected")
  <2>1. \A p, t : Waits(p, t)' = Waits(p, t) \ {a}
    BY <1>2, WaitsLess
  <2>2. \A p, t : p # a.obj => a \notin Waits(p, t)
    BY DEF Waits
  <2> QED BY <2>1, <2>2 DEF After, SameQueue, Alike
<1> QED BY <1>1, <1>2

\* A create is answered: its task is its row, whether this attempt made it or an earlier one.
LEMMA AgreeSendCreate ==
  ASSUME Solo, IInv, Copied, Used, Singles, OnlyWaiting, TasksAgree, UNCHANGED <<outbox, drafts>>,
         NEW r \in Run, NEW i \in todo[r], NEW a \in outbox,
         Begin(r, i), a.seq = i.seq, SameWrite(i, a), i.kind = "create",
         Unsettled(r, i) \/ Delivered(r, i) \/ Rejected(r, i)
  PROVE  TasksAgree'
<1>0. PICK o, c : o = i.obj /\ c = WithCid(i)
  OBVIOUS
<1>1. /\ a.obj = o /\ a.kind = "create" /\ o \in DOMAIN want /\ i \in Items
      /\ fate[a.seq] = "queued" /\ a \in Waits(o, "create") /\ a.val = i.val /\ a.cid = i.cid
      /\ a \in Creates
  BY <1>0, FrontWaits DEF SameWrite, Creates
<1>2. TaskAgrees(o) /\ RowPerTask /\ want[o] \in Wants
  BY <1>1, WantTypes DEF TasksAgree
<1>3. /\ c.obj = o /\ c.val = i.val /\ c.kind = "create" /\ c.cid # 0 /\ (i.cid # 0 => c.cid = i.cid)
      /\ (i.cid = 0 => c.cid = nextCid) /\ nextCid \in Nat
  BY <1>0, <1>1 DEF WithCid, Items, Used, IInv, TypeInv, TypeOK, WorldOK
<1>4. Sure(c)
  <2>1. ~Past(a, Holding)
    BY DEF Solo, Begin, Past, Holding
  <2>2. Sure(a)
    BY <1>1, <2>1 DEF Singles
  <2>3. \A k \in DOMAIN rows : rows[k].cid # nextCid
    BY <1>3, RowTypes DEF Used
  <2> QED BY <1>1, <1>3, <2>2, <2>3 DEF Sure
<1>5. Waits(o, "create") = {a}
  BY <1>1 DEF Waits, Singles, Creates
<1>6. \A k \in DOMAIN rows : rows[k].obj = o => rows[k].live
  BY <1>2, <1>5 DEF TaskAgrees, CreateLeads
<1>7. Earlier(c.cid) # {} <=> HasRow(o)
  BY <1>3, <1>4, <1>6 DEF Earlier, HasRow, Sure
<1>8. After(o, a) /\ \A p : p # o => SameQueue(p)
  BY <1>1, QueueSent DEF Unsettled, Delivered, Rejected
<1>9. Accepts(i, Target(r, i))
  BY DEF Accepts
<1>10. CASE Rejected(r, i)
  <2>1. /\ rows' = rows /\ Settle(a.seq, "rejected") /\ ~HasRow(o)
        /\ DOMAIN want' = DOMAIN want /\ want'[o].live = FALSE
        /\ \A p \in DOMAIN want : p # o => want'[p] = want[p]
    BY <1>0, <1>1, <1>2, <1>7, <1>9, <1>10 DEF Rejected, Wants
  <2>2. ASSUME NEW p \in DOMAIN want, p # o PROVE TaskAgrees(p)'
    BY <1>8, <2>1, <2>2, TaskStands, RowsUnmoved, DraftsUnmoved DEF TasksAgree
  <2>3. TaskAgrees(o)'
    <3>1. Waits(o, "create")' = {}
      BY <1>1, <1>5, <2>1, WaitsLess
    <3>2. Gone(o)'
      BY <2>1 DEF Gone, HasRow
    <3>3. DraftAgrees(o)'
      BY <1>1 DEF DraftAgrees, Singles
    <3> QED BY <2>1, <3>1, <3>2, <3>3
          DEF TaskAgrees, Somewhere, DeletesWait, CreateLeads, RowAgrees, QueueAgrees
  <2> QED BY <2>1, <2>2, <2>3, RowPerTaskStands, RowsUnmoved DEF TasksAgree
<1>11. CASE Unsettled(r, i) /\ rows' = rows
  <2>1. UNCHANGED <<want, fate>>
    BY <1>11 DEF Unsettled
  <2> QED BY <1>11, <2>1, TaskStands, RowPerTaskStands, RowsUnmoved, DraftsUnmoved, QueueUnmoved
        DEF TasksAgree
<1>12. CASE want' = want /\ rows' = Applied(c, Target(r, i))
  <2>1. \/ rows' = rows /\ HasRow(o)
        \/ /\ ~HasRow(o)
           /\ \E n : /\ DOMAIN rows' = DOMAIN rows \cup {n}
                     /\ \A k \in DOMAIN rows : rows'[k] = rows[k]
                     /\ rows'[n].obj = o /\ rows'[n].val = a.val
                     /\ rows'[n].done = FALSE /\ rows'[n].live = TRUE
    <3>1. NewRow(c).obj = o /\ NewRow(c).val = a.val /\ NewRow(c).done = FALSE /\ NewRow(c).live = TRUE
      BY <1>1, <1>3 DEF NewRow
    <3>2. \/ rows' = rows /\ HasRow(o)
          \/ /\ ~HasRow(o)
             /\ \A k \in DOMAIN rows : rows'[k] = rows[k]
             /\ \E n \in DOMAIN rows' : DOMAIN rows' = DOMAIN rows \cup {n} /\ rows'[n] = NewRow(c)
      BY <1>3, <1>7, <1>12, RowTypes, AppliedCreate
    <3> QED BY <3>1, <3>2
  <2>2. TaskAgrees(o)'
    BY <1>1, <1>2, <1>5, <1>8, <1>12, <2>1, CreateReaches
  <2>3. \A k \in DOMAIN rows' : (k \in DOMAIN rows /\ rows'[k] = rows[k]) \/ (rows'[k].obj = o /\ ~HasRow(o))
    BY <2>1
  <2>4. \A k \in DOMAIN rows : k \in DOMAIN rows' /\ rows'[k] = rows[k]
    BY <2>1
  <2>5. RowPerTask'
    <3>1. CASE rows' = rows
      BY <1>2, <3>1 DEF RowPerTask
    <3>2. ASSUME ~HasRow(o), NEW n, DOMAIN rows' = DOMAIN rows \cup {n},
                 \A k \in DOMAIN rows : rows'[k] = rows[k], rows'[n].obj = o
          PROVE  RowPerTask'
      BY <1>2, <3>2 DEF RowPerTask, HasRow
    <3> QED BY <2>1, <3>1, <3>2
  <2>6. ASSUME NEW p \in DOMAIN want, p # o PROVE TaskAgrees(p)'
    <3>1. SameRows(p)
      BY <2>3, <2>4, <2>6 DEF SameRows
    <3> QED BY <1>8, <1>12, <2>6, <3>1, TaskStands, DraftsUnmoved DEF TasksAgree
  <2> QED BY <1>12, <2>2, <2>5, <2>6 DEF TasksAgree
<1> QED BY <1>0, <1>10, <1>11, <1>12 DEF Unsettled, Delivered

\* A write is answered: its row has what it says, or is gone.
LEMMA AgreeSendWrite ==
  ASSUME Solo, IInv, Copied, Used, Names, OnlyWaiting, TasksAgree, UNCHANGED <<outbox, drafts>>,
         NEW r \in Run, NEW i \in todo[r], NEW a \in outbox,
         Begin(r, i), a.seq = i.seq, SameWrite(i, a), i.kind # "create",
         Unsettled(r, i) \/ Delivered(r, i) \/ Rejected(r, i)
  PROVE  TasksAgree'
<1>0. PICK o, T : o = i.obj /\ T = Target(r, i)
  OBVIOUS
<1>1. /\ a.obj = o /\ a.kind = i.kind /\ o \in DOMAIN want /\ i \in Items
      /\ fate[a.seq] = "queued" /\ a \in Waits(o, a.kind) /\ a.val = i.val /\ a.done = i.done
      /\ a.kind \in {"patch", "done", "delete"} /\ a.kind \in Kinds
      /\ \A t \in Kinds : \A j \in Waits(o, t) : a.seq <= j.seq /\ (j.seq <= a.seq => j = a)
  BY <1>0, FrontWaits DEF SameWrite, Kinds
<1>2. TaskAgrees(o) /\ RowPerTask
  BY <1>1 DEF TasksAgree
<1>3. T \in DOMAIN rows /\ rows[T].obj = o /\ rows[T] \in Rows
  <2>1. OfTask(i) /\ \A t \in DOMAIN idMap[r] : t < 0
    BY DEF Names, CallNames, NamesRow
  <2>2. i.task > 0
    BY <2>1, LenProperties, RowTypes DEF OfTask
  <2>3. i.task \notin DOMAIN idMap[r]
    BY <2>1, <2>2 DEF IInv, TypeInv, TypeOK, CallsOK
  <2> QED BY <1>0, <2>1, <2>3, RowTypes DEF Target, OfTask
<1>4. WithCid(i) = i
  BY DEF WithCid
<1>5. Waits(o, "create") = {}
  <2> SUFFICES ASSUME NEW c \in Waits(o, "create") PROVE FALSE
    OBVIOUS
  <2>1. c.seq <= a.seq
    BY <1>1, <1>2 DEF TaskAgrees, CreateLeads
  <2>2. c = a
    BY <1>1, <2>1 DEF Kinds
  <2> QED BY <1>1, <2>2 DEF Waits
<1>6. After(o, a) /\ \A p : p # o => SameQueue(p)
  BY <1>1, QueueSent DEF Unsettled, Delivered, Rejected
<1>7. CASE Unsettled(r, i) /\ rows' = rows
  <2>1. UNCHANGED <<want, fate>>
    BY <1>7 DEF Unsettled
  <2> QED BY <1>7, <2>1, TaskStands, RowPerTaskStands, RowsUnmoved, DraftsUnmoved, QueueUnmoved
        DEF TasksAgree
<1>8. CASE Rejected(r, i)
  <2>1. rows' = rows /\ want' = want /\ ~rows[T].live
    BY <1>0, <1>3, <1>8 DEF Rejected, Accepts, Live
  <2>2. ~want[o].live /\ Gone(o)
    BY <1>2, <1>3, <2>1 DEF TaskAgrees, RowAgrees, Gone, RowPerTask
  <2>3. Waits(o, "create")' = {}
    BY <1>5, <1>6 DEF After, Kinds
  <2>4. Gone(o)' /\ DraftAgrees(o)'
    BY <1>2, <2>1, <2>2 DEF Gone, DraftAgrees, TaskAgrees
  <2>5. TaskAgrees(o)'
    BY <2>1, <2>2, <2>3, <2>4 DEF TaskAgrees, Somewhere, DeletesWait, CreateLeads, RowAgrees, QueueAgrees
  <2>6. ASSUME NEW p \in DOMAIN want, p # o PROVE TaskAgrees(p)'
    BY <1>6, <2>1, <2>6, TaskStands, RowsUnmoved, DraftsUnmoved DEF TasksAgree
  <2> QED BY <1>2, <2>1, <2>5, <2>6, RowPerTaskStands, RowsUnmoved DEF TasksAgree
<1>9. CASE want' = want /\ rows' = Applied(i, T)
  <2>1. PICK x : /\ rows' = [rows EXCEPT ![T] = x] /\ x.obj = o
                 /\ x.live = (IF a.kind = "delete" THEN FALSE ELSE rows[T].live)
                 /\ x.val = (IF a.kind = "patch" THEN a.val ELSE rows[T].val)
                 /\ x.done = (IF a.kind = "done" THEN a.done ELSE rows[T].done)
    <3>1. CASE i.kind = "patch"
      <4>1. PICK x : x = [rows[T] EXCEPT !.val = i.val]
        OBVIOUS
      <4>2. rows' = [rows EXCEPT ![T] = x]
        BY <1>9, <3>1, <4>1 DEF Applied
      <4>3. x.obj = o /\ x.val = i.val /\ x.live = rows[T].live /\ x.done = rows[T].done
        BY <1>3, <4>1 DEF Rows
      <4> QED BY <1>1, <3>1, <4>2, <4>3
    <3>2. CASE i.kind = "done"
      <4>1. PICK x : x = [rows[T] EXCEPT !.done = i.done]
        OBVIOUS
      <4>2. rows' = [rows EXCEPT ![T] = x]
        BY <1>9, <3>2, <4>1 DEF Applied
      <4>3. x.obj = o /\ x.done = i.done /\ x.live = rows[T].live /\ x.val = rows[T].val
        BY <1>3, <4>1 DEF Rows
      <4> QED BY <1>1, <3>2, <4>2, <4>3
    <3>3. CASE i.kind = "delete"
      <4>1. PICK x : x = [rows[T] EXCEPT !.live = FALSE]
        OBVIOUS
      <4>2. rows' = [rows EXCEPT ![T] = x]
        BY <1>9, <3>3, <4>1 DEF Applied
      <4>3. x.obj = o /\ x.live = FALSE /\ x.val = rows[T].val /\ x.done = rows[T].done
        BY <1>3, <4>1 DEF Rows
      <4> QED BY <1>1, <3>3, <4>2, <4>3
    <3> QED BY <1>1, <3>1, <3>2, <3>3
  <2>2. TaskAgrees(o)'
    <3>1. \A t \in Kinds : \A j \in Waits(o, t) : a.seq <= j.seq
      BY <1>1
    <3> QED BY <1>1, <1>2, <1>3, <1>5, <1>6, <1>9, <2>1, <3>1, WriteReaches
  <2>3. /\ DOMAIN rows' = DOMAIN rows /\ rows'[T].obj = o
        /\ \A k \in DOMAIN rows : k # T => rows'[k] = rows[k] /\ rows[k].obj # o
    BY <1>2, <1>3, <2>1 DEF RowPerTask
  <2>4. RowPerTask'
    BY <1>2, <1>3, <2>3 DEF RowPerTask
  <2>5. ASSUME NEW p \in DOMAIN want, p # o PROVE TaskAgrees(p)'
    <3>1. SameRows(p)
      BY <1>3, <2>3, <2>5 DEF SameRows
    <3> QED BY <1>6, <1>9, <2>5, <3>1, TaskStands, DraftsUnmoved DEF TasksAgree
  <2> QED BY <1>9, <2>2, <2>4, <2>5 DEF TasksAgree
<1> QED BY <1>0, <1>4, <1>7, <1>8, <1>9 DEF Unsettled, Delivered

LEMMA AgreeSend ==
  ASSUME Solo, IInv, Copied, Used, Singles, Names, OnlyWaiting, TasksAgree, NeverExhausted',
         NEW r \in Run, SendStep(r)
  PROVE  TasksAgree'
<1>1. PICK i \in todo[r], a \in outbox :
        /\ Begin(r, i) /\ a.seq = i.seq /\ SameWrite(i, a)
        /\ UNCHANGED <<outbox, drafts>>
        /\ Unsettled(r, i) \/ Delivered(r, i) \/ Rejected(r, i) \/ Exhausted(i)
  BY SendEffect
<1>2. ~Exhausted(i)
  <2> SUFFICES ASSUME Exhausted(i) PROVE FALSE
    OBVIOUS
  <2>1. i.seq \in DOMAIN fate /\ fate[i.seq] = "queued"
    BY <1>1, FrontWaits DEF IInv, Queue, Numbered
  <2>2. fate'[i.seq] = "exhausted" /\ DOMAIN fate' = DOMAIN fate
    BY <2>1, SettleFate DEF Exhausted
  <2> QED BY <2>1, <2>2 DEF NeverExhausted
<1> QED BY <1>1, <1>2, AgreeSendCreate, AgreeSendWrite

LEMMA AgreeSync ==
  ASSUME Solo, IInv, Queue', Copied, Used, Singles, Names, OnlyWaiting, TasksAgree, NeverExhausted',
         NEW r \in Run, SyncStep(r)
  PROVE  TasksAgree'
<1>1. CASE SendStep(r)
  BY <1>1, AgreeSend
<1>2. CASE ~SendStep(r)
  <2>1. UNCHANGED <<rows, want, drafts, fate>>
    BY <1>2 DEF SyncStep, StartSync, ReadSnapshot, DropLocal, Retarget, Rewrite, Remove, PutBack,
                Finish, RefreshPage, ghosts
  <2>2. \A o : SameQueue(o)
    BY <2>1, SyncQueue
  <2> QED BY <2>1, <2>2, TaskStands, RowPerTaskStands, RowsUnmoved, DraftsUnmoved DEF TasksAgree
<1> QED BY <1>1, <1>2

\* The ways of the environment under which the server ends up with what the user asked for:
\* a task that waits is left alone, a create's answer is not lost, no write jumps the queue.
Orderly == Admitted \cap {"temp_edit", "temp_delete", "lost_create", "overtake"} = {}

LEMMA StepAgree ==
  Solo /\ Orderly /\ IInv /\ Copied /\ Used /\ Singles /\ Names /\ OnlyWaiting /\ TasksAgree
    /\ NeverExhausted' /\ [Next]_vars => TasksAgree'
<1> SUFFICES ASSUME Solo, Orderly, IInv, Copied, Used, Singles, Names, OnlyWaiting, TasksAgree,
                    NeverExhausted', [Next]_vars
             PROVE  TasksAgree'
  OBVIOUS
<1>0. Queue' /\ "temp_edit" \notin Admitted /\ "temp_delete" \notin Admitted
      /\ "lost_create" \notin Admitted /\ "overtake" \notin Admitted
  BY StepQueue DEF Solo, Orderly
<1>1. ASSUME NEW r \in Run, NEW v \in Vals, NEW how \in {"answer", "lost", "unsent"},
             CreateTask(r, v, how)
      PROVE  TasksAgree'
  BY <1>0, <1>1, AgreeCreate
<1>2. ASSUME NEW tab \in Tabs, NEW k \in DOMAIN rows, NEW v \in Vals,
             NEW kind \in {"patch", "done", "delete"},
             NEW how \in {"answer", "lost", "unsent"}, WriteRow(tab, k, kind, v, how)
      PROVE  TasksAgree'
  BY <1>0, <1>2, AgreeWriteRow
<1>3. ASSUME NEW tab \in Tabs, NEW id,
             \/ \E v \in Vals, d \in BOOLEAN : EditTemp(tab, id, v, d)
             \/ DeleteTemp(tab, id)
      PROVE  TasksAgree'
  BY <1>0, <1>3 DEF EditTemp, DeleteTemp
<1>4. ASSUME NEW k \in DOMAIN rows, OtherDeviceDelete(k) PROVE TasksAgree'
  BY <1>0, <1>4, AgreeOtherDevice
<1>5. CASE Write
  BY <1>1, <1>2, <1>3, <1>4, <1>5, ZenonT(60) DEF Write
<1>6. ASSUME UNCHANGED <<rows, outbox, drafts, want, fate>> PROVE TasksAgree'
  BY <1>6, TaskStands, RowPerTaskStands, RowsUnmoved, DraftsUnmoved, QueueUnmoved DEF TasksAgree
<1>7. CASE Environment
  BY <1>6, <1>7 DEF Environment, ClosePage, GoDown, GoUp, stores, calls, ghosts, Solo
<1>8. ASSUME NEW r \in Run, SyncStep(r) PROVE TasksAgree'
  BY <1>0, <1>8, AgreeSync
<1>9. ASSUME NEW r \in Run, DraftStep(r) PROVE TasksAgree'
  BY <1>9, AgreeDraft
<1>10. CASE UNCHANGED vars
  BY <1>6, <1>10 DEF vars, stores, calls, ghosts
<1> QED BY <1>5, <1>7, <1>8, <1>9, <1>10 DEF Next

LEMMA InitAgree == Init => OnlyWaiting /\ TasksAgree
<1> SUFFICES ASSUME Init PROVE OnlyWaiting /\ TasksAgree
  OBVIOUS
<1>1. /\ outbox = {} /\ (\A r \in Run : drafts[r] = NoDraft)
      /\ DOMAIN rows = {1} /\ rows[1].obj = 1 /\ rows[1].val = InitVal /\ rows[1].done = FALSE
      /\ rows[1].live = TRUE
      /\ DOMAIN want = {1} /\ want[1].val = InitVal /\ want[1].done = FALSE /\ want[1].live = TRUE
  BY DEF Init
<1>2. \A o, kind : Waits(o, kind) = {}
  BY <1>1 DEF Waits
<1>3. TaskAgrees(1)
  BY <1>1, <1>2 DEF TaskAgrees, Somewhere, HasRow, DeletesWait, CreateLeads, RowAgrees, QueueAgrees, DraftAgrees
<1> QED BY <1>1, <1>3 DEF OnlyWaiting, TasksAgree, RowPerTask

\* With nothing waiting, what the tasks owe each other is what the user asked for.
LEMMA AgreeAtRest == TasksAgree => DrainedAgrees
<1> SUFFICES ASSUME TasksAgree, Quiet, NEW o \in DOMAIN want
             PROVE  LET mine == {k \in DOMAIN rows : rows[k].obj = o /\ rows[k].live} IN
                    IF want[o].live
                      THEN \E k \in mine : /\ mine = {k} /\ rows[k].val = want[o].val
                                           /\ rows[k].done = want[o].done
                      ELSE mine = {}
  BY DEF DrainedAgrees
<1> DEFINE mine == {k \in DOMAIN rows : rows[k].obj = o /\ rows[k].live}
<1>1. /\ Somewhere(o) /\ DeletesWait(o) /\ RowAgrees(o) /\ RowPerTask
      /\ \A kind : Waits(o, kind) = {}
      /\ ~Drafted(o)
  BY DEF TasksAgree, TaskAgrees, Quiet, Waits, Drafted
<1>2. ASSUME want[o].live
      PROVE  \E k \in mine : mine = {k} /\ rows[k].val = want[o].val /\ rows[k].done = want[o].done
  <2>1. PICK k \in DOMAIN rows : rows[k].obj = o
    BY <1>1, <1>2 DEF Somewhere, HasRow
  <2>2. rows[k].live /\ rows[k].val = want[o].val /\ rows[k].done = want[o].done
    BY <1>1, <1>2, <2>1 DEF RowAgrees
  <2>3. mine = {k}
    BY <1>1, <2>1, <2>2 DEF RowPerTask
  <2> QED BY <2>2, <2>3
<1>3. ASSUME ~want[o].live PROVE mine = {}
  BY <1>1, <1>3 DEF DeletesWait, Gone
<1> QED BY <1>2, <1>3

\* With one call at a time and an environment as Orderly asks, whenever everything is replayed
\* and no write had to be given up for want of tries, the server holds what the user last
\* asked for: each wanted task once, with its last field and status, and no deleted one
\* (AppStore.tsx write paths, offline.ts replayOutbox).
THEOREM SoloDrainedAgrees ==
  Solo /\ Orderly => (Spec => [](NeverExhausted => DrainedAgrees))
<1> SUFFICES ASSUME Solo, Orderly
             PROVE  Spec => [](NeverExhausted => DrainedAgrees)
  OBVIOUS
<1> DEFINE Inv == Copied /\ Ids /\ Names /\ Used /\ Singles /\ OnlyWaiting /\ (NeverExhausted => TasksAgree)
<1>1. Spec => []IInv
  BY QueueInvariant DEF Solo
<1>2. IInv /\ Inv /\ [Next]_vars => Inv'
  <2> SUFFICES ASSUME IInv, Inv, [Next]_vars PROVE Inv'
    OBVIOUS
  <2>1. "temp_delete" \notin Admitted /\ "lost_create" \notin Admitted
    BY DEF Orderly
  <2>2. (Copied /\ Ids /\ Names)'
    BY <2>1, StepCopied, StepIds, StepNames
  <2>3. (Used /\ Singles /\ OnlyWaiting)'
    BY <2>1, StepUsed, StepSingles, StepOnlyWaiting
  <2>4. ASSUME NeverExhausted' PROVE TasksAgree'
    BY <2>4, StepAgree, ExhaustedStays
  <2> QED BY <2>2, <2>3, <2>4
<1>3. Inv => (NeverExhausted => DrainedAgrees)
  BY AgreeAtRest
<1>4. Init => Inv
  BY InitAlone, InitSingles, InitAgree
<1> QED BY <1>1, <1>2, <1>3, <1>4, PTL DEF Spec

=============================================================================
