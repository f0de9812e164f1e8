----------------------------- MODULE FolderTree -----------------------------
(***************************************************************************)
(* The tree of folders and lists in the sidebar (web/src/components/        *)
(* Sidebar.tsx, the organising functions of web/src/store/AppStore.tsx) and *)
(* behind it on the server (internal/store/org.go).  The page shows the     *)
(* tree of the last bootstrap it was answered; folding, sorting and the two *)
(* flags of a list are changed there before the server has answered, all    *)
(* other changes are seen with the bootstrap that follows them.             *)
(***************************************************************************)
EXTENDS Naturals, Sequences, FiniteSets

CONSTANTS
  Folders, Lists,   \* ids: numbers, and different ones
  Start,            \* the tree at the start
  Admitted,         \* of {"race", "late_boot", "both_flags", "dialog_out", "nested_delete", "hasty"}
  Uses,             \* of {"nest", "dialog", "delete", "fold", "sort", "home", "flag", "other"}
  NoAnswer,         \* model value
  MaxActs           \* bound: what users do, and requests that fail

VARIABLES
  org,      \* the server's tables folders and lists
  boot,     \* the page's copy of them
  jobs,     \* requests on their way, of this page and of another device
  boots,    \* bootstraps on their way, not numbered by the page
  untold,   \* history: the other device changed something no bootstrap has shown
  asked,    \* history: where a folder or list belongs according to its user
  nActs

treeVars == <<org, boot, jobs, boots, untold, asked, nActs>>

Top == 0
Flags == {"starred", "archived"}

Org == [live : SUBSET Folders, parent : [Folders -> Folders \cup {Top}], rank : [Folders -> Nat],
        folded : SUBSET Folders, home : [Lists -> Folders \cup {Top}], flags : [Lists -> SUBSET Flags]]

Job == [kind : {"nest", "delete", "fold", "sort", "home", "flag"}, id : Folders \cup Lists, to : Nat,
        line : Seq(Folders), prev : SUBSET Flags, flag : Flags, mine : BOOLEAN,
        stage : {"sent", "checked", "ok", "refused"}, seen : Nat]

-----------------------------------------------------------------------------
(* Trees.                                                                   *)

\* What each folder of them is in is one of them.
Closed(o, S) == \A f \in S \ {Top} : o.parent[f] \in S

\* The folder, what it is in, what that is in, and so on: the fewest that are closed.
Above(o, f) ==
  {g \in Folders \cup {Top} : \A S \in SUBSET (Folders \cup {Top}) : f \in S /\ Closed(o, S) => g \in S}

\* Folders() of org.go builds the tree from the top: a cycle is not in it.
Visible(o) == {f \in o.live : Top \in Above(o, f)}

Siblings(o, f) == {g \in Visible(o) : o.parent[g] = o.parent[f]}

Before(o, f, g) == o.rank[f] < o.rank[g] \/ (o.rank[f] = o.rank[g] /\ f < g)

\* The siblings of f in their order, with f taken out and put before g (useRowSort).
Resorted(o, f, g) ==
  LET rest  == Siblings(o, f) \ {f}
      place(h) == Cardinality({x \in rest : Before(o, x, h)}) + 1
      at(h) == CASE h = f -> place(g) [] h # f /\ place(h) < place(g) -> place(h) [] OTHER -> place(h) + 1
  IN  [n \in 1 .. Cardinality(rest) + 1 |-> CHOOSE h \in rest \cup {f} : at(h) = n]

PlaceIn(line, f) == CHOOSE n \in DOMAIN line : line[n] = f
Listed(line)     == {line[n] : n \in DOMAIN line}

\* reorderFoldersInTree and reorderBy: both give the siblings their order; the
\* server numbers them from one, the page among the places they had.
Sorted(o, line) ==
  [o EXCEPT !.rank = [f \in Folders |-> IF f \in Listed(line) THEN PlaceIn(line, f) ELSE o.rank[f]]]

SetFlag(fs, flag, to) == IF to = 1 THEN fs \cup {flag} ELSE fs \ {flag}

-----------------------------------------------------------------------------
(* The page.                                                                *)

Init ==
  /\ org = Start /\ boot = Start
  /\ jobs = {} /\ boots = {} /\ untold = FALSE
  /\ asked = [x \in Folders \cup Lists |-> IF x \in Folders THEN Start.parent[x] ELSE Start.home[x]]
  /\ nActs = 0

Act(use) == use \in Uses /\ nActs < MaxActs /\ nActs' = nActs + 1

\* Without "late_boot" nothing changes between the answer to a bootstrap and its arrival.
Calm == "late_boot" \notin Admitted => \A b \in boots : b.answer = NoAnswer

\* Without "hasty" a folder or list is moved when it is seen where it is.
Settled(id) ==
  "hasty" \notin Admitted =>
     /\ \A j \in jobs : j.id = id => j.kind \in {"fold", "sort", "flag"}
     /\ IF id \in Folders THEN boot.parent[id] = org.parent[id] ELSE boot.home[id] = org.home[id]

Send(kind, id, to, line, flag, mine) ==
  /\ \A j \in jobs : /\ <<j.id, j.kind, j.flag>> # <<id, kind, flag>>
                     /\ "both_flags" \notin Admitted => kind # "flag" \/ j.id # id
                     /\ "hasty" \notin Admitted => kind # "sort" \/ j.kind # "sort"
  /\ jobs' = jobs \cup
       {[kind |-> kind, id |-> id, to |-> to, line |-> line, flag |-> flag, mine |-> mine,
         prev |-> IF kind = "flag" THEN boot.flags[id] ELSE {}, stage |-> "sent", seen |-> Top]}

RefreshBoot ==
  LET free == CHOOSE n \in 0 .. Cardinality(boots) : \A b \in boots : b.no # n
  IN  boots' = boots \cup {[no |-> free, answer |-> NoAnswer]}

\* Dropping a folder on another: canNestInto looks at the tree of the page.
DropInto(f, g) ==
  /\ Act("nest")
  /\ Settled(f)
  /\ {f, g} \subseteq Visible(boot) /\ f \notin Above(boot, g) /\ boot.parent[f] # g
  /\ Send("nest", f, g, <<>>, "starred", TRUE)
  /\ asked' = [asked EXCEPT ![f] = g]
  /\ UNCHANGED <<org, boot, boots, untold>>

\* The dialog offers every folder that is not in f.  It looks for f among the
\* folders at the top to know where it was: one it does not find was "at the top".
SaveDialog(f, to) ==
  /\ Act("dialog")
  /\ Settled(f)
  /\ f \in Visible(boot) /\ to \in {Top} \cup {g \in Visible(boot) : f \notin Above(boot, g)}
  /\ "dialog_out" \notin Admitted => to # Top \/ boot.parent[f] = Top
  /\ IF to # Top THEN Send("nest", f, to, <<>>, "starred", TRUE) ELSE UNCHANGED jobs
  /\ asked' = [asked EXCEPT ![f] = to]
  /\ UNCHANGED <<org, boot, boots, untold>>

MoveList(l, to) ==
  /\ Act("home")
  /\ Settled(l)
  /\ to \in {Top} \cup Visible(boot) /\ boot.home[l] # to
  /\ Send("home", l, to, <<>>, "starred", TRUE)
  /\ asked' = [asked EXCEPT ![l] = to]
  /\ UNCHANGED <<org, boot, boots, untold>>

Delete(f) ==
  /\ Act("delete")
  /\ Settled(f)
  /\ f \in Visible(boot)
  /\ Send("delete", f, Top, <<>>, "starred", TRUE)
  /\ UNCHANGED <<org, boot, boots, untold, asked>>

\* On the page at once: folding, sorting, the flags of a list.
Fold(f) ==
  LET fold == f \notin boot.folded
  IN  /\ Act("fold") /\ Calm
      /\ f \in Visible(boot)
      /\ Send("fold", f, IF fold THEN 1 ELSE 0, <<>>, "starred", TRUE)
      /\ boot' = [boot EXCEPT !.folded = IF fold THEN @ \cup {f} ELSE @ \ {f}]
      /\ UNCHANGED <<org, boots, untold, asked>>

Sort(f, g) ==
  /\ Act("sort") /\ Calm
  /\ f # g /\ f \in Visible(boot) /\ g \in Siblings(boot, f)
  /\ Send("sort", f, Top, Resorted(boot, f, g), "starred", TRUE)
  /\ boot' = Sorted(boot, Resorted(boot, f, g))
  /\ UNCHANGED <<org, boots, untold, asked>>

Flag(l, flag) ==
  LET to == IF flag \in boot.flags[l] THEN 0 ELSE 1
  IN  /\ Act("flag") /\ Calm
      /\ Send("flag", l, to, <<>>, flag, TRUE)
      /\ boot' = [boot EXCEPT !.flags[l] = SetFlag(@, flag, to)]
      /\ UNCHANGED <<org, boots, untold, asked>>

\* Another device moves or deletes a folder.
OtherDevice(f, to) ==
  /\ Act("other")
  /\ Settled(f)
  /\ {f, to} \subseteq Visible(org) /\ (to = f \/ f \notin Above(org, to))
  /\ Send(IF to = f THEN "delete" ELSE "nest", f, IF to = f THEN Top ELSE to, <<>>, "starred", FALSE)
  /\ asked' = IF to = f THEN asked ELSE [asked EXCEPT ![f] = to]
  /\ UNCHANGED <<org, boot, boots, untold>>

-----------------------------------------------------------------------------
(* The server.  Without "race" no other request is served between the look   *)
(* at the tree and the write that relies on it; without "nested_delete" no   *)
(* folder with lists in it is deleted that is itself in a folder.            *)

MayServe(j) == "race" \notin Admitted => \A i \in jobs \ {j} : i.stage # "checked"

Becomes(j, i) == jobs' = (jobs \ {j}) \cup {i}

Refuse(j) ==
  /\ Becomes(j, [j EXCEPT !.stage = "refused"])
  /\ asked' = CASE j.kind = "nest" -> [asked EXCEPT ![j.id] = org.parent[j.id]]
                [] j.kind = "home" -> [asked EXCEPT ![j.id] = org.home[j.id]]
                [] OTHER -> asked
  /\ UNCHANGED org

\* UpdateFolder reads all folders to see whether the new parent is below the
\* folder; DeleteFolder reads the parent its contents go to.
Check(j) ==
  /\ j.stage = "sent" /\ j.kind \in {"nest", "delete"}
  /\ MayServe(j)
  /\ IF \/ j.kind = "nest" /\ j.id \in Above(org, j.to)
        \/ j.kind = "delete" /\ j.id \notin org.live
     THEN Refuse(j)
     ELSE /\ Becomes(j, [j EXCEPT !.stage = "checked",
                                  !.seen = IF j.kind = "delete" THEN org.parent[j.id] ELSE Top])
          /\ UNCHANGED <<org, asked>>
  /\ UNCHANGED <<boot, boots, untold, nActs>>

\* The foreign key refuses a parent that is gone.
Exists(to) == to \in org.live \cup {Top}

\* Mutant: the folders in it stay where they are.
Emptied_Orphans(f, to) ==
  [org EXCEPT !.live = @ \ {f},
              !.home = [l \in Lists |-> IF @[l] = f THEN Top ELSE @[l]]]

Emptied(f, to) ==
  [org EXCEPT !.live = @ \ {f},
              !.parent = [g \in Folders |-> IF g # f /\ @[g] = f THEN to ELSE @[g]],
              !.home = [l \in Lists |-> IF @[l] = f THEN Top ELSE @[l]]]

\* What the user is told of it: lists and folders go one level up.
Lifted(f, to) ==
  [x \in Folders \cup Lists |-> IF x # f /\ asked[x] = f THEN to ELSE asked[x]]

Serve(j) ==
  /\ Calm /\ MayServe(j)
  /\ j.stage = IF j.kind \in {"nest", "delete"} THEN "checked" ELSE "sent"
  /\ "nested_delete" \notin Admitted /\ j.kind = "delete" /\ j.seen # Top
       => \A l \in Lists : org.home[l] # j.id
  /\ LET take(new) == org' = new /\ Becomes(j, [j EXCEPT !.stage = "ok"])
         gone == j.id \in Folders /\ j.id \notin org.live
     IN  CASE j.kind = "nest" /\ ~gone /\ Exists(j.to) ->
                take([org EXCEPT !.parent[j.id] = j.to]) /\ UNCHANGED asked
           [] j.kind = "home" /\ Exists(j.to) -> take([org EXCEPT !.home[j.id] = j.to]) /\ UNCHANGED asked
           [] j.kind = "delete" /\ Exists(j.seen) ->
                take(Emptied(j.id, j.seen)) /\ asked' = Lifted(j.id, j.seen)
           [] j.kind = "fold" ->
                take([org EXCEPT !.folded = IF j.to = 1 THEN @ \cup {j.id} ELSE @ \ {j.id}]) /\ UNCHANGED asked
           [] j.kind = "sort" -> take(Sorted(org, j.line)) /\ UNCHANGED asked
           [] j.kind = "flag" ->
                take([org EXCEPT !.flags[j.id] = SetFlag(@, j.flag, j.to)]) /\ UNCHANGED asked
           [] OTHER -> Refuse(j)
  /\ untold' = (untold \/ ~j.mine)
  /\ UNCHANGED <<boot, boots, nActs>>

\* The request, or the answer of a server that did nothing, is lost.
Fails(j) ==
  /\ j.stage = "sent" /\ nActs < MaxActs /\ nActs' = nActs + 1
  /\ Refuse(j)
  /\ UNCHANGED <<boot, boots, untold>>

\* The answer: a bootstrap follows, except after what was on the page at once
\* and went well; a flag that was refused is taken back with its sibling.
Lands(j) ==
  /\ j.stage \in {"ok", "refused"}
  /\ jobs' = jobs \ {j}
  /\ boot' = IF j.kind = "flag" /\ j.stage = "refused" THEN [boot EXCEPT !.flags[j.id] = j.prev] ELSE boot
  /\ IF j.mine /\ CASE j.kind \in {"fold", "sort"}         -> j.stage = "refused"
                    [] j.kind \in {"home", "flag", "delete"} -> j.stage = "ok"
                    [] OTHER                               -> TRUE
     THEN RefreshBoot ELSE UNCHANGED boots
  /\ UNCHANGED <<org, untold, asked, nActs>>

-----------------------------------------------------------------------------
(* Bootstraps: after a change, after a write to a task, every five minutes.  *)

BootStarts ==
  /\ boots = {} /\ RefreshBoot
  /\ nActs < MaxActs /\ nActs' = nActs + 1
  /\ UNCHANGED <<org, boot, jobs, untold, asked>>

BootAnswered(b) ==
  /\ b.answer = NoAnswer
  /\ "late_boot" \notin Admitted =>
       \A j \in jobs : j.kind \in {"fold", "sort", "flag"} => j.stage # "sent"
  /\ boots' = (boots \ {b}) \cup {[b EXCEPT !.answer = org]}
  /\ untold' = FALSE
  /\ UNCHANGED <<org, boot, jobs, asked, nActs>>

BootLands(b) ==
  /\ b.answer # NoAnswer
  /\ boots' = boots \ {b}
  /\ boot' = b.answer
  /\ UNCHANGED <<org, jobs, untold, asked, nActs>>

TreeNext ==
  \/ \E f, g \in Folders : DropInto(f, g) \/ Sort(f, g) \/ OtherDevice(f, g)
  \/ \E f \in Folders, to \in Folders \cup {Top} : SaveDialog(f, to)
  \/ \E l \in Lists, to \in Folders \cup {Top} : MoveList(l, to)
  \/ \E f \in Folders : Delete(f) \/ Fold(f)
  \/ \E l \in Lists, flag \in Flags : Flag(l, flag)
  \/ \E j \in jobs : Check(j) \/ Serve(j) \/ Fails(j) \/ Lands(j)
  \/ BootStarts
  \/ \E b \in boots : BootAnswered(b) \/ BootLands(b)

TreeSpec == Init /\ [][TreeNext]_treeVars

-----------------------------------------------------------------------------
TreeTypeOK ==
  /\ org \in Org /\ boot \in Org
  /\ jobs \subseteq Job
  /\ boots \subseteq [no : Nat, answer : Org \cup {NoAnswer}]
  /\ untold \in BOOLEAN
  /\ asked \in [Folders \cup Lists -> Folders \cup {Top}]

\* No folder is lost from the sidebar: each leads to the top, and what it is in
\* exists.
NoneVanishes ==
  /\ Visible(org) = org.live
  /\ \A f \in org.live : org.parent[f] \in org.live \cup {Top}
  /\ \A l \in Lists : org.home[l] \in org.live \cup {Top}

SameTree(a, b) ==
  /\ a.live = b.live /\ a.flags = b.flags /\ a.home = b.home
  /\ a.folded \cap a.live = b.folded \cap b.live
  /\ \A f \in a.live : a.parent[f] = b.parent[f]
  /\ \A f, g \in a.live : a.parent[f] = a.parent[g] => (Before(a, f, g) <=> Before(b, f, g))

\* At rest the sidebar is the server's tree, whether a change was shown before
\* the answer or with a bootstrap after it, was taken or refused.
SidebarAgrees == jobs = {} /\ boots = {} /\ ~untold => SameTree(boot, org)

\* At rest every folder and list is where its user put it last, or where he was
\* told that the deletion of a folder puts it.
WhereAsked ==
  jobs = {} => /\ \A f \in org.live : org.parent[f] = asked[f]
               /\ \A l \in Lists : org.home[l] = asked[l]
=============================================================================
