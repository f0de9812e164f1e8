------------------------------ MODULE TaskLinks ------------------------------
(***************************************************************************)
(* Links between tasks (internal/store/task_links.go).  A new link is       *)
(* looked up and written in one deferred transaction of SQLite in WAL mode: *)
(* its reads see the database as it was at the first of them, and it may    *)
(* write only if nothing has been committed since.                          *)
(***************************************************************************)
EXTENDS Naturals, FiniteSets

CONSTANTS
  Tasks,
  Kinds,        \* of {"related", "blocked_by"}
  Clients,      \* requests that may be served at the same time
  MaxCommits    \* bound

VARIABLES
  links,        \* committed rows of task_links: [from, to, kind]
  commits,      \* how many transactions have been committed
  tx            \* of each client: what it adds, and the database it reads

linkVars == <<links, commits, tx>>

Link  == [from : Tasks, to : Tasks, kind : Kinds]

NoTx == [stage |-> "none"]

\* blockedByIDs.
BlockedBy(rows, t) == {l.to : l \in {k \in rows : k.kind = "blocked_by" /\ k.from = t}}

\* What t waits for is among them, and so is what they wait for.
Closed(rows, t, S) == BlockedBy(rows, t) \subseteq S /\ \A v \in S : BlockedBy(rows, v) \subseteq S

\* Following the links from t, each task once: the fewest that are closed.
Chain(rows, t) == {u \in Tasks : \A S \in SUBSET Tasks : Closed(rows, t, S) => u \in S}

Twins(l) == {l} \cup (IF l.kind = "related" THEN {[l EXCEPT !.from = l.to, !.to = l.from]} ELSE {})

\* Mutant: the ends are swapped in the look-up.
Allowed_Swapped(rows, l) ==
  /\ l.from # l.to
  /\ l.kind = "blocked_by" => l.to \notin Chain(rows, l.from)
  /\ rows \cap Twins(l) = {}

\* What AddTaskLink asks of the database it reads.
Allowed(rows, l) ==
  /\ l.from # l.to
  /\ l.kind = "blocked_by" => l.from \notin Chain(rows, l.to)
  /\ rows \cap Twins(l) = {}

Init ==
  /\ links = {} /\ commits = 0
  /\ tx = [c \in Clients |-> NoTx]

Ends(c) == tx' = [tx EXCEPT ![c] = NoTx]

\* The first read fixes what the others see.
Begin(c, l) ==
  /\ tx[c] = NoTx
  /\ tx' = [tx EXCEPT ![c] = [stage |-> "begun", adds |-> l, rows |-> links, at |-> commits]]
  /\ UNCHANGED <<links, commits>>

Refuse(c) ==
  /\ tx[c] # NoTx /\ ~Allowed(tx[c].rows, tx[c].adds)
  /\ Ends(c)
  /\ UNCHANGED <<links, commits>>

\* SQLITE_BUSY_SNAPSHOT: what was read is no longer what there is.
Stale(c) == tx[c].at # commits

Fail(c) ==
  /\ tx[c] # NoTx /\ Stale(c)
  /\ Ends(c)
  /\ UNCHANGED <<links, commits>>

Insert(c) ==
  /\ tx[c] # NoTx /\ ~Stale(c)
  /\ Allowed(tx[c].rows, tx[c].adds)
  /\ commits < MaxCommits /\ commits' = commits + 1
  /\ links' = links \cup {tx[c].adds}
  /\ Ends(c)

\* DeleteTaskLink, and the rows that go with a task that is deleted.
Delete(rows) ==
  /\ rows # {}
  /\ commits < MaxCommits /\ commits' = commits + 1
  /\ links' = links \ rows
  /\ UNCHANGED tx

LinkNext ==
  \/ \E c \in Clients, l \in Link : Begin(c, l)
  \/ \E c \in Clients : Refuse(c) \/ Fail(c) \/ Insert(c)
  \/ \E l \in links : Delete({l})
  \/ \E t \in Tasks : Delete({l \in links : t \in {l.from, l.to}})

LinkSpec == Init /\ [][LinkNext]_linkVars

-----------------------------------------------------------------------------
LinkTypeOK ==
  /\ links \subseteq Link /\ commits \in Nat
  /\ \A c \in Clients :
        tx[c] = NoTx \/ tx[c] \in [stage : {"begun"}, adds : Link, rows : SUBSET Link, at : Nat]

\* No task waits for itself, however many requests add links at the same time, and
\* two tasks are related once.
NoCircle ==
  /\ \A t \in Tasks : t \notin Chain(links, t)
  /\ \A l \in links : Cardinality(links \cap Twins(l)) = 1
=============================================================================
