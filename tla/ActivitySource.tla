---------------------------- MODULE ActivitySource ---------------------------
(***************************************************************************)
(* Where a change came from (internal/store/activity.go).  A request sets   *)
(* the one source of the store when it enters and puts back what it found   *)
(* when it leaves (internal/api/api.go, internal/caldav/backend.go); the    *)
(* history takes the source that is set when a line is written.  Requests   *)
(* are served at the same time, each in a goroutine of its own.             *)
(*                                                                          *)
(* nest and crossed are history variables: which of the requests being      *)
(* served began one within the other, and whether one was ever left before  *)
(* another that began after it.                                             *)
(***************************************************************************)
EXTENDS Naturals, Sequences

CONSTANTS
  Requests,
  SourceOf,    \* of each request: "web", "api", "import" (what its header says) or "caldav"
  Imports,     \* those that read a file, and set "import" within the request
  Unset,       \* model value
  ActivityKeep

VARIABLES
  srcCur,      \* the store's source
  prev,        \* what each request puts back, innermost last; <<>>: not being served
  nest,        \* the requests begun one within the other, each with its depth, newest last
  crossed,     \* one was left that was not the newest
  activities   \* the history, oldest first

sourceVars == <<srcCur, prev, nest, crossed, activities>>

Sources == {"web", "api", "caldav", "import"}

ASSUME SourceAssumption == SourceOf \in [Requests -> Sources] /\ Unset \notin Sources

ActiveSource == IF srcCur = Unset THEN "web" ELSE srcCur

\* What the request is now doing.
Own(r) == IF Len(prev[r]) = 2 THEN "import" ELSE SourceOf[r]

\* The request, in an import of it the import, began last.
Newest(r) == nest # <<>> /\ nest[Len(nest)] = <<r, Len(prev[r])>>

Served == {q \in Requests : prev[q] # <<>>}

SourceInit ==
  /\ srcCur = Unset
  /\ prev = [r \in Requests |-> <<>>]
  /\ nest = <<>> /\ crossed = FALSE
  /\ activities = <<>>

SetActivitySource(r, src) ==
  /\ prev' = [prev EXCEPT ![r] = Append(@, srcCur)]
  /\ srcCur' = src
  /\ nest' = Append(nest, <<r, Len(prev[r]) + 1>>)
  /\ UNCHANGED <<crossed, activities>>

Enter(r) == prev[r] = <<>> /\ SetActivitySource(r, SourceOf[r])

ImportFile(r) ==
  /\ r \in Imports /\ Len(prev[r]) = 1
  /\ SetActivitySource(r, "import")

\* logActivity keeps the newest ActivityKeep lines.  newest and served are of the moment it reads
\* the source in: who began last, and whether a request being served has that source.
LogActivity(r) ==
  LET line == [own |-> Own(r), source |-> ActiveSource, newest |-> Newest(r),
               served |-> \E q \in Served : ActiveSource \in {SourceOf[q], Own(q)}]
      all  == Append(activities, line)
  IN  /\ prev[r] # <<>>
      /\ activities' = IF Len(all) > ActivityKeep THEN Tail(all) ELSE all
      /\ UNCHANGED <<srcCur, prev, nest, crossed>>

\* Request r leaves: the newest within the one before it, or across those that began after it.
Leaves(r) ==
  IF Newest(r)
    THEN nest' = SubSeq(nest, 1, Len(nest) - 1) /\ UNCHANGED crossed
    ELSE nest' = <<>> /\ crossed' = TRUE

\* Mutant: no source is left, whatever there was before.
Restore_Unsets(r) ==
  /\ prev[r] # <<>>
  /\ srcCur' = Unset
  /\ prev' = [prev EXCEPT ![r] = SubSeq(@, 1, Len(@) - 1)]
  /\ Leaves(r)
  /\ UNCHANGED activities

\* The deferred restores, in a panic too: innermost first, each in a step.
Restore(r) ==
  /\ prev[r] # <<>>
  /\ srcCur' = prev[r][Len(prev[r])]
  /\ prev' = [prev EXCEPT ![r] = SubSeq(@, 1, Len(@) - 1)]
  /\ Leaves(r)
  /\ UNCHANGED activities

SourceNext == \E r \in Requests : Enter(r) \/ ImportFile(r) \/ LogActivity(r) \/ Restore(r)

SourceSpec == SourceInit /\ [][SourceNext]_sourceVars

-----------------------------------------------------------------------------
SourceTypeOK ==
  /\ srcCur \in Sources \cup {Unset}
  /\ prev \in [Requests -> Seq(Sources \cup {Unset})]
  /\ nest \in Seq(Requests \X {1, 2}) /\ crossed \in BOOLEAN
  /\ activities \in Seq([own : Sources, source : Sources, newest : BOOLEAN, served : BOOLEAN])

\* A line of the history names the source of the request that wrote it when that is the newest of
\* the requests that began one within the other: those begun in it have all ended, and none of
\* them outlived one it began in.  The rest may be served meanwhile, and may have left any source
\* behind.  When all ends were of that kind, no source is left after the last of them.
SourceTrue ==
  /\ \A i \in DOMAIN activities : activities[i].newest => activities[i].source = activities[i].own
  /\ ~crossed /\ Served = {} => srcCur = Unset

\* A request that has ended spoils none of the others: a line names the source of a request that
\* is being served when it is written, or the page as the default (activity.go 35-36: restoring
\* keeps a failed synchronisation from marking what comes after it).
EndedSpoilsNone ==
  \A i \in DOMAIN activities : activities[i].served \/ activities[i].source = "web"
=============================================================================
