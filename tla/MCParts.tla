------------------------------- MODULE MCParts -------------------------------
(* Model values and instances for the parts of the page and of the server      *)
(* that share no state.  A behaviour is one of one part, chosen at the start;  *)
(* the variables of the others stay as they were.                              *)
EXTENDS PageTasks, HabitsBoard, RowGestures, AddForms, ActivitySource, TLC

CONSTANTS
  Parts,                \* those the run looks at
  h, r1, r2, r3, t1, t2, t3, k1, u1, u2, c1, c2,
  NoTask, NoDraft, NoCall, NoRow, NoPoll, Waiting,
  \* Those of the instances below, where no other part has one of the same name.
  EditTasks, Fields, Disorder, MaxKeys, MaxMoves,
  Urls, MaxEntries, Weather, MaxVersion, MaxFetches,
  Tabs, Keys, FireAt, SnoozeFor, Tolerated, MaxTime, MaxActs,
  FocusTasks, Lengths, DetailLength, MaxFocus,
  Dates, Today, Hurry, MaxTexts, MaxReads,
  Picks, BulkLapses, MaxBulks, MaxOthers,
  Agenda, MostPicks, Slips, MaxClicks,
  Folders, TreeLists, TreeStart, TreeUses, MaxTreeActs,
  LinkTasks, LinkKinds, Clients, MaxCommits

ASSUME SnoozeAssumption  == SnoozeFor \in Nat \ {0}
ASSUME LengthsAssumption == Lengths \subseteq Nat /\ DetailLength \in Nat
ASSUME ReviewAssumption  == Today \in Dates /\ MaxTexts \in Nat
ASSUME EditorAssumption  ==
  /\ Fields \subseteq {"title", "notes", "estimate", "start"} /\ MaxKeys \in Nat
  /\ NoTask \notin EditTasks /\ NoDraft \notin Nat
  /\ NoCall \notin [value : Nat, task : EditTasks, old : Nat, version : Nat]
  /\ NoRow \notin [value : [Fields -> Nat], version : Nat]

VARIABLES
  part,
  server, edited, open, focus, draft, sent, pending, calls, reread, typed, foreign, nKeys, nMoves,
  version, keys, cached, fetches, place, seenPlace, lost, messages, recon, hush, due, nFetches,
  clock, ledger, stored, known, reminders, poll, mail, orders, rung, nRings,
  org, boot, jobs, boots, untold, asked, nActs,
  links, commits, tx,
  countdown, now, began, adds, sessions,
  isOpen, date, form, reads, saving, reviews, meant, nReads,
  table, news, bulks, selected, wanted, wronged, nBulks, nOthers,
  plan, lateRows, todayRows, runs, loads, panel, picked, settings, kept, puts, starting, finished,
  nClicks

OneTask     == {t1}
KeyTimes    == k1 :> 0
HabitTarget == h :> 2
Drags       == {<<4, 4>>, <<80, 0>>, <<-80, 10>>, <<40, 0>>, <<0, 20>>, <<10, 140>>, <<210, 130>>}
Sources3    == (r1 :> "web") @@ (r2 :> "caldav") @@ (r3 :> "web")

\* A folder with a folder in it that holds a list, and an empty one beside it.
StartTree == [live |-> 1 .. 3, parent |-> <<0, 1, 0>>, rank |-> <<1, 1, 2>>, folded |-> {},
              home |-> (7 :> 2), flags |-> (7 :> {})]

Editor == INSTANCE TaskEditor WITH row <- edited
Cache  == INSTANCE ReadCache WITH shown <- seenPlace
Remind == INSTANCE ReminderPoll WITH jobs <- orders, nActs <- nRings
Tree   == INSTANCE FolderTree WITH
  Lists <- TreeLists, Start <- TreeStart, Admitted <- {}, Uses <- TreeUses, MaxActs <- MaxTreeActs
Links  == INSTANCE TaskLinks WITH Tasks <- LinkTasks, Kinds <- LinkKinds

Focus  == INSTANCE FocusTimer WITH Nobody <- NoTask, MaxTime <- MaxFocus, focus <- countdown, adding <- adds
Review == INSTANCE DailyReview
Bulk   == INSTANCE BulkWrites WITH Lapses <- BulkLapses, rows <- table, asked <- wanted
Plan   == INSTANCE MorningPlan WITH shown <- panel, stored <- kept

\* Numbers of folders and lists; the tree at the start is one, and no deeper than the 64 steps
\* folderDescendsFrom (org.go) takes.
ASSUME TreeAssumption ==
  /\ Folders \subseteq Nat \ {Tree!Top} /\ Folders \cap TreeLists = {}
  /\ IsFiniteSet(Folders) /\ Cardinality(Folders) <= 64
  /\ TreeStart \in Tree!Org /\ Tree!Visible(TreeStart) = TreeStart.live
  /\ \A f \in TreeStart.live : TreeStart.parent[f] \in TreeStart.live \cup {Tree!Top}
  /\ \A l \in TreeLists : TreeStart.home[l] \in TreeStart.live \cup {Tree!Top}

-----------------------------------------------------------------------------
PartsInit ==
  /\ part \in Parts
  /\ Init /\ HabitInit /\ TouchInit /\ FormInit /\ SourceInit
  /\ Editor!Init /\ Cache!Init /\ Remind!Init /\ Tree!Init /\ Links!Init
  /\ Focus!Init /\ Review!Init /\ Bulk!Init /\ Plan!Init
  /\ part # "page"   => rows = [t \in Tasks |-> Gone]
  /\ part # "habits" => logs[h]["today"] = 0
  /\ part # "touch"  => atTop
  /\ part # "cache"  => keys = <<>> /\ place = CHOOSE u \in Urls : TRUE

editorVars == <<server, edited, open, focus, draft, sent, pending, calls, reread, typed, foreign,
                nKeys, nMoves>>
cacheVars  == <<version, keys, cached, fetches, place, seenPlace, lost, messages, recon, hush, due,
                nFetches>>
remindVars == <<clock, ledger, stored, known, reminders, poll, mail, orders, rung, nRings>>
treeVars   == <<org, boot, jobs, boots, untold, asked, nActs>>
linkVars   == <<links, commits, tx>>
timerVars  == <<countdown, now, began, adds, sessions>>
dayVars    == <<isOpen, date, form, reads, saving, reviews, meant, nReads>>
bulkVars   == <<table, news, bulks, selected, wanted, wronged, nBulks, nOthers>>
planVars   == <<plan, lateRows, todayRows, runs, loads, panel, picked, settings, kept, puts,
                starting, finished, nClicks>>

\* The part that runs takes a step, the others none.
Still(name, v) == part # name => UNCHANGED v

PartsNext ==
  /\ UNCHANGED part
  /\ CASE part = "page"   -> PageNext
       [] part = "habits" -> HabitNext
       [] part = "touch"  -> TouchNext
       [] part = "forms"  -> FormNext
       [] part = "source" -> SourceNext
       [] part = "editor" -> Editor!EditNext
       [] part = "cache"  -> Cache!CacheNext
       [] part = "remind" -> Remind!RemindNext
       [] part = "tree"   -> Tree!TreeNext
       [] part = "links"  -> Links!LinkNext
       [] part = "focus"  -> Focus!FocusNext
       [] part = "review" -> Review!ReviewNext
       [] part = "bulk"   -> Bulk!BulkNext
       [] part = "plan"   -> Plan!PlanNext
  /\ Still("page", pageVars)     /\ Still("habits", habitVars) /\ Still("touch", touchVars)
  /\ Still("forms", formVars)    /\ Still("source", sourceVars) /\ Still("editor", editorVars)
  /\ Still("cache", cacheVars)   /\ Still("remind", remindVars) /\ Still("tree", treeVars)
  /\ Still("links", linkVars)    /\ Still("focus", timerVars)  /\ Still("review", dayVars)
  /\ Still("bulk", bulkVars)     /\ Still("plan", planVars)

partVars ==
  <<part, pageVars, habitVars, touchVars, formVars, sourceVars, editorVars, cacheVars,
    remindVars, treeVars, linkVars, timerVars, dayVars, bulkVars, planVars>>

PartsSpec == PartsInit /\ [][PartsNext]_partVars
\* Of the page; while it stands still beside another part it is not served, so nothing is
\* claimed of it there.
FairParts == PartsSpec /\ PageFairness

-----------------------------------------------------------------------------
\* The variables of the part that runs have their types; those of the others stand still.
PartsTypeOK ==
  CASE part = "page"   -> PageTypeOK
    [] part = "habits" -> HabitTypeOK
    [] part = "touch"  -> TouchTypeOK
    [] part = "forms"  -> FormTypeOK
    [] part = "source" -> SourceTypeOK
    [] part = "editor" -> Editor!EditTypeOK
    [] part = "cache"  -> Cache!CacheTypeOK
    [] part = "remind" -> Remind!RemindTypeOK
    [] part = "tree"   -> Tree!TreeTypeOK
    [] part = "links"  -> Links!LinkTypeOK
    [] part = "focus"  -> Focus!FocusTypeOK
    [] part = "review" -> Review!ReviewTypeOK
    [] part = "bulk"   -> Bulk!BulkTypeOK
    [] part = "plan"   -> Plan!PlanTypeOK

\* What is typed in the panel of a task or written down in a form is neither lost nor saved
\* twice nor over what others wrote, and one touch has one outcome.
InputKept ==
  CASE part = "editor" -> Editor!EditKept /\ Editor!ForeignKept
    [] part = "forms"  -> ThoughtsKept
    [] part = "touch"  -> OneOutcome
    [] OTHER -> TRUE

\* A page that was answered from the cache hears of the later answer.
CatchesUp == part = "cache"  => Cache!CatchesUp

\* A reminder rings once in all tabs.
RingsOnce == part = "remind" => Remind!RingsOnce

\* Folders and links form no circle, none vanishes from the sidebar, and all stand where
\* they were asked to.
TreesWhole ==
  CASE part = "tree"  -> Tree!NoneVanishes /\ Tree!SidebarAgrees /\ Tree!WhereAsked
    [] part = "links" -> Links!NoCircle
    [] OTHER -> TRUE

\* A minute of focus is counted once, the review of a day is saved to that day, what the
\* morning dialog shows as done stays done and its picks are kept.
DialogsTrue ==
  CASE part = "focus"  -> Focus!TimeCountedOnce
    [] part = "review" -> Review!ReviewsTrue
    [] part = "plan"   -> Plan!DoneStaysDone /\ Plan!PicksKept
    [] OTHER -> TRUE

\* What an operation on many tasks did is announced, none that was asked for is left behind,
\* and none else is touched.
BulkComplete ==
  part = "bulk" => Bulk!NothingUnannounced /\ Bulk!NoneLeftBehind /\ Bulk!OnlyItsOwnSwept
=============================================================================
