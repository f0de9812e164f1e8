------------------------------ MODULE MCScreens ------------------------------
(* Instances for twelve parts of the page, and the push scheduler where nothing *)
(* goes wrong but messages that fail.  They share no state: a behaviour is one   *)
(* of one part, chosen at the start; the variables of the others stay.           *)
EXTENDS MCPushDispatch, FiniteSets

CONSTANTS
  Parts,                \* those the run looks at
  NoDay, NoTime, NoEnd, NoAnswer, Nothing, Nowhere, Nobody, NoHabit, NoDraft,
  \* Those of the parts that are proved of all values; the others are given below.
  MaxKeys, Todos, ListIds, TagIds, MaxLooks,
  CardTags, CardLists, CardDues, CardEstimate, Times, MaxDrops, Moments, Estimates, MaxRows, Shortest,
  Months, OpenedAt, MaxTurns, Hours, MaxTexts

VARIABLES
  part,
  layers, openCount, focus, text, multi, detail, nav, shown, answers, escaped, nKeys,
  card, landed, byHand, length, nDrops,
  rows, cluster, clusterEnd, placed,
  mode, anchor, weekStart, items, loads, loading, failed, asked, wanted, known, rev, version,
  turned, nTurns, adding, newTask, creating, typed, given, nMade,
  line, moment, src, out, step,
  place, view, sortBy, keyword, preSearch, filter, saved, there, many, picked, applied, began, nLooks,
  query, removed,
  table, tags, tab, panel, records, chosen, editor, calls, unread, meant, made, dropped, nUses,
  habit, logs, today, draft, nChanges,
  row, rowVersion, rowShown, seen, open, field, requests, rereadRow, owed, nPicks,
  tree, treeShown, boxes, question, writes, due, lost, files, kept, list, cur, upload, removing, box,
  hits, searches, edges, over, banner, asking, quiet, rereadTasks, reading, nEdits,
  listRows, listShown, hidden, sorting, orders, rereadList, sortedRead, wish, nOrders

\* Six months from December, and eighteen.
HalfYear == <<31, 31, 29, 31, 30, 31>>
LongYear == <<31, 31, 29, 31, 30, 31, 30, 31, 31, 30, 31, 30, 31, 31, 28, 31, 30, 31>>
SomeDues == {-2, 1, 5}
TwoTasks == {[list |-> 1, tags |-> {1}, status |-> "todo"], [list |-> 2, tags |-> {1, 2}, status |-> "done"]}

\* What a search for a task to link to finds, and a list of four, one pinned and one undated.
Finds  == [q \in {"a", "ab"} |-> IF q = "a" THEN {"x", "y"} ELSE {"y"}]
OfFour == [i \in 1 .. 4 |->
  [id |-> i, title |-> (2 * i) % 3, priority |-> i % 2, due |-> IF i = 4 THEN 0 ELSE 60,
   done |-> FALSE, pinned |-> i = 3, order |-> 1]]

Layer == INSTANCE EscLayers WITH Slips <- {}, draft <- text
Drop  == INSTANCE DropTargets WITH
  Tags <- CardTags, ListIds <- CardLists, Dues <- CardDues, Estimate <- CardEstimate, Moves <- {}
Lane  == INSTANCE DayLanes
Pages == INSTANCE CalendarPages WITH
  MonthDays <- Months, FirstWeekday <- 0, Today <- OpenedAt, Haste <- {}, draft <- newTask
Said  == INSTANCE QuickLines WITH MonthDays <- LongYear, FirstWeekday <- 5, Today <- 60
Parse == INSTANCE QuickParse WITH
  MonthDays <- LongYear, FirstWeekday <- 5, Today <- 60, January <- 1, Nows <- {630, 1000},
  ListNames <- {1}, Sentences <- Said!Lines, now <- moment
View  == INSTANCE SavedViews WITH
  Oversights <- {}, Whole <- <<"smart", "all">>, MaxUses <- MaxLooks, multi <- many, nUses <- nLooks
Chip  == INSTANCE QueryChips WITH
  Pieces <- {"quote", "blank", "hash", "minus", "x", "p_high"}, Rare <- {}, MaxLen <- 6
Hook  == INSTANCE Integrations WITH
  Lists <- {1, 2}, Tags <- {1}, Oversights <- {}, MaxRows <- 4, MaxUses <- 4,
  items <- records, failed <- unread
Rule  == INSTANCE HabitRules WITH
  FirstDay <- 2, LastDay <- 5, MaxTarget <- 2, Weeks <- {{}, {1, 3}, 0 .. 6}, Slack <- {},
  MaxUses <- 4, nUses <- nChanges
Pick  == INSTANCE PanelPicks WITH
  Tags <- {1, 2}, Lists <- {1, 2}, Reminders <- {0, 5}, Today <- 60, Weekday <- 5, Haste <- {},
  MaxUses <- 2, version <- rowVersion, shown <- rowShown, calls <- requests, reread <- rereadRow,
  nUses <- nPicks
Sub   == INSTANCE TaskParts WITH
  Tasks <- {1, 2}, Others <- {"x", "y"}, Queries <- {"a", "ab"}, Found <- Finds, Reminders <- {0, 5},
  Deepest <- 2, Haste <- {}, MaxSubs <- 4, MaxUses <- 2, subs <- tree, shownSubs <- treeShown,
  asked <- question, calls <- writes, owed <- due, reread <- rereadTasks, nUses <- nEdits
Order == INSTANCE ManualOrder WITH
  Begin <- OfFour, Today <- 60, Columns <- {"title", "priority", "dueDate"}, Haste <- {}, MaxUses <- 3,
  rows <- listRows, shown <- listShown, sortBy <- sorting, calls <- orders, reread <- rereadList,
  reading <- sortedRead, nUses <- nOrders

\* Tokens are none of the values they stand beside; minutes are counted from midnight, and a
\* task is at least as long as the block drawn for it; there is no tag of the name of a column.
ASSUME ScreensAssumption ==
  /\ NoDay \notin Int /\ NoTime \notin Int /\ CardDues \subseteq Int /\ CardEstimate \in Nat /\ Times \subseteq Nat
  /\ IsFiniteSet(CardTags) /\ "none" \notin CardTags
  /\ Moments \subseteq Nat /\ Estimates \subseteq Nat /\ MaxRows \in Nat
  /\ Shortest \in Nat /\ Shortest >= 30 /\ MaxTexts \in Nat /\ OpenedAt \in Int
  /\ Nowhere \notin {<<"smart", "all">>} \cup {View!List(l) : l \in ListIds}
                    \cup {View!TagPlace(g) : g \in TagIds} \cup {View!Search(w) : w \in {"w", "wo"}}

-----------------------------------------------------------------------------
ScreensInit ==
  /\ part \in Parts
  \* Where another part runs, one of its beginnings is enough.
  /\ part # "push"  => busy = TRUE /\ fireAt = [k \in Keys |-> 0]
  /\ part # "drops" => card = [list |-> CHOOSE l \in CardLists : TRUE, priority |-> 0, tags |-> {},
                               due |-> NoDay, time |-> NoTime, endTime |-> NoTime,
                               important |-> FALSE, urgent |-> FALSE]
  /\ part # "lanes" => rows = <<>>
  /\ part # "parse" => moment = 630 /\ line = CHOOSE l \in Said!Lines : TRUE
  /\ part # "views" => saved = <<>>
  /\ part # "order" => sorting = "smart"
  /\ part # "picks" => row = Pick!BareRow
  /\ Init
  /\ Layer!LayerInit /\ Pages!CalendarInit /\ View!ViewInit /\ Chip!ChipInit /\ Hook!IntegrationInit
  /\ Rule!RuleInit /\ Pick!PickInit /\ Sub!PartInit /\ Order!OrderInit /\ Parse!ParseInit
  /\ Drop!DropInit /\ Lane!LaneInit
  /\ part # "hooks" => table[1].tags = {}

layerVars == <<layers, openCount, focus, text, multi, detail, nav, shown, answers, escaped, nKeys>>
dropVars  == <<card, landed, byHand, length, nDrops>>
laneVars  == <<rows, cluster, clusterEnd, placed>>
turnVars  == <<mode, anchor, weekStart, items, loads, loading, failed, asked, wanted, known, rev,
               version, turned, nTurns, adding, newTask, creating, typed, given, nMade>>
parseVars == <<line, moment, src, out, step>>
viewVars  == <<place, view, sortBy, keyword, preSearch, filter, saved, there, many, picked, applied,
               began, nLooks>>
chipVars  == <<query, removed>>
hookVars  == <<table, tags, tab, panel, records, chosen, editor, calls, unread, meant, made, dropped,
               nUses>>
ruleVars  == <<habit, logs, today, draft, nChanges>>
pickVars  == <<row, rowVersion, rowShown, seen, open, field, requests, rereadRow, owed, nPicks>>
subVars   == <<tree, treeShown, boxes, question, writes, due, lost, files, kept, list, cur, upload,
               removing, box, hits, searches, edges, over, banner, asking, quiet, rereadTasks, reading,
               nEdits>>
orderVars == <<listRows, listShown, hidden, sorting, orders, rereadList, sortedRead, wish, nOrders>>

\* The part that runs takes a step, the others none.
Still(name, v) == part # name => UNCHANGED v

ScreensNext ==
  /\ UNCHANGED part
  /\ Still("push", vars)       /\ Still("layers", layerVars) /\ Still("drops", dropVars)
  /\ Still("lanes", laneVars)  /\ Still("pages", turnVars)   /\ Still("parse", parseVars)
  /\ Still("views", viewVars)  /\ Still("chips", chipVars)   /\ Still("hooks", hookVars)
  /\ Still("rules", ruleVars)  /\ Still("picks", pickVars)   /\ Still("subs", subVars)
  /\ Still("order", orderVars)
  /\ CASE part = "push"   -> Next
       [] part = "layers" -> Layer!LayerNext
       [] part = "drops"  -> Drop!DropNext
       [] part = "lanes"  -> Lane!LaneNext
       [] part = "pages"  -> Pages!CalendarNext
       [] part = "parse"  -> Parse!ParseNext
       [] part = "views"  -> View!ViewNext
       [] part = "chips"  -> Chip!ChipNext
       [] part = "hooks"  -> Hook!IntegrationNext
       [] part = "rules"  -> Rule!RuleNext
       [] part = "picks"  -> Pick!PickNext
       [] part = "subs"   -> Sub!PartNext
       [] part = "order"  -> Order!OrderNext

ScreensSpec ==
  ScreensInit /\ [][ScreensNext]_<<part, vars, layerVars, dropVars, laneVars, turnVars, parseVars,
                                   viewVars, chipVars, hookVars, ruleVars, pickVars, subVars, orderVars>>

-----------------------------------------------------------------------------
\* The variables of the part that runs have their types; those of the others stand still.
ScreensTypeOK ==
  CASE part = "push"   -> TypeOK
    [] part = "layers" -> Layer!LayerTypeOK
    [] part = "drops"  -> Drop!DropTypeOK
    [] part = "lanes"  -> Lane!LaneTypeOK
    [] part = "pages"  -> Pages!CalendarTypeOK
    [] part = "parse"  -> Parse!ParseTypeOK
    [] part = "views"  -> View!ViewTypeOK
    [] part = "chips"  -> Chip!ChipTypeOK
    [] part = "hooks"  -> Hook!IntegrationTypeOK
    [] part = "rules"  -> Rule!RuleTypeOK
    [] part = "picks"  -> Pick!PickTypeOK
    [] part = "subs"   -> Sub!PartTypeOK
    [] part = "order"  -> Order!OrderTypeOK

\* Escape closes what lies on top and nothing below it; no question is left unanswered.
LayersTrue == part = "layers" => Layer!EscClosesTop /\ Layer!NoneStuck

\* What the user drops stands where it was dropped and stays the task it was; a day and a
\* month show all of their tasks, uncovered, and those of the range they say; a list stands in
\* the order the user gave it, which is the order of the server and the one its head says.
PlacedTrue ==
  CASE part = "drops" -> Drop!LandsWhereDropped /\ Drop!BlockKept /\ Drop!MarksFollow
    [] part = "lanes" -> Lane!NoneCovered
    [] part = "pages" -> Pages!PageIsWhole /\ Pages!PageIsFresh /\ Pages!LunarComplete /\ Pages!DraftKept
    [] part = "order" -> Order!OrderAgrees /\ Order!OrderKept /\ Order!SaysHowSorted
    [] OTHER -> TRUE

\* A line of quick add and a query mean to the program what they say.
ReadAsMeant ==
  CASE part = "parse" -> Parse!MeansWhatItSays /\ Parse!DueToCome
    [] part = "chips" -> Chip!ChipsAgree /\ Chip!RemovalKeeps
    [] OTHER -> TRUE

\* A saved view shows what was saved, a search leads back to where it began, and what is
\* picked is in sight.
ViewsTrue == part = "views" => View!SavedReturns /\ View!WayBack /\ View!PicksInSight

\* What an editor of a template, a webhook or a habit saves goes to the row it showed, and
\* the page and the server read it alike; what a picker of the panel or a row's menu offers is
\* what the task becomes, and so for its subtasks, files and links.
FormsTrue ==
  CASE part = "hooks" -> Hook!SavedWhereEdited /\ Hook!NoFieldsDropped /\ Hook!MadeWhereShown /\ Hook!RowsAgree
    [] part = "rules" -> Rule!StreakHonest /\ Rule!CellsAgree /\ Rule!AsksForSomething
    [] part = "picks" -> Pick!MarksAsMeant /\ Pick!TimeNeedsDay
    [] part = "subs"  -> Sub!SubsAsMeant /\ Sub!DeletedAsTold /\ Sub!PartsShown /\ Sub!HitsFit /\ Sub!BannerFits
    [] OTHER -> TRUE
=============================================================================
