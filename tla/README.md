# Verification of 慎始 (shenshi)

A TLA+ project beside the code of 慎始, a single-user task manager: a Go server on SQLite and a
React page that goes on working without a connection. The modules describe the parts of the
program where several things happen at once or something fails in the middle; TLC checks them on
small instances, and TLAPS proves the most important statements for instances of every size.

Paths below are relative to the repository (`src/` in `PROJECT.json`). `PROJECT.json` holds, by
name, the lines every definition stands for (`map`), what every run checks (`runs`), a change of
the model that each property must notice (`mutants`), where the code departs from its own
documentation (`findings`), what is hard to test (`hazards`) and what is proved (`theorems`).

## 1. The system and its parts

One server process, one SQLite file (WAL, up to four connections, `busy_timeout` 5 s, foreign
keys on, deferred transactions), a directory of attachment files, and any number of pages. Every
HTTP request runs in a goroutine of its own, so handlers interleave between SQL statements. The
pages share IndexedDB and a service worker; inside one page, code interleaves at every `await`.

| Component | State it keeps | Operations | Talks to | Module |
|---|---|---|---|---|
| Offline outbox (`web/src/lib/offline.ts`, `AppStore.tsx`) | IndexedDB stores `outbox`, `localTasks`; flag `replaying` | create, edit, complete, delete offline; `enqueue`, `replayOutbox`, `retargetOutbox` | task routes over HTTP | `Outbox`, `WriteLog` |
| Life of a task (`store/tasks.go`, `handlers_tasks.go`) | `tasks`, `activity_log` | create (with client id), toggle, complete, reopen, PATCH (If-Match), move, skip, delete, purge | change stream, CalDAV, undo slot | `TaskCompletion` |
| Undo slot and attachments (`undo.go`, `extras.go`) | `undo_slot` (one row), `attachments`, files | stage, expire, drop, undo; save and delete attachments | every deletion | `UndoSlot` |
| Push scheduler (`push/push.go`, `store/push.go`, `webpush.go`) | `push_log`, `push_subscriptions` | tick every 30 s: Apprise, then Web Push | reminders, two outside services | `PushDispatch` |
| List of tasks on the page (`AppStore.tsx`, `stream.go`) | `tasks`, sequence numbers, timers, place | optimistic writes, refresh, reconcile, search | task routes, change stream | `PageTasks` |
| Task panel (`TaskDetail.tsx`) | drafts, pending calls | type, blur, switch, close | `updateTask` with If-Match | `TaskEditor` |
| Pickers of the panel and of a row (`TaskDetail.tsx`, `TaskViews.tsx`) | one field being edited | day, time, marks, tags, reminders | `updateTask`, `toggle`, `move`, `skip` | `PanelPicks` |
| Subtasks, files, links of a task (`TaskDetail.tsx`, `extras.go`) | rows shown, question, banner, hits | add, edit, delete, upload, search, link | task routes | `TaskParts` |
| Order of a list (`TaskViews.tsx`, `TableView.tsx`, `ReorderTasks`) | sort key, rows | drag, move up and down, sort | `reorder` | `ManualOrder` |
| Adding tasks and subtasks (`TaskViews.tsx`, `CalendarView.tsx`, `TaskDetail.tsx`) | text of each form | write down, submit | `createTask`, `addSubtask` | `AddForms` |
| Quick-add parser (`lib/nlp.ts`) | the text left, what was read | parse | forms | `QuickParse`, `QuickLines` |
| Touch gestures (`lib/touch.ts`) | two hooks' refs and timers | swipe, press, tap, pull | the list | `RowGestures` |
| Dialogs (`Overlays.tsx`) | lists of the morning, form of the evening, focus countdown | plan, review, focus | tasks, settings, reviews, sessions | `MorningPlan`, `DailyReview`, `FocusTimer` |
| Operations on many tasks (`BatchAction`, `rollover.go`, `PurgeCompleted`, batch bar) | the selection | batch, roll over, purge | tasks, change stream | `BulkWrites` |
| Reminders (`reminders.go`, `AppStore.tsx`, `notify.ts`) | `reminder_log`, `localStorage` | due, acknowledge, snooze | tabs, push | `ReminderPoll` |
| Habits (`habits.go`, `HabitsView.tsx`) | `habit_logs`, the board | check in, undo, offline too | outbox | `HabitsBoard` |
| Rules of a habit (`habits.go`, `HabitsView.tsx`) | `habits`, the editor's draft | create, edit, archive; streaks, rates | the board | `HabitRules` |
| Layers (`lib/escStack.ts`, `ui.tsx`) | stack of open layers | open, close, Escape | every dialog | `EscLayers` |
| Board, quadrants (`BoardView.tsx`, `QuadrantView.tsx`) | the card dragged | drop, add in a column | `updateTask`, `move` | `DropTargets` |
| Calendar (`CalendarView.tsx`, `calendar.ts`, `date.ts`) | page, tasks and lunar days fetched, the field | turn, fetch, drop, write down | task routes | `CalendarPages`, `CalendarDays`, `DayLanes`, `DropTargets` |
| Search, filters, saved views (`AppStore.tsx`, `filter.ts`) | place, word, filter, selection | search, filter, save, apply | settings | `SavedViews` |
| Query language (`query.ts`, `query.go`) | the query | type, take out a chip | `ListTasks` | `QueryChips` |
| Templates, webhooks (`IntegrationsDialog.tsx`, `handlers_meta.go`) | the editor | save, delete, make a task | tables of both | `Integrations` |
| Folders, lists, tags (`org.go`, `Sidebar.tsx`) | `folders`, `lists`, `tags` | nest, move, delete, fold, sort, flag | bootstrap | `FolderTree` |
| Links of tasks (`task_links.go`) | `task_links` | link, unlink, cycle search | tasks | `TaskLinks` |
| Activity source (`activity.go`, `api.go`) | one global string, `activity_log` | set for a request, restore | every write | `ActivitySource` |
| Service worker (`public/sw.js`) | caches | fetch, push, activate | pages | `ReadCache` (reads) |
| CalDAV (`caldav/`) | change log, sync tokens | PUT, DELETE, sync | tasks | PUT in `TaskCompletion` |
| Change stream, webhooks (`stream.go`, `webhook.go`) | subscribers, hook list | publish | pages, outside | stream in `PageTasks` |
| Repeat rules (`repeat.go`) | none of their own | next date | tasks | - |
| Authentication (`auth.go`) | sessions, failure windows | login, guard | every route | - |
| Backup and import (`backup*.go`, `autobackup.go`, `import3p*.go`) | files | nightly backup, pruning, restore | all tables | - |
| Statistics, lunar calendar, other user interface | none | read-only, or one object loaded and saved | | - |

What is hard about them, and what makes each correct:

* **Outbox.** Answers get lost, pages close, two pages replay one queue, temporary ids are used
  again. Correct: nothing the user wrote is lost, one create makes one task, writes arrive in the
  order they were made and at their own task, and the queue runs empty when the server is there.
* **Life of a task.** The check box, the calendar, the API and the outbox complete one task at the
  same time; a repeating task creates its successor outside the transaction that completes it.
  Correct: one successor per completion and no completion without one, each told once and as it
  was, setters that set, versions that protect.
* **Undo slot.** A deletion, its undoing and files on the disk, without a transaction over all of
  them. Correct: no row without its file, no file without an owner, nothing restored twice, a task
  nobody deleted untouched.
* **Push.** Two channels, one log, restarts between sending and recording. Correct: what is
  recorded is true, nothing recorded is sent again, no person is told twice.
* **The page.** Answers arrive in any order, closures see old renders, a message of the stream is
  dropped at a full buffer. Correct: at rest the list, the panel, the sidebar and the boards show
  what the server has, and what was typed is neither lost nor written to another task.
* **Reminders**: each rings once over all tabs. **Links, folders**: no cycle, although check and
  write are apart. **Activity source**: entries carry the source of their own request. **Habits**:
  a check-in counts once. **Cached reads**: the page catches up with the answer that came too late.
  **Gestures**: one touch has one outcome. **Forms**: what was written down becomes one task.
  **Many tasks**: all rows announced, none of a batch left behind. **Dialogs**: what is ticked off
  stays so, a review belongs to its day, a minute is counted once.
* **Layers**: Escape closes what lies on top. **Dropping and ordering**: a card stands where it was
  dropped and stays the task it was; the order shown is the server's. **Calendar**: a page shows the
  tasks of its days. **Reading**: a line of quick add and a query mean what they say, and what one
  reads the other does. **Views**: a saved view comes back whole, a search leads back. **Editors**:
  what is saved goes to the row that was shown, and no click takes back another's.
* **Not modelled**: **CalDAV** sync (a client that follows tokens ends with the server's
  contents), **Auth** (no more failed logins in a window than allowed), **Backup** (one good copy
  a day, the newest kept).

## 2. Plan

In the order of importance; each module comes with its checks, and proofs where they say more
than the runs.

1. `Outbox` with `OutboxProofs`, `TaskCompletion`, `UndoSlot`, `PushDispatch`,
   each with its proofs - done.
2. `WriteLog`, the abstract specification of the outbox, and the refinement - done, checked and
   proved.
3. The page: `PageTasks`, `TaskEditor`, `AddForms`, `RowGestures`,
   `FolderTree`, `HabitsBoard`, `ReadCache`, `ReminderPoll` - done.
4. What the server does apart from them: `TaskLinks`, `ActivitySource`, `BulkWrites` - done.
5. The dialogs: `MorningPlan`, `DailyReview`, `FocusTimer` - done. `PartsProofs` proves the safety
   of the parts of 3 to 5.
6. The screens, in one run with the undisturbed push scheduler: `EscLayers`, `DropTargets`,
   `DayLanes`, `CalendarPages`, `QuickParse`, `SavedViews`, `QueryChips`, `Integrations`,
   `HabitRules`, `PanelPicks`, `TaskParts`, `ManualOrder` - done; `ScreensProofs` proves five of the
   twelve.
7. Left: *CalDAVSync* (change log and tokens), *AutoBackup*, *AuthGate*, *RepeatRule* against a
   day-by-day reference; proofs for the editors and pickers of 6.

Parts that share no state share a run: `MCParts` chooses one of fourteen at the start, `MCScreens`
one of thirteen. In the same way `MCTaskModes` and `MCUndoModes` choose between requests that
overlap and requests one after the other. A further part takes its place there.

## 3. The modules

Ghost variables are marked in the modules; no guard reads one.

### Outbox

The two IndexedDB stores are `outbox` (a set of items, each with its `seq`) and `locals` (by
temporary id); every page has `seen`, its copy of `locals`, and the flag `replaying`. `rows` is
table `tasks` of the server, on which one request is one step. A call of `syncNow` is a place
`<<tab, slot>>` with its program counter `pc`, the rest of its snapshot `todo`, the item in its
hands `cur`, the map from temporary ids to rows `idMap`, and `affected`, what `retargetOutbox` has
read and not yet written back; two slots in one page are two calls
that have both passed the flag.

| Code | Action |
|---|---|
| `createTask` of `AppStore.tsx`: direct, and offline (`putLocalTask`, then `enqueue`) | `CreateTask`, `PutLocal`, `EnqueueCreate` |
| `updateTask`, `toggleTask`, `deleteTask` on a row | `WriteRow` |
| the same on a temporary id (the local copy only) | `EditTemp`, `DeleteTemp` |
| `syncNow`, `replayOutbox` until the snapshot is read | `StartSync`, `ReadSnapshot` |
| one request of the loop: accepted, refused, failed, 401 | `SendOk`, `SendRejected`, `SendFailed`, `SendUnauthorized` |
| after an accepted create: drop the copy, re-target the queue | `DropLocal`, `Retarget`, `Rewrite` |
| `removeFromOutbox`, `updateOutboxItem` | `Remove`, `PutBack` |
| the `finally` branch and the refresh that follows | `Finish`, `RefreshPage` |
| the page is closed and opened again | `ClosePage` |
| the network; another device | `GoDown`, `GoUp`, `OtherDeviceDelete` |

What users and environments do beyond the plain course (closing a page in the middle, editing a
task before it is replayed, losing the answer of a direct create ...) are named *behaviours*; the
constant `Admitted` lists those a run allows. `Admitted = {}` is not an idle world: connections
break, answers of replayed requests get lost, requests are answered with server errors.

### TaskCompletion

A row of `tasks` has its status, what its repeat rule has left, its version, its client id and,
as a ghost, `from`: the completion that created it. A request is a place `r` with `pc` (the next
SQL statement), `call` (what was asked), `cur` (the row `GetTask` returned) and `ticket`, the
ghost of the status change it made. Statements outside transactions, and transactions that begin
with a write, are one step. The transaction of `CreateTask` begins with a read: it is two steps,
and `stale` holds the requests whose snapshot is outdated, because SQLite then refuses the write
at once (`SQLITE_BUSY_SNAPSHOT`; `busy_timeout` does not help).

| Code | Actions |
|---|---|
| `completeTask`, `PutCalendarObject` | `CheckEnds`, `CheckGoesOn`, then as toggle |
| `ToggleTask`, `toggleTask` | `ToggleRead`, `FinishWins`, `FinishLoses`, `Flip` |
| `ReopenTask` | `ReopenRead`, `Restart` |
| `updateTask` handler (If-Match), `UpdateTask` | `Match`, `Load`, `PatchWrite`, `Reread` |
| `spawnNextRepeat`, `CreateTask` | `SpawnNothing`, `Lookup`, `CreateBegin`, `InsertDone`, `InsertFails` |
| `publish`, `LogActivity` | `Tell` |
| `MoveTask`, `SkipOccurrence` | `Move`, `SkipRead`, `SkipWrite` |
| `DeleteTask`, `PurgeCompleted` | `FindDoomed`, `SelectDoomed`, `Erase` |

### UndoSlot

`tasks`, `atts` and `slot` are the three tables, `disk` the directory. A file is the number of
its upload. The slot holds copies of the deleted tasks with the names of their files. Ids are
never used again (`AUTOINCREMENT`), so a restored task is a new row whose `from` is the id it had.

| Code | Actions |
|---|---|
| `dropUndo(true)`: read the slot, `os.Remove` each file, clear the slot | `PeekSlot`, `UnlinkOne`, `ClearSlot` |
| `DeleteTask`, `BatchAction` (delete), `PurgeCompleted`: `stageUndo`, then `deleteTaskRows` | `FindDoomed`, `Stage`, `EraseAtts`, `EraseRow` |
| `expireUndo`, `UndoState` | `ExpireUndo` |
| `Undo`: read the slot, the transaction (a read, then writes), `DELETE ... created_at = ?` | `FetchSlot`, `BeginUndo`, `Restore`, `RestoreFails`, `DiscardSlot` |
| `SaveAttachment` | `ProbeTask`, `PlaceFile`, `RegisterFile` |
| `DeleteAttachment` | `LookUpAtt`, `DetachAtt`, `RemoveFile` |

`asked` is the ghost of what somebody asked to delete: the tasks outside it are those the
program has no reason to touch.

### PushDispatch

One unit of the clock is one tick of the scheduler, 30 s. A tick is a `round`, at most four of
them: reminders and summary through Apprise, then both through Web Push. `todo` holds the keys of
the round, `key` the one in work, `to` the subscriptions read for it, `left` those still to be
served, `anyOK` what `broadcast` will return; `log` is table `push_log`.

| Code | Actions |
|---|---|
| `loop`, `tick` | `BeginTick`, `NextRound` |
| `pushReminders`, `pushDaily`: skip, send, record | `Skip`, `EmptyDay`, `AppriseSends`, `AppriseRecords`, `AppriseFails` |
| `pushRemindersWeb`, `pushDailyWeb`, `broadcast` | `NoSubscribers`, `BroadcastBegins`, `WebSends`, `WebFails`, `WebGone`, `BroadcastEnds` |
| acknowledging, snoozing, completing | `Handle`, `Return` |
| time, expired subscriptions, restarts | `Advance`, `Expire`, `Crash` |

The loops over reminders and subscriptions take their elements in any order, which includes the
order of `created_at` in the code.

### WriteLog

What the outbox promises about accepted writes and nothing else: `Accept` appends one, `Attempt`
may deliver or settle the lowest that waits (or repeat one settled before), `Tidy` removes what is
settled. `Outbox` maps its history `fate` to `status` and its queue to `kept`; `KeepsTheLog` is the
instance's specification. Two pages, closures, the flag, `retargetOutbox` and its two transactions
are stutters or one of these three.

### PageTasks

A place is a list of the sidebar or the search. Every function that waits keeps the `View` (place
and "hide completed") of the render it was made in.

| Code (`AppStore.tsx`, `TaskViews.tsx`, `stream.go`) | Action |
|---|---|
| `bootstrap` | `FirstAnswer` |
| `refreshTasks` with its sequence number | `RefreshTasks` in many; `ServerAnswers`, `ListLands`, `FetchFails` |
| `reconcile`, 220 ms | `Reconcile` in many; `TimerFires` |
| `select`, `applySavedFilter`, `toggleShowCompleted` | the same names |
| search box, `setKeyword`, 250 ms | `Type`, `BoxFires`, `Clear` |
| `toggleTask`, `moveTask`, `deleteTask`, `createTask`, `addSubtask` | `Send`, `ServerWrites`, `ServerReads`, `AnswerLands` |
| `broadcast` (a full buffer drops the message), `handleChangesStream` | `Announce` in all writes; `OtherDeviceWrites`, `MessageArrives`, `StreamCut`, `StreamBack` |

### The other parts

A constant of each lists what goes wrong besides the plain course (its *lapses*); the run takes it
empty, and section 7 says what each lapse breaks.

| Module | Code | Actions |
|---|---|---|
| `TaskEditor` | debounce, blur, flush, effects of `TaskDetail.tsx`; `updateTask` with If-Match, 409 | `Open`, `Close`, `Focus`, `Key`, `Blur`, `Debounced`, `ServerUpdates`, `Answered`, `Reread`, `OtherDeviceEdits` |
| `ReadCache` | `staleWhileRevalidate`, `trimCache`, `notifyRevalidated` of `sw.js`; `useSwRevalidated` | `Go`, `PageLands`, `ServerAnswers`, `Deadline`, `AnswerArrives`, `NetFails`, `Cancelled`, `MessageArrives`, `ReconcileFires`, `FiveSecondsLater` |
| `ReminderPoll` | the 30 s poll, `rememberNotified`, the channel of the tabs; `DueReminders`, `AckReminder`, `SnoozeReminder` | `PollStarts`, `ServerLists`, `PollLands`, `MailArrives`, `Reload`, `Dismiss`, `Snooze`, `ServerRecords`, `SnoozeLands` |
| `FolderTree` | drag and drop, `EntityDialog`, folding, sorting, flags; `UpdateFolder`, `DeleteFolder`, `ReorderFolders`; `refreshBoot` | `DropInto`, `SaveDialog`, `MoveList`, `Delete`, `Fold`, `Sort`, `Flag`; `Check`, `Serve`, `Fails`, `Lands`; `BootStarts`, `BootAnswered`, `BootLands`; `OtherDevice` |
| `HabitsBoard` | `HabitsView.tsx`, `applyLocalCheck`, `queueCheckIn`, its replay; `CheckIn`, `Uncheck` | `ToggleToday`, `BumpToday`, `ToggleDay`, `Serve`, `Fails`, `Answered`, `HabitBoard`, `BoardLands`, `Reopen`, `GoOffline`, `GoOnline`, `Replay` |
| `RowGestures` | `useRowTouch`, `usePullToRefresh` | `TouchStart`, `SecondFinger`, `Move`, `LongPress`, `Scroll`, `TouchEnd`, `TouchCancel`, `Click`, `Refreshed` |
| `AddForms` | quick add, calendar drafts, subtask lines; `ensureTags` | `WriteDown`, `Erase`, `Submit`, `Tagged`, `Create`, `Refuse`, `TaskAnswered` |
| `ActivitySource` | `SetActivitySource` around a request, and inside one around an import; `LogActivity` with its trimming | `Enter`, `ImportFile`, `LogActivity`, `Restore` |
| `TaskLinks` | `AddTaskLink` in its deferred transaction, deletion of links and tasks | `Begin`, `Refuse`, `Insert`, `Fail`, `Delete` |
| `FocusTimer` | `startFocus`, the tick, `stopFocus`, `AddFocusSession` | `StartInPanel`, `StartInDetail`, `TickFocus`, `StopFocus`, `AddFocus`, `TimePasses` |
| `DailyReview` | the effect of the date, `submit`, `UpsertReview` | `OpenReview`, `SetDate`, `ServerReads`, `ReadLands`, `ReadFails`, `Write`, `Submit`, `UpsertReview`, `Saved`, `SaveFails`, `CloseReview` |
| `BulkWrites` | `BatchBar`, `batch`, `rollAllOverdue`, `purgeCompleted`; `BatchAction`, `RollOverdue`, `PurgeCompleted`, statement by statement, then the announcements | `ToggleSelected`, `Batch`, `Sweep`, `Reads`, `WriteAll`, `AllWritten`, `WriteOne`, `Skips`, `Tell`, `Fails`, `BatchAnswered`, `OtherWrites` |
| `MorningPlan` | `reload`, `run`, `togglePick`, `rollAll`, `start` of the dialog; `saveSettings` with all settings | `OpenPlan`, `RunOp`, `ServeOp`, `ServeList`, `LoadLands`, `LoadFails`, `TogglePick`, `RollAll`, `Start`, `PutServed`, `PutFails`, `ClosePlan` |
| `EscLayers` | `pushEscapeLayer`, `popEscapeLayer`, the keys of `App.tsx`; `confirm`, menus, dialogs, the drawer | `OpenRitual`, `OpenSettings`, `CloseDialog`, `OpenMenu`, `ClickOutside`, `RemindersArrive`, `Collapse`, `Ask`, `Answer`, `FocusPanel`, `TypeIn`, `SelectMany`, `OpenTask`, `OpenDrawer`, `Shortcut`, `Escape` |
| `DropTargets` | drops and additions of `BoardView.tsx`, `QuadrantView.tsx`, `CalendarView.tsx`; what `UpdateTask` derives | `DropOnBoard`, `AddInColumn`, `DropOnQuadrant`, `DropOnDay`, `DropOnAxis`, `DayPasses` |
| `DayLanes` | `placeDay` of `CalendarView.tsx`, block by block | `PlaceRow`, `LastFlush` |
| `CalendarPages` over `CalendarDays` | range, effects, cells and axis of `CalendarView.tsx`; `useCalendarInfo` | `Shift`, `BackToToday`, `SetMode`, `SetWeekStart`, `ServerChanges`, `VersionRises`, `ServerReads`, `ListLands`, `ListFails`, `LunarLands`, `LunarFails`; `OpenInCell`, `OpenOnAxis`, `TypeText`, `CloseField`, `SubmitDraft`, `DraftAnswered` |
| `QuickParse`, its lines in `QuickLines` | `parseQuickAdd`, one step per kind of phrase | `Tags`, `ListName`, `Marks`, `Priority`, `Repeat`, `Date`, `Time`, `Anchor` |
| `SavedViews` | place, search, filter, `saveFilter`, `applySavedFilter`, the selection | `Select`, `SetView`, `SetSortBy`, `SetKeyword`, `ToggleTag`, `ToggleMode`, `SetStatus`, `ClearFilter`, `Pick`, `SaveFilter`, `ApplySavedFilter`, `DeleteSavedFilter`, `Delete` |
| `QueryChips` | `tokenize`, `removeToken` of `query.ts` against `query.go` | `TypePiece`, `RemoveToken`, `ClearQuery` |
| `Integrations` | panels of templates and webhooks; their routes, `InstantiateTemplate` | `OpenTab`, `NewRow`, `EditRow`, `TypeForm`, `CancelEdit`, `Save`, `ToggleHook`, `RemoveRow`, `ChooseList`, `Instantiate`, `SaveAsTemplate`, `DeleteTag`, `ServerDoes`, `CallFails`, `AnswerLands` |
| `HabitRules` | editor and cells of `HabitsView.tsx`; `scheduledOn`, streaks and rates of `habits.go` | `OpenForm`, `Change`, `CloseForm`, `SaveDraft`, `SetArchived`, `Remove`, `ToggleDay`, `ToggleToday`, `BumpToday`, `DayPasses` |
| `PanelPicks` | pickers of `TaskDetail.tsx`, menu and title of a row; the server's routes and what they derive | `PickInPanel`, `PickOnRow`, `EditField`, `KeepField`, `EscapeField`, `OpenPanel`, `ServerPatches`, `ServerMoves`, `ServerToggles`, `ServerSkips`, `Answered`, `Fails`, `Reread`, `OtherDevice` |
| `TaskParts` | subtasks, attachments, links, search for links, the banner of what blocks a task | `AddSubtask`, `Change`, `LeaveTitle`, `AskDelete`, `AnswerDelete`, `Upload`, `RemoveFile`, `Switch`, `TypeSearch`, `AddTaskLink`, `RemoveTaskLink`; `ServerAdds` and the other answers; `BlockersRead`, `ReadTasks`, `OtherDevice` |
| `ManualOrder` | `commitSort`, `moveWithinBucket`, heads of the table; `ReorderTasks`, `ORDER BY` of `ListTasks` | `Drop`, `MoveWithinBucket`, `ServerReorders`, `ReorderAnswered`, `ReorderFails`, `Mark`, `OrderedElsewhere`, `SetSortBy`, `ClickHead`, `Narrow`, `ReadStarts`, `ReadShown` |

In `CalendarDays` a day is a number and months are given by their lengths, so one run has whole
months, a short one among them, with the arithmetic of `date.ts` and no formatted dates. In
`QuickParse` a text is a sequence of tokens of the grammar, and removing a phrase leaves the gap that
`removeSpan` leaves; the regular expressions are sets of token patterns in the order of the code.

## 4. Where the parts stand

| Part | Module | Runs that hold | Runs that find a departure | Proved (TLAPS) |
|---|---|---|---|---|
| Outbox | `Outbox`, `WriteLog` | `outbox_one`, `outbox_all` | `outbox_tempedit` | `TypeOK`, `NothingForgotten`, `NoOvertaking`, `KeepsTheLog`; one call at a time: `OneRowPerCreate`, `SentToItsTask`, `CopiesMatchQueue`, `DrainedAgrees` |
| Life of a task | `TaskCompletion` | `completion_both` | `completion_told` | `TypeOK`, `OneNextPerCompletion`, `CompletionToldOnce`, `OneTaskPerCid`; one request at a time: `ChainToldAlone`, `NoOverwriteAlone` |
| Undo slot, attachments | `UndoSlot` | `undo_both` | `undo_twice` | `TypeOK`, `NoCopyBesideOriginal`, `UntouchedKeepFiles`; one request at a time: `UndoSoundAlone`, `UndoCompleteAlone` |
| Push | `PushDispatch` | `screens`, `push_faults` | `push_gone` | `TypeOK`, `LogIsTrue`, `NeverAgain`; with failing messages only: `NeverTwice`, `OneChannel`, `AttemptsBounded`, `SummaryTold` |
| List of tasks | `PageTasks` | `parts`: `ListAgrees`, `SpinnerTrue`, `ChangeReachesPage` | | `PageTypeOK`, `SpinnerTrue`, `ListAgrees` |
| Task panel | `TaskEditor` | `parts`: `InputKept` | | `InputKept` |
| Cached reads | `ReadCache` | `parts`: `CatchesUp` | | `CatchesUp` |
| Reminders | `ReminderPoll` | `parts`: `RingsOnce` | | `RingsOnce` |
| Folders and lists | `FolderTree` | `parts`: `TreesWhole` | | `TreesWhole` |
| Habits | `HabitsBoard` | `parts`: `CountsKept` | | `CountsKept` |
| Gestures, forms | `RowGestures`, `AddForms` | `parts`: `InputKept` | | `InputKept` |
| Source, links | `ActivitySource`, `TaskLinks` | `parts`: `SourceTrue`, `TreesWhole` | `source_left` | `SourceTrue`, `TreesWhole` |
| Many tasks | `BulkWrites` | `parts`: `BulkComplete` | | `BulkComplete` |
| Dialogs | `MorningPlan`, `DailyReview`, `FocusTimer` | `parts`: `DialogsTrue` | | `DialogsTrue` |
| Layers | `EscLayers` | `screens`: `LayersTrue` | | `LayersTrue` |
| Dropping, lanes, calendar, order | `DropTargets`, `DayLanes`, `CalendarPages`, `ManualOrder` | `screens`: `PlacedTrue` | | lanes, drops and pages of `PlacedTrue` |
| Parser, queries | `QuickParse`, `QueryChips` | `screens`: `ReadAsMeant` | | |
| Search, filters, selection | `SavedViews` | `screens`: `ViewsTrue` | | `ViewsTrue` |
| Editors and pickers | `Integrations`, `HabitRules`, `PanelPicks`, `TaskParts` | `screens`: `FormsTrue` | | |

`InputKept`, `TreesWhole`, `DialogsTrue` and the properties of `screens` are, for each part, the
properties of its module: `EditKept`, `ThoughtsKept` and `OneOutcome`; those of `FolderTree` and
`TaskLinks`; those of the three dialogs.

`MC*.tla` give model values, and `MCParts`, `MCScreens`, `MCTaskModes`, `MCUndoModes` choose what a behaviour is
about; `tlc -config MCUndoModes_both.cfg MCUndoModes` is the run `undo_both`, and so on.
The instances of `MCParts` and of `MCScreens` have constants of their own, which the configurations
give values, and the proofs hold for all; the specification `PlainSpec` of `MCTaskModes` and `MCUndoModes` is the
module with the constants of the configuration (`completion_told`, `undo_twice`).
`tlapm UndoSlotProofs.tla` checks the proofs. A definition called `X_Something` beside `X` is a
mutant: the change of the code that a property must notice.

## 5. The runs, their bounds, the fairness

**outbox_one**: one page, one call of `syncNow` at a time, three writes, three things that go
wrong, four attempts, two field values, refused creates and deletions on another device. Three
writes suffice for a create with two writes to the same task, or two tasks; three faults to go
offline, lose an answer and get a server error, with `MaxTries` above the number of faults, so
that attempts run out in no behaviour. It shows that one create is one row (`OneRowPerCreate`), that
every write reaches its own task although temporary ids are used again (`SentToItsTask`), that the
two stores agree (`CopiesMatchQueue`), that the server holds at the end what the user asked for
(`DrainedAgrees`), and that the queue runs empty (`EventuallyDrained`).

Fairness of this run: each call of `syncNow` and `createTaskOffline` goes on (JavaScript of an
open page runs; the 20 s interval of `AppStore.tsx` starts `syncNow` as long as something is
queued), and a connection comes back. Requests are not fair by themselves: they may fail as often
as `MaxFaults` allows, so `EventuallyDrained` says the queue survives finitely many failures. With
connections that fail for ever the code gives up after eight attempts (section 7).

**outbox_all**: two pages over one queue, all behaviours except several calls inside one page;
attempts may run out (`MaxTries = 2`). `NothingForgotten` and `NoOvertaking` survive all of it, and
every step is one of the abstract log or none (`KeepsTheLog`).

**completion_both**: in half of the behaviours two requests of all kinds at once, three in all, and
a restart, with a repeating task of two occurrences: one completion has one successor and is told
once, one client id gives one task. Three requests: two that compete and one that prepares or
follows them. In the other half (`alone`) four requests one after the other, except that pages keep
editors open (`edit`), without restarts: the chain goes on and every completion is
told as it was (`ChainToldAlone`), and If-Match protects (`NoOverwriteAlone`). Calendar, PATCH with a
status, move and skip are not in that half; what they do to these three is in section 7.

**undo_both**: in half of the behaviours two requests of all kinds at once, two tasks, a slot that
expires at once (`TTL = 0`), a restart; in the other half five requests one after the other,
`TTL = 1`, no restart: then rows and files agree, nothing is left over (`UndoSoundAlone`), and Undo
brings everything back once (`UndoCompleteAlone`). So Undo is right as long as nothing interleaves,
and the run says which two properties hold even then.

**push_faults**: one device, two units, all faults, one restart.

**parts**: fourteen parts, one per behaviour; the variables of the others stand still, so the states
of the run are the sum of the parts':

| Part | Bounds and what they are enough for | States |
|---|---|---|
| `page` | one task, two lists and the search, three writes or moves of the user, a buffer of one message: an overtaken request, a flip that is refused, a change missed by a cut stream | 262 k |
| `editor` | two tasks, one text, estimate, day; two key strokes, four moves: two fields, or two tasks | 107 k |
| `cache` | two lists over a cache of one entry, two versions, three requests | 236 k |
| `remind` | two tabs, one reminder, two units, two acts | 54 k |
| `tree` | three folders, one nested and holding a list, three acts | 182 k |
| `habits` | one habit with target two, five taps | 9 k |
| `links` | three tasks, two clients, three commits: a circle needs three links | 58 k |
| `source` | three requests at the same time, two of the page and one of the calendar, one that imports; any number of lines, one kept | 49 k |
| `touch`, `forms` | six touches and moves over seven places; two forms, three thoughts | 0.5 k, 2 k |
| `focus`, `review` | seven half minutes, lengths of three and four; two days, two texts, four reads | 29 k, 14 k |
| `bulk`, `plan` | two tasks, two requests, one write by others; two tasks, one pick, four clicks | 105 k, 262 k |

`ChangeReachesPage` assumes, in part `page`, that an open page goes on (timers fire, answers that
were sent arrive, messages of the stream arrive, `EventSource` reconnects by itself) and that the
server answers what it was asked. Nothing is assumed of the user, of other devices, or of the
connection, which may be cut and requests fail as often as the bound allows. The other parts are
checked for safety only.

**screens**: thirteen parts in the same way, 700 k states, for safety only:

| Part | Bounds and what they are enough for | States |
|---|---|---|
| `push` | the scheduler with one reminder, the summary, two devices, three units of time, messages that fail; `LookBack = 2` and `MaxAttempts = 2` let attempts run out before and after the window closes | 203 k |
| `layers` | six keys or openings over all kinds of layers | 8 k |
| `drops` | two lists, two tags, days before and after today and three steps: from a column to another and on | 50 k |
| `lanes` | four blocks over four beginnings, two lengths: two clusters, or one of three lanes | 42 k |
| `pages` | six months, two turns or fields, two texts: a request that is overtaken, and a field that outlives its page | 26 k |
| `parse` | every phrase between two words, every two phrases of different kinds in both orders, two times of day | 18 k |
| `views` | two tasks, a list, two tags, five moves: go, search, save, leave, come back | 48 k |
| `chips` | six pieces of text: two conditions, quotes and blanks between them | 39 k |
| `hooks` | four rows, two lists, a tag, four acts: open, save, open another, answer | 26 k |
| `rules` | four days, target two, three kinds of weeks, four acts | 99 k |
| `picks` | two tags, two lists, two reminders, two picks: a pick after, or beside, another | 53 k |
| `subs` | two tasks, four subtasks over two levels, two acts and what another device does | 42 k |
| `order` | a list of four, one pinned and one without a day, three acts | 42 k |

The five runs with `expect` *violation* each show one disagreement between the code and a
sentence of the repository, quoted in `findings`. `source_left` is the part `source` without imports:
requests are served at the same time, as the server does, and one that began during another and
outlives it puts back the other's source (`EndedSpoilsNone`), which `activity.go` 35 means to exclude.
What does hold then is `SourceTrue` in `parts`: as long as requests begin and end one within the
other, the newest of them writes its own source, whatever is left over from earlier ones. Two history
variables say which these are (`nest`) and whether all ends so far were of that kind (`crossed`). The
page's change stream is such a request too: it is open as long as the page is.

Deadlock is not checked: all programs here may come to rest when the user has done everything a
bound allows.

## 6. What is proved

All proofs are for every value of the constants, hence any number of pages, requests in flight,
tasks, devices, any bound, any set of admitted behaviours or faults, unless stated otherwise. The
only assumptions are those the modules name: `ConstantsAssumption` of the large ones; `PageAssumption`,
`AnswerAssumption` and `TokenAssumption` (what stands for "nothing" is no list, view or answer),
`HabitAssumption`, `SourceAssumption`, `FormsAssumption`, `PointsAssumption` (a finger is at a point);
and of `MCParts` `SnoozeAssumption` (putting off takes time), `LengthsAssumption`, `ReviewAssumption`,
`EditorAssumption` (the four fields; what stands for "nothing" is no value, call or row) and
`TreeAssumption` (folders are numbers other than that of the top and of every list, at most the 64 that
`folderDescendsFrom` walks through; the sidebar starts as a tree); and of
`MCScreens` `ScreensAssumption` (tokens are none of the values beside them, times count from midnight,
blocks are drawn no shorter than the half hour `placeDay` counts with, no tag is called `none`). TLC
evaluates them in every run.

* **OutboxProofs.** `TypeCorrect`; under `HasStorage`, `QueueKept` and `QueueServedInOrder`.
  Neither invariant is inductive. The strengthening says that numbers in use have been given out
  (`Numbered`), that what a round is about to remove is not waiting (`RemovesSettled`), and that
  whatever waits in front of an item of a snapshot is itself in the snapshot (`CompleteBelow`) -
  which is why replaying an old snapshot in two pages never overtakes. The invariant allows for
  what `retargetOutbox` may do between its two transactions: an item another page has removed
  comes back, but only a settled one, so nothing is lost and nothing that waits is overtaken.
  `TypeCorrect` needs that temporary ids are bounded below, so that `nextTempId` finds a lowest one.
* **TaskCompletionProofs.** A completion is a ticket: the conditional `UPDATE` hands it to one
  request (`TicketsApart`), which creates with it (`Unspent`) and tells it (`Untold`) at most once.
  `NextTaskOnce` and `ToldOnce` follow. `OneTaskForCid` is inductive together with the types: only
  the `INSERT` gives a row its client id (`IdsKept` for every other statement), and the index
  refuses one that a task of the list has. One request after the other, without restarts
  (`Serial`): what a request holds is as it has seen it (`Held`), so the next task and the entry of a
  completion are there or in the hands of a request (`Chained`, `Announced`); `ChainGoesOnSerially`
  and `CompletionsToldSerially` follow. `ToldAsItWasSerially` excludes requests that begin a task
  (kind `patch`), which are told as a reopening (section 7); `EditsWhatItSawSerially` excludes the
  two that write contents without raising the version (`move`, `skip`).
* **MCTaskModes**, **MCUndoModes**: the behaviours of the run in which requests come one after the
  other are those of the instance `Alone`, so its invariants carry over: `AloneChainTold`,
  `AloneEditsWhatItSaw`, `AloneUndoSound`, `AloneUndoComplete`.
* **UndoSlotProofs.** `NoDuplicate`: what `Undo` is about to insert has no original any more
  (`Gone`), ids in memory belong to rows that existed (`Known`), and a row never comes back to
  life under its id. `FilesSpared`: the files of tasks nobody asked to delete are in no request's
  memory and not in the slot (`SafeUnused`), because a file there comes from a deleted task, and a
  file of an untouched task belongs to no other (`SafeOwned`); a new file is known to nobody
  (`AllFresh`). One request after the other, without restarts: a file on the disk has its row, is in
  the slot, or is in the hands of the request (`FileBooks`); a task in the slot is gone and has no
  copy until `Undo` has inserted it (`TaskBooks`); and what a request holds is what it has read
  (`Hand`), above all that `created_at` still is that of the slot when `Undo` discards it. From
  these, `RowsAndFilesAgree` and `UndoBringsAllBack`.
* **PushDispatchProofs.** With all faults and restarts: `LogTrue`, `DoneIsDone` - the key in work
  is open (`KeyOpen`) and what is about to be recorded was delivered (`Known`). When messages fail
  and nothing else does (`Mild`): `OnceToEach`, `OnOneChannel`, `AttemptsCounted`,
  `SummaryIsTold`, by an invariant that what was delivered is recorded or in the hands of the round.
* **OutboxProofs**, the refinement. `OutboxIsALog`: under the same invariant each action of `Outbox`
  is `Accept` (a write is queued), `Attempt` (a request reaches the server, or its item is settled),
  `Tidy` (an item is removed, or comes back settled) or a stutter of `WriteLog`. `CompleteBelow` is
  what an attempt needs (nothing older waits), `RemovesSettled` what a removal needs.
* **OutboxProofs**, one call at a time: one call of each kind at a time in one page with IndexedDB (`Solo`), where
  `outbox_one` checks four properties that two calls, or some admitted behaviours, break (section 7);
  each theorem excludes only the behaviours that break it. The invariants build on each other: what a
  call holds in memory is what the store holds (`Copied`); a temporary id is given again only after
  its create has left the store (`Ids`, which gives `SoloTempIdsDistinct` and `SoloCopiesMatchQueue`);
  a queued write names the row of its task, or a temporary id that `idMap` or `retargetOutbox` is
  about to replace (`Names`, for `SoloSentToItsTask`); client ids are never given twice (`Used`), and
  the one of a waiting create tells whether the server has its task already (`Sure` in `Singles`, for
  `SoloOneRowPerCreate`). For `SoloDrainedAgrees`, `TasksAgree` says what each task will be: the row if
  there is one, else its create or draft, changed by the last write that waits for each field.
  A write that has spent its eight tries is dropped by the code, so the theorem speaks of behaviours
  where none has (`NeverExhausted`), for any number of faults; the run bounds the faults instead.
* **PartsProofs**, the list of tasks. `PageTypeCorrect`. `SpinnerTellsTruth` is inductive together with the types:
  starting a request takes `newest` from all others and sets the spinner, and only the newest stops
  it, whether its answer lands or fails. `ListAgreesAtRest` (without the lapses of section 7; cut
  streams and failed requests included): as long as nothing is due (`Due`: a message, a timer, a request
  not yet served), the newest answer, or else the list on the screen, is what the server has
  (`Fresh`), because every closure that waits belongs to the place the page is at (`AtHome`) and the
  search box knows what the user asked for (`BoxTrue`).
* **PartsProofs**, about the other parts of `MCParts` without their lapses. *Check-ins*: what a request or a
  queued check-in still owes makes up the difference between server and promise (`Owed`), and the
  queue is never mixed with requests (`QueueAlone`). *Source*: of the requests begun
  one within the other each has found what the one before it set, and the newest has set the source
  (`SInv`); a request that leaves across them ends the chain, so the theorem needs no assumption on how
  requests overlap. *Cached reads*: requests are numbered, and a page that shows something
  older than its newest request's answer will hear of it (`Hears`). *Reminders*: one that has rung is
  known to every tab or in the mail to it (`Heard`), since all tabs share `localStorage` (`OneCopy`); one
  put off is on no answer that has yet to land (`Asleep`, `Landing`). *Operations on many tasks*: for each
  request what it wrote is still to be told (`TellOK`), what a sweep still has to do is what the
  table shows (`SweepOK`), and a task a batch has not reached is still selected (`BatchOK`). *Dialogs*:
  sessions cover stretches of time apart from each other; a text in the review was written for the date it is
  shown at (`OwnTexts`); an operation of the morning dialog accounts for each row the page and the
  server disagree on (`RowsInv`), and the picks for what was stored (`PicksInv`). *Input*
  (`InputIsKept`): a form holds the newest of its thoughts and no other form does (`HeldOnce`), a
  submission is the only one of its thought (`SentOnce`); as long as a touch may still open a menu, the
  list is not pulled (`OneWay`). In the panel of a task, what the user typed last and the server lacks is
  in the timer of its field, which has seen the newest version, or in an update that has (`NotLost`);
  the timer holds what was typed into the open task and, without the focus, gives way to such an
  update (`TimersHold`); an update in force is alone, and an answer is the row as it was typed
  (`Updating`); the inputs show what was typed (`DraftsShow`), so that leaving the field, opening
  another task and closing the panel save the right text; and a page that shows older rows will read
  the list (`Behind`). The proof holds without the disorders of section 7: the user waits for his saves
  before he types elsewhere, leaves no timer of a number or day behind, and no list is read over the
  field he is in.
* **PartsProofs**, `TreesStayWhole`. What a task waits for, and what a folder is in, is the least set
  closed under the relation (`Chain`, `Above`; `Closed`): this is what the searches of `AddTaskLink`,
  `folderDescendsFrom` and `descendantIds` compute, and needs no induction over their steps. *Links*: a
  transaction that can still write has read what there is (`ReadsTrue`), so no link is added that its
  target leads back from; with such a link the old chains, joined, are still closed
  (`NoneLeadsBack`). *Folders*: every folder leads to the top before and after a move to one it is
  not above (`MovedStands`) and after the deletion of one (`EmptiedStands`), and what the server
  looked at is still so when it writes (`Checked`). What is not on its way is where it was asked to be
  (`AsAskedFor`); a flag differs from the server's only while it is on its way, and its old value is
  that of the server (`FlagsTrue`); an answered bootstrap that has not landed is what the server has
  (`AnswersTrue`); and unless a bootstrap is due, the page shows the server's tree with what is on its
  way done to it (`ShownTrue`, `BootDue`). Without the behaviours of section 7: one request between
  look and write, no change while an answered bootstrap is on its way, a folder moved when it is seen
  where it is.

* **ScreensProofs**, about five parts of `MCScreens`. *Lanes* (`NoBlockIsCovered`): what is still to
  come begins no earlier than what is there and what is placed has ended (`InOrder`), so a block can
  meet only its cluster; the blocks of a cluster hang together, and those that overlap have lanes of
  their own, counted below the size of the cluster (`ClusterSound`). *Layers* (`EscapeClosesTheTop`): no
  layer is in the stack twice and the count is that of its dialogs (`LayerStack`), so that what is taken
  out by its name is the one that was on top; only the question on the screen is open
  (`OpenQuestion`). *Views* (`SavedViewsReturn`): a search is under way exactly when the page has one to
  come back to (`SearchUnderWay`), and no place or filter in use names what was deleted (`NothingGone`).
  *Drops* (`CardsLandWhereDropped`): the types of a card carry the columns it is in, and the marks
  nobody set are those its day and priority ask for (`MarksRight`). *Pages* (`PagesStayTrue`): only the
  newest request is waited for, it is for the page that is shown and began after the last change the
  page heard of (`LoadsSound`), and no answer is older than its request; one text at a time is in the
  field or under way (`DraftInv`). They hold without the slips, moves and haste of section 7.

Only model-checked:

* `EventuallyDrained`, `ChangeReachesPage`: liveness under fairness is beyond the prover.
* Of `PlacedTrue`, the parts `PageIsWhole` (the days of a month are a recursive function) and
  `ManualOrder` (sorting); `ReadAsMeant` (what a parser makes of every line is an induction over it).
  The other parts of `PlacedTrue` are the theorems `NoBlockIsCovered`, `CardsLandWhereDropped` and
  `PagesStayTrue`.
* `FormsTrue`, and the type invariants of the two compositions, `PartsTypeOK` and `ScreensTypeOK`,
  are within the prover's reach but not proved; the invariants of the proofs contain the types they need.

`TypeOK` of the four large modules and `AttemptsBounded` are only proved. No module
declares a recursive operator, and nothing is proved by induction over data.

## 7. Further departures

TLC also finds the following; each is a property of a module, violated with the constants given
(others as in the runs). They are listed for whoever changes the code.

* **Outbox**, one page unless said otherwise, with `Admitted` =
  * `{"temp_delete"}`: deleting a task whose create waits removes its local copy only; the create
    is replayed and the task is back (`DrainedAgrees`). Its id may then be given to another task,
    and writes reach the wrong row (`SentToItsTask`, one field value, four writes).
  * `{"lost_create"}`: a direct create whose answer is lost is queued under a new client id and
    made twice (`OneRowPerCreate`). `{"close"}`: so is a queued create when the page is closed
    before the client id is written (`MaxFaults = 3`).
  * `{"overtake"}`: a direct write while older ones are queued is overwritten by them
    (`DrainedAgrees`).
  * `{"dead"}`: in a network that is up but dead, eight rounds use up the attempts and the write is
    dropped (`NeverExhausted`, `MaxTries = 8`).
  * `{"bodyless"}`: an accepted create with an unreadable answer leaves its copy (`CopiesMatchQueue`).
  * `{}` with `Slots = {1, 2}`: `replaying` is tested before an `await` and set after it, so one
    page can replay twice and make a task twice (`OneRowPerCreate`); and two creates can take the
    same temporary id (`TempIdsDistinct`).
  * `{}` with two pages: the server sees writes again after later ones (`InOrder`).
  * `{}` with `HasStorage = FALSE`: the page reports a write as saved that is nowhere
    (`NothingForgotten`).
* **TaskCompletion**, two requests: a create of the next task that fails ends the chain
  (`ChainGoesOn`, `{"toggle", "move"}`); `/done` reads and then toggles, and reopens a task another
  request has just completed (`CompleteNeverReopens`, `{"complete"}`); a reopening that lost the race is
  told (`ToldAsItWas`, `{"toggle", "reopen"}`); PATCH of *todo* to *in progress* is told as a
  reopening (`ToldAsItWas`, `{"patch"}`, serial); If-Match is compared before and apart from the
  write (`NoSilentOverwrite`, `{"edit"}`), and `MoveTask` leaves the version alone (`{"edit",
  "move"}`, serial); a calendar that says *open* completes a task *in progress*
  (`PutNeverCompletes`, `{"put", "patch"}`, serial); purging deletes a task reopened meanwhile
  (`PurgeSparesOpen`, `{"toggle", "reopen", "purge"}`).
* **UndoSlot**: a restart between the commit of `Undo` and its clearing of the slot, then an
  expiry, removes files of restored tasks (`NoDeadLinks`, serial, `MaxCrashes = 1`, `TTL = 0`); so do two deletions and an
  undo that interleave (`NoDeadLinks`, `{"delete", "undo"}`, two tasks); `created_at` is in
  seconds, so a slot staged in the same second is cleared for the one before it (`NewSlotKept`);
  an upload that meets a deletion leaves a file nobody owns (`NoLeak`, `{"delete", "upload"}`).
* **PushDispatch**: a message that arrived and was reported as failed goes out on the other
  channel too (`OneChannel`, `{"unclear"}`); with three reminders Apprise can use up the attempts
  of one that Web Push never tried (`WebGetsItsChance`, `MaxAttempts = 3`, `LookBack = 2`);
  Web Push takes a summary it cannot read for an empty one (`SummaryTold`, `{"storage"}`). A
  restart between sending and recording sends again: delivery is at least once.

The table of offline operations in the repository's README (lines 374 to 378) lists subtasks and
check-ins as unsupported offline; the code queues both. The comment of `retargetOutbox` says that
it finds nothing today; it finds the create that is being replayed, whose `taskId` is the temporary
id too.

The parts of `MCParts`, with what their constant of lapses then lists:

* **PageTasks** (`Admitted`, `ListAgrees`). `{"leave_early"}`: who leaves a list while a write or
  the 220 ms of a reconcile are under way gets, at the end, the list the old closure asks for,
  because the sequence number says only which request is newest (`AppStore.tsx` 676).
  `{"type_and_go"}`: a place chosen within the 250 ms of the search box is left for the search
  again. `{"clear_idle"}`: clearing a box in which nothing is searched goes back to where the last
  search began. `{"filter_in_search"}`: the word stays, but the filter's list is what the user
  chose. `{"late_read"}`: the read that follows a subtask lands after a later reconcile and brings
  the older row back.
* **TaskEditor**. `{"watch"}`: a field that has the focus does not take over the server's value but
  saves with the new version, and so replaces what another device wrote (`ForeignKept`;
  `AppStore.tsx` 1264 means to prevent that). `{"overlap"}`: two saves on their way, the second with
  the version before the first, is refused; `{"switch_early"}`: the timer or draft of a day reaches
  the task opened next (both `EditKept`).
* **ReadCache** (`{"burst"}`, `CatchesUp`): of two late answers within five seconds the second is
  announced to nobody (`sw.js` 94), and the page keeps the older list.
* **ReminderPoll** (`RingsOnce`): `{"slow_mail"}`, a tab polls before the other's message comes, and
  rings too; `{"stale_poll"}`, an answer from before a snooze lands after it.
* **FolderTree**. `{"race"}`: two moves that pass the check of `UpdateFolder` make a circle, and
  both folders vanish from the sidebar (`NoneVanishes`). `{"late_boot"}`: bootstraps have no number,
  an older one stays, also over what the page changed at once (`SidebarAgrees`; `AppStore.tsx` 1802
  calls the page the only source). `{"both_flags"}`: a refused flag takes the other one back with it
  (`SidebarAgrees`). `{"dialog_out"}`: the dialog looks for a folder among those at the top only
  (`Sidebar.tsx` 358) and never moves a nested one out (`WhereAsked`). `{"nested_delete"}`: deleting
  a folder says its lists go one level up (`Sidebar.tsx` 391, `AppStore.tsx` 1835), `org.go` 305
  puts them at the top (`WhereAsked`). `{"hasty"}`: a second move before the first is shown is
  decided on the old tree (`WhereAsked`).
* **HabitsBoard** (`Lapses`, `CountsKept`): `{"offline_full"}`, ticking off a habit with a target
  above one offline is shown as complete and replayed as one more, although `offline.ts` 448 says
  replaying changes nothing about it; `{"lost_answer"}`, a repeated check-in counts again;
  `{"overtake"}`, a tap with a connection arrives before older queued ones; `{"stale_board"}`, a
  board read before the connection broke replaces what was shown since.
* **RowGestures** (`Touches`, `OneOutcome`): `{"press_and_drag"}`, `{"diagonal"}`: one touch both
  opens a menu or swipes and refreshes, since the two hooks know nothing of each other;
  `{"two_fingers"}`: a second finger leaves the first one's press or pull armed; `{"cancelled"}`: a
  pull the system cancels is carried out by the next tap.
* **AddForms** (`Haste`, `ThoughtsKept`): `{"impatient"}`, a second Enter before the answer makes a
  second task, and what is typed meanwhile is wiped by the answer; `{"refused_line"}`, a subtask
  line is emptied before the server has taken it.
* **FocusTimer** (`FocusFinish`): the end of the countdown is never recorded. `focusFinishRef` is made
  with an empty function (`AppStore.tsx` 1061) and never given `stopFocus`, so the panel stays at 00:00
  until the user ends the session himself, although `Overlays.tsx` 860 says 「倒计时结束会自动记录时长并提示。」.
  Starting a session from a task while one runs drops the first without a word.
* **DailyReview** (`Hurry`, `ReviewsTrue`): `{"read_fails"}`, `{"unread"}`: after a read of another
  date that failed or is not answered, the form holds the old text and saves it to the new date;
  `{"busy"}`: what is typed while a save is under way is closed over.
* **BulkWrites** (`Lapses`): `{"changed_since"}`: roll-over moves a task completed or rescheduled
  since its read, although `Overlays.tsx` 256 promises it does not touch them, and purging deletes
  one reopened (`OnlyItsOwnSwept`). `{"roll_fails"}`: a roll-over that fails halfway announces none
  of the rows it moved; `{"reread_fails"}`: neither does a batch whose re-read fails
  (`NothingUnannounced`). `{"impatient"}`: a second batch before the first is answered loses its
  selection (`NoneLeftBehind`).
* **MorningPlan** (`Slips`): `{"lists_cross"}`, `{"list_fails"}`: a list read earlier lands later,
  or one not at all, shows a task that is done, and clicking 「完成」 reopens it (`DoneStaysDone`).
  `{"puts_cross"}`, `{"put_fails"}`, `{"pick_busy"}`: saves of all settings cross, fail, or come
  from an older closure (`PicksKept`).

The parts of `MCScreens`:

* **EscLayers** (`Slips`): `{"field_below"}`, `{"menu_of_panel"}`: Escape in a field under a layer, or
  with the menu of the panel open, does two things, although `escStack.ts` 10 says it runs only the
  topmost (`EscClosesTop`). `{"ask_twice"}`: a second question leaves the first unanswered for ever
  (`NoneStuck`).
* **DropTargets** (`Moves`): `{"swap_tag"}`: from the column of one tag to that of another the number
  of tags stays, so nothing is sent (`BoardView.tsx` 181), although the comment above it wants the
  move (`LandsWhereDropped`). `{"with_end"}`: a block with an end moved on the axis keeps the end and
  changes its length (`BlockKept`). `{"day_passes"}`: marks that were derived grow old (`MarksFollow`).
* **DayLanes** (`Shortest = 10`, which `ScreensAssumption` excludes, tasks of ten minutes at 0:00 and 0:10): blocks under half an hour are drawn longer than `placeDay` counts
  them, and cover one another (`NoneCovered`).
* **CalendarPages** (`Haste`, `DraftKept`): `{"crossing"}`: the one text of all cells is emptied by the
  answer to an earlier one; `{"twice"}`: Enter before the answer makes a second task;
  `{"elsewhere"}` (`MaxTurns = 3`): a press on the axis wipes the text begun at another place, which
  the comment above it (`CalendarView.tsx` 838) means to prevent. The drawer of undated tasks is
  always empty, since the request asks for a range of days; a failed load is not told.
* **QuickParse**, lines outside `QuickLines`: 「夜里 1 点」 is read as 13:00, 「中午 11 点」 as 23:00,
  「今天晚上 12 点」 as the midnight that has passed; 「2 月 30 日」 is a day there is not; 「每个法定工作日」
  leaves 「每个」 in the title; 「今日」 is taken out of the middle of a word of the title (「今日头条」), since
  in `nlp.ts` 380 the space before it is asked for only of 「今天」; 「本周一」 said on a Tuesday is the next Monday.
* **SavedViews** (`Oversights`): `{"keyword_stays"}`: a saved view called up during a search keeps
  the word (`SavedReturns`); `{"saved_search"}` (`MaxUses = 6`): where a search was saved, clearing the
  box leads to where another began; `{"saved_place_gone"}`,
  `{"search_of_gone"}`, `{"tag_gone"}`: what a saved view, a search or a filter refers to is deleted
  (`WayBack`); `{"hidden_pick"}`: a narrower filter hides picked rows, on which a batch still acts
  (`PicksInSight`). `filter.ts` 3 gives 未完成 as the default; `EMPTY_FILTER` is `all`.
* **QueryChips** (`Rare`): `{"twice"}`, `{"odd_value"}` (with the piece `p_inherited`): a condition said
  twice, or with a value the server does not know, is a chip on the page and none on the server,
  although `query.ts` 8 promises the same reading (`ChipsAgree`); `{"inner_quote"}`: taking a chip out
  changes a word with quotes inside (`RemovalKeeps`).
* **Integrations** (`Oversights`): `{"other_row"}`: editors have no `key`, so another row opened in one
  is given the fields of the first (`SavedWhereEdited`); `{"late_answer"}`, `{"overlap"}`: an answer
  closes the editor opened since, or brings an older list (`NoFieldsDropped`, `RowsAgree`);
  `{"default_list"}`: 「默认清单」 sends 0, which the server takes for the template's own list
  (`MadeWhereShown`); `{"tag_gone"}`: a template with a deleted tag makes no task, since
  `INSERT OR IGNORE` does not ignore a foreign key (`MadeWhereShown`); `{"no_events"}` (`MaxUses = 5`): a webhook without events
  is stored with those the server chooses (`SavedWhereEdited`).
* **HabitRules** (`Slack`): `{"off_partial"}`: half of a target on a day off breaks the longest streak
  but not the current one, which is then longer (`StreakHonest`); `{"off_today"}`: a day off that was
  done anyway is ticked in the row and not in the cell (`CellsAgree`).
* **PanelPicks** (`Haste`): `{"stale"}`, `{"crossing"}`: lists of tags and reminders are computed from
  the row shown and replace what another click or device has set; `{"half"}`: 「标为重要且紧急」 flips
  both marks (`TaskDetail.tsx` 510), which the comment of the row's menu (`TaskViews.tsx` 673) calls a
  mistake; `{"watch"}`: a draft nobody has touched is saved over a foreign change (all
  `MarksAsMeant`). `{"end_left"}`: an end stays when the day is cleared (`TimeNeedsDay`).
* **TaskParts** (`Haste`): `{"stale"}`, `{"crossing"}`, `{"renamed"}`: a subtask's patch or title from an
  older row (`SubsAsMeant`); `{"grew"}`: a subtask added while the question is open is deleted
  uncounted (`DeletedAsTold`); `{"overtaken"}`, `{"switch"}`: a read overtaken by an older list, and an
  upload answered in another task's panel (`PartsShown`); `{"overtake"}`: hits of an older word
  (`HitsFit`).
* **ManualOrder** (`Haste`): `{"past_pinned"}`: a row dropped beside a pinned one is not shown there
  after the next read; `{"narrowed"}`: moving in a filtered list swaps with a row out of sight;
  `{"crossing"}`, `{"elsewhere"}`: `ReorderTasks` announces nothing, and two orders cross
  (`OrderKept`, `OrderAgrees`).

Read in the code, and in no module:

* *Page*: `onopen` of the change stream never reconciles, although `stream.go` says the client fetches
  a snapshot, and `online` during a backoff opens a second stream; a cycle of subtasks is in no list
  (`attachSubtasks`); the board reports success also when its update failed; shortcuts of one letter
  act behind an open dialog; a list whose name has a blank is suggested as `/name` and read only up to
  the blank; 「已完成」 on an old row reopens what another device completed; the settings are saved as
  a whole map, which may put back another device's; a text in the subtask line is lost when adding
  fails.
* *Service worker*: it sends `NOTIFICATION_CLICK` and `CACHES_CLEARED`, which nothing receives; an
  update that was dismissed once is never offered again, since its key is the address of the script
  (`offline.ts` 568 promises it is); after an update only the tab that asked reloads; `hardReset` waits
  for `serviceWorker.ready`, which may never come, and a replay under way can write items back after
  it has cleared them.
* *Server*: replacing by an import takes list ids for task ids when links and sessions are checked
  (`backup.go`); merging folders by name can make a circle; templates are merged with the tag ids of the
  other database; imports emit no events; `DuplicateTask` announces the copy before its tags are
  written and leaves the reminder out; a CalDAV sync can miss a row when the process ends between a
  commit and its entry in the change log.

## 8. What is not modelled

* *Outbox*: a 409 answered to a direct write with If-Match; subtask patches; a request in flight
  when its page closes counts as decided at that moment. A direct write that fails and the queueing
  that follows it are one step (`WriteRow`), though the page awaits the answer in between.
* *TaskCompletion*: `DuplicateTask`, the subtasks and tags of the next task, and the dates of repeat
  rules (a rule is the number of occurrences it has left).
* *UndoSlot*: the replay of links and tags, the cascade of `DeleteList`, errors of the operating
  system on files.
* *PushDispatch*: which reminders are due (taken as given times), new subscriptions and
  unsubscribing, message texts, encryption.
* *PageTasks*: paging, grouping; writes that fail into the outbox, which `Outbox` has. *TaskEditor*,
  *TaskParts*: comments, versions of a note. *ReadCache*: the shell of the application and its versions.
  *ReminderPoll*: which times a task fires at;
  the copy of what has rung is written when it changes, and never cut to its newest `NOTIFIED_MAX`
  keys. *HabitsBoard*: habits that are not due every day (`habits.go` 380). *FolderTree*: creating and renaming, tags. *BulkWrites*:
  pinning and archiving, which are like reopening, and the numbers reported. The dialogs: when they
  open by themselves.
* *QuickParse*: the recognition of characters (a phrase is a token, a year is one of four digits, the
  signs between year, month and day are not mixed), suggestions while typing.
  *QueryChips*: the SQL a condition becomes. *Integrations*: the panels of backups and calendars, the
  test of a webhook and its deliveries. *HabitRules*: the heat map. *DropTargets*, *CalendarPages*:
  scrolling, colours, the fold of a full cell. *ManualOrder*: columns by the time of a change;
  times of the day, which the rows do not have, so that `due` and `smart` go by the day alone.
* The parts of a run share no state; what joins them in the program (the list, the panel and the
  outbox over one task) is modelled inside `PageTasks`, `TaskEditor` and `Outbox` each for itself.
* *SQLite* is taken at its documentation: atomic statements and transactions, snapshots, the refusal
  of a write on an outdated snapshot. Disk failures are not modelled, except for the fault `storage`
  of PushDispatch.
* CalDAV's change log and tokens, authentication, backup: no concurrent state beyond one mutex or one
  transaction, or (CalDAV) left for later. Repeat rules, statistics, the lunar calendar and the rest
  of the user interface: read-only computation and presentation, where no step of two actors can go
  wrong.
