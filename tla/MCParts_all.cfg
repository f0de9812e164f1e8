SPECIFICATION FairParts
CONSTANTS
  Parts = {"page", "habits", "touch", "forms", "source", "editor", "cache", "remind", "tree", "links",
           "focus", "review", "bulk", "plan"}
  Tasks <- OneTask
  Lists = {"la", "lb"}
  Search = "search"
  Home = "la"
  StoredHide = FALSE
  Kinds = {"toggle", "move", "delete", "add", "sub"}
  Admitted = {"cut", "fetch_fails"}
  HubSize = 1
  NoView = NoView
  NoAnswer = NoAnswer
  Refused = Refused
  Ok = Ok
  MaxEvents = 3
  h = h
  Habits = {h}
  Target <- HabitTarget
  Lapses = {}
  NoBoard = NoBoard
  MaxTaps = 5
  Points <- Drags
  Touches = {}
  MaxTouches = 6
  Forms = {"quick", "line"}
  Lines = {"line"}
  Haste = {}
  MaxThoughts = 3
  r1 = r1
  r2 = r2
  r3 = r3
  Requests = {r1, r2, r3}
  SourceOf <- Sources3
  Imports = {r3}
  Unset = Unset
  ActivityKeep = 1
  t1 = t1
  t2 = t2
  t3 = t3
  k1 = k1
  u1 = u1
  u2 = u2
  c1 = c1
  c2 = c2
  NoTask = NoTask
  NoDraft = NoDraft
  NoCall = NoCall
  NoRow = NoRow
  NoPoll = NoPoll
  Waiting = Waiting
  EditTasks = {t1, t2}
  Fields = {"title", "start", "estimate"}
  Disorder = {}
  MaxKeys = 2
  MaxMoves = 4
  Urls = {u1, u2}
  MaxEntries = 1
  Weather = {"offline"}
  MaxVersion = 2
  MaxFetches = 3
  Tabs = {t1, t2}
  Keys = {k1}
  FireAt <- KeyTimes
  SnoozeFor = 1
  Tolerated = {}
  MaxTime = 2
  MaxActs = 2
  FocusTasks = {t1}
  Lengths = {3, 4}
  DetailLength = 3
  MaxFocus = 7
  Dates = {u1, u2}
  Today = u1
  Hurry = {}
  MaxTexts = 2
  MaxReads = 4
  Picks = {t1, t2}
  BulkLapses = {}
  MaxBulks = 2
  MaxOthers = 1
  Agenda = {t1, t2}
  MostPicks = 1
  Slips = {}
  MaxClicks = 4
  Folders = {1, 2, 3}
  TreeLists = {7}
  TreeStart <- StartTree
  TreeUses = {"nest", "dialog", "delete", "fold", "sort", "home", "flag", "other"}
  MaxTreeActs = 3
  LinkTasks = {t1, t2, t3}
  LinkKinds = {"blocked_by"}
  Clients = {c1, c2}
  MaxCommits = 3
INVARIANTS PartsTypeOK ListAgrees SpinnerTrue CountsKept InputKept SourceTrue CatchesUp RingsOnce TreesWhole DialogsTrue BulkComplete
PROPERTIES ChangeReachesPage
CHECK_DEADLOCK FALSE
