SPECIFICATION ScreensSpec
CONSTANTS
  Parts = {"push", "layers", "drops", "lanes", "pages", "parse", "views", "chips", "hooks", "rules",
           "picks", "subs", "order"}
  a = a
  day = day
  d1 = d1
  d2 = d2
  Reminders <- OneReminder
  Daily = day
  Devices <- TwoDevices
  LookBack = 2
  MaxAttempts = 2
  Faults = {"fails"}
  MaxTime = 3
  MaxCrashes = 0
  MaxKeys = 6
  Todos <- TwoTasks
  ListIds = {1}
  TagIds = {1, 2}
  MaxLooks = 5
  CardTags = {"A", "B"}
  CardLists = {1, 2}
  CardDues <- SomeDues
  CardEstimate = 90
  Times = {7, 8, 870, 1439}
  MaxDrops = 3
  Moments = {0, 30, 60, 1410}
  Estimates = {0, 90}
  MaxRows = 4
  Shortest = 30
  Months <- HalfYear
  OpenedAt = 61
  MaxTurns = 2
  Hours = {9, 10}
  MaxTexts = 2
  NoDay = NoDay
  NoTime = NoTime
  NoEnd = NoEnd
  NoAnswer = NoAnswer
  Nothing = Nothing
  Nowhere = Nowhere
  Nobody = Nobody
  NoHabit = NoHabit
  NoDraft = NoDraft
INVARIANTS SummaryTold NeverTwice OneChannel ScreensTypeOK LayersTrue PlacedTrue ReadAsMeant ViewsTrue FormsTrue
CHECK_DEADLOCK FALSE
