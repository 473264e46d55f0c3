SPECIFICATION WorkSpec
CONSTANTS
  x1 = x1
  x2 = x2
  y1 = y1
  y2 = y2
  b1 = b1
  b2 = b2
  b3 = b3
  a1 = a1
  k1 = k1
  u1 = u1
  u2 = u2
  u3 = u3
  Entries <- X
  Punches <- Y
  Halls <- Y
  MaxTime = 2
  Requests <- X
  Clerks <- Y
  Accounts <- OneAccount
  Hours <- OneHours
  MaxCredits = 1
  Rules <- SomeRules
  Windows <- SomeWindows
  Planners <- X
  MaxDay = 17
  MaxDeaths = 1
  WeekDays <- ThreeDays
  Lengths <- SomeLengths
  Quarter = 3
  DailyOt = 6
  DailyDouble = 9
  WeeklyOt = 12
  MaxWorked = 20
  Editors <- X
  Texts <- Y
  OpKeys <- OneRun
  MaxLock = 3
  MaxPolicy = 3
  NoText = NoText
  NoEditor = NoEditor
  Boots <- ThreeBoots
  Crons <- OneRun
  Images <- Y
  NoImage = NoImage
  Cooldown = 2
  Dedupe = 1
  MaxUptime = 3
  People <- ThreePeople
  Nobody = Nobody
  Sheets <- ThreeSheets
  Uploads <- X
  Datasets <- X
  Requesters <- Y
  MaxMapping = 2
  MaxDecisions = 2
  Involved <- ThreePeople
  NoOne = NoOne
  Office <- SomeOffices
  Levels <- SomeLevels
  RowIds <- TwoRows
  Asks <- X
  MaxAsks = 2
  Members <- OneAccount
  FirstDow = 0
  MaxToday = 1
  Targets <- Monday
  NoDay = NoDay
  Changes <- SomeChanges
  Edits <- X
  MaxEdits = 2
  NudgeRuns <- Y
  MaxBusy = 2
SYMMETRY WorkSymmetry
INVARIANTS
  WorkTypeOK
  NoHourTwice
  BooksBalance
  SeriesIsFilledOnce
  CutsMoveASliceAtMost
  LiveWasReviewed
  KeyPublishesOnce
  NoRepeatedMail
  PublishedLinesAreSound
  CaseTeamIsSound
  NudgesAreDue
PROPERTIES
  DecisionsStand
  ActedOnWhatWasSeen
CHECK_DEADLOCK FALSE
