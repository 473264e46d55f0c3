SPECIFICATION AccountSpec
CONSTANTS
  x1 = x1
  x2 = x2
  y1 = y1
  y2 = y2
  z1 = z1
  d1 = d1
  d2 = d2
  LinkReplicas <- X
  MaxLinks = 2
  Invites <- X
  Acceptances <- Y
  NoInvite = NoInvite
  Versions <- Y
  NoTerms = NoTerms
  Operators <- X
  Locals <- X
  NoLocal = NoLocal
  Desks <- OneDesk
  Settings <- Z
  Mailings <- X
  Lists <- X
  NoList = NoList
  Letters <- Y
  Dispatchers <- TwoRuns
  MaxCopies = 3
  TravelCalls <- Z
  Sums <- OneOrTwo
  MaxBooked = 6
  PurchaseCalls <- Z
  Totals <- OneOrTwo
  MaxPaid = 6
  Chapters <- X
  Host = Host
  Issues <- Y
  Crons <- TwoRuns
  Threshold = 2
  Window = 1
  Cooldown = 2
  MaxClock = 2
  MaxEvents = 2
SYMMETRY AccountSymmetry
INVARIANTS
  AccountsTypeOK
  NewestLinkWorksOnce
  GrantedRolesKept
  SoundUnlessOverlapped
  MailIsWarranted
  MoneyIsAccountedFor
  AlertsAreDue
PROPERTIES
  TokensAreOneTime
  TermsInForce
  LastAdminOnlyToRace
  AuthorityMovesVersion
CHECK_DEADLOCK FALSE
