CONSTANTS
  MaxSessions = 2
  MaxSize = 2
  Cooldown = 1
  MaxTime = 2
  service = service
  passwordWindow = passwordWindow
  Users <- MCUsers
  Writers <- MCWriters
  MaxSaves = 2
  MaxKeys = 3
  VerifyFrames = 5
  Required = 2
  Sights <- MCSights
  Turns <- MCTurns
  JudgeConfigs <- MCJudgeConfigs
  YawDelta = 2
  PitchDelta = 1
  Lease = 3
  Renew = 1
  MaxQueue = 1
  watchdog = watchdog
  Tasks = {service, watchdog}
  serviceTask = service
  watchdogTask = watchdog
  Restartable = {watchdog}
  Budget = 3
  Retry = 1
  MaxTicks = 5
  MaxEdits = 1
  Alphabet <- Letters
  Accounts <- MCAccounts
  Words <- MCWords
  Refusals = {"no-match", "locked-out"}
  MaxChars = 3
  MaxPrompt = 3
  Tree <- MCTree
  Secret = {"credentials.bin"}
  Temporary <- MCTemporary
  Trees <- MCTrees
  MaxChanges = 3
  MaxStarts = 2
  Backups = 2
  Limits = {0, 4}
  LineSizes = {1, 3}
  MaxLines = 5
  Ring = 2
  MaxEntries = 6
  MaxPlaced = 3
CHECK_DEADLOCK FALSE
SPECIFICATION Spec
INVARIANTS OutcomesEarned RingAnchored MemoryIsDisk ClearForgets CredentialReadable
  LeaseCovers SessionWhole SetupKept ExchangeSafe ConfigKept
  ReplyFaithful CustodyTrue TracesKept
PROPERTY OutcomeStays
