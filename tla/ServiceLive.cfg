CONSTANTS
  cp = cp
  gui = gui
  NoClient = NoClient
  Clients <- MCClients
  SystemClients <- MCSystem
  Commands <- LiveCommands
  MaxAttempts = 1
  LockoutSeconds = 1
  UnlockDeadline = 1
  GestureDeadline = 1
  TokenTTL = 1
  PersistentCamera = TRUE
  Leases <- MCLeases
  MaxTime = 1
  MaxTokens = 1
SPECIFICATION FairSpec
INVARIANT LeaseExclusive
PROPERTIES BackToAccept ShutdownHappens
