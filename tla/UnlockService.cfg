CONSTANTS
  cp = cp
  gui = gui
  NoClient = NoClient
  Clients <- MCClients
  SystemClients <- MCSystem
  Commands <- GrantCommands
  MaxAttempts = 2
  LockoutSeconds = 1
  UnlockDeadline = 1
  GestureDeadline = 1
  TokenTTL = 1
  PersistentCamera = FALSE
  Leases <- MCLeases
  MaxTime = 2
  MaxTokens = 2
SPECIFICATION Spec
INVARIANTS BudgetHeld TokensSpentOnce GrantsGuarded
PROPERTY ForgivenessEarned
