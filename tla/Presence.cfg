CONSTANTS
  Pokers = {"poke"}
  Configs <- MCConfigs
  MaxStrikes = 2
  Wrap = 4
  IdleLimit = 2
  MaxToasts = 3
  MaxTray = 2
SPECIFICATION FairSpec
INVARIANTS Obeyed ToastPerEpisode
PROPERTIES LockEarned Converges
CHECK_DEADLOCK FALSE
