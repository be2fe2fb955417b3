CONSTANTS
  Procs <- MCProcs
  Spared <- MCSpared
  NoProc = NoProc
  Threshold = 2
  MaxFaults = 1
  MaxStops = 1
  MaxBuilds = 1
SPECIFICATION FairSpec
INVARIANTS OneServer
PROPERTIES KillJustified Supervised
