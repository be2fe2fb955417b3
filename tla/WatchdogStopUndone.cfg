CONSTANTS
  Procs <- MCProcs
  Spared <- MCSpared
  NoProc = NoProc
  Threshold = 2
  MaxFaults = 0
  MaxStops = 1
  MaxBuilds = 1
SPECIFICATION Spec
PROPERTY StopStays
