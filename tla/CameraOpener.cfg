CONSTANTS
  Workers <- MCWorkers
  NoWorker = NoWorker
  Retries = 2
SPECIFICATION FairSpec
INVARIANTS OneCapture
PROPERTIES IsAHandle LateCaptureClosed
