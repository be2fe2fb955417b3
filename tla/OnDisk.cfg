CONSTANTS
  MaxTime = 4
  Attempts <- MCAttempts
  Durations <- MCDurations
  SaveCanFail = FALSE
  service = service
  tray = tray
  watchdog = watchdog
  Exes = {service, tray, watchdog}
  serviceExe = service
  Targets <- MCTargets
  Lazy = {"timezone"}
  Anchors = {"external"}
  Objects = {"meanshape"}
  numpyExt = "umath"
  cyutility = "cyutility"
  Root <- MCRoot
  Ours = {"project"}
  Sources <- MCSources
  Natives = {"umath", "cyutility"}
  Embeds <- MCEmbeds
  Exact <- MCExact
  Wild <- MCWild
  NativeReviewed = {"legacy"}
  Bundles <- MCBundles
  Versions = {"0.9"}
  Rank <- MCRank
  Signers = {"A", "B"}
  Codes = {"fresh"}
  fresh = "fresh"
  Nothing = Nothing
  MaxRuns = 2
  MaxEdits = 2
CHECK_DEADLOCK FALSE
SPECIFICATION EitherSpec
INVARIANTS DiskCurrent ReleaseGated
PROPERTY IsALedger
