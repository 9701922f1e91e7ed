SPECIFICATION FairSpec
CONSTANTS
  Configs <- MixedConfigs
  NoExit = NoExit
  Exits = {NoExit, exit1}
  StreakCap = 3
INVARIANTS TypeOK StreakCountsUnsafePolls VerdictHasReason PublishedStreakIsCurrent
PROPERTIES KillIffConfirmed OutageIsEnforced RecoveryIsAnnounced CancelStops
