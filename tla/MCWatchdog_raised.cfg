SPECIFICATION Spec
CONSTANTS
  Configs <- MixedConfigs
  NoExit = NoExit
  Exits = {NoExit}
  StreakCap = 3
PROPERTY ConfirmedDownKeepsKilling
