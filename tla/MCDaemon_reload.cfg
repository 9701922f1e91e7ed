SPECIFICATION Spec
CONSTANTS
  ch = ch
  ip4 = ip4
  zone = zone
  wg0 = wg0
  wg1 = wg1
  Wd = Wd
  Handlers = {h1}
  NoProc = NoProc
  Invalid = Invalid
  None = None
  Countries = {ch}
  IPs = {}
  V4 = {}
  Configs <- AllConfigs
  Files <- TwoFiles
  Lookups <- DNSAnswers
  MaxTime = 0
  StreakCap = 1
  MaxAge = 2
INVARIANTS CheckersAgree SameInterface
PROPERTY ImplementsWatchdog
