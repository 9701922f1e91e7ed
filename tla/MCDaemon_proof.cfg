SPECIFICATION Spec
CONSTANTS
  ch = ch
  ip4 = ip4
  zone = zone
  wg0 = wg0
  wg1 = wg1
  Wd = Wd
  Handlers = {h1}
  NoProc = NoProc
  Invalid = Invalid
  None = None
  Countries = {ch}
  IPs = {ip4}
  V4 = {ip4}
  Configs <- OneConfig
  Files <- OneConfig
  Lookups <- DNSAnswers
  MaxTime = 1
  StreakCap = 1
  MaxAge = 1
PROPERTIES NoResurrectedProof ImplementsEgressChecker
