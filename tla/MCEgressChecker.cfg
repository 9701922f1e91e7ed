SPECIFICATION Spec
CONSTANTS
  ch = ch
  de = de
  ip4 = ip4
  ip6 = ip6
  zone = zone
  Procs = {watchdog, handler}
  NoProc = NoProc
  None = None
  Countries = {ch, de}
  IPs = {ip4, ip6}
  V4 = {ip4}
  Configs <- ThreeConfigs
  Lookups <- DNSAnswers
  MaxTime = 3
INVARIANTS TypeOK VerdictMatchesExpectations ProofPostdatesInvalidation
PROPERTIES CachedVerdictWithinTTL ResultIsCoherent
