SPECIFICATION Spec
CONSTANTS
  wg0 = wg0
  a = a
  b = b
  host = host
  Fws = {"job", "cli"}
  Configs <- MCConfigs
  NoFile = NoFile
  Torn = Torn
  WgConfs <- MCWgConfs
  Literals = {a, b}
  Absent = Absent
  Example <- MCExample
INVARIANTS TypeOK UnitTellsTruth
PROPERTIES EngagedIsInForce SuccessIsComplete
