SPECIFICATION FairSpec
CONSTANTS
  Pids = {p1, p2}
  Comms = {"torrentd", "sshd"}
  TargetLists = {{"torrentd"}, {"torrentd", "sshd"}}
  MaxWorkers = 1
INVARIANTS KillerTypeOK NoSilentSurvivor
PROPERTY OutageReapsTargets
