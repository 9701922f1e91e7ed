SPECIFICATION Spec
CONSTANTS
  Procs = {watchdog, handler}
  NoProc = NoProc
  peer1 = peer1
  peer2 = peer2
  Peers <- TwoPeers
  Configs <- ThreeConfigs
  Junk <- JunkLines
  Rate = 2
  Skews = {0, 3}
  Start = 2
  End = 6
INVARIANTS TypeOK AliveIsRecent DeadIsOld
