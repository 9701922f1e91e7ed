SPECIFICATION Spec
CONSTANTS
  Daemons = {d1, d2}
  NoSocket = NoSocket
  Clients = {c1}
  Strangers = {s1}
  Cmds = {"probe", "reload"}
  MaxConns = 1
  MaxVersion = 1
INVARIANTS TypeOK OneDaemonOwnsThePath
PROPERTIES  BusyMeansFull EveryoneIsLetGo
