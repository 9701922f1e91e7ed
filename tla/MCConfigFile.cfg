SPECIFICATION Spec
CONSTANTS
  Clis = {w1, w2}
  Inodes = {i1, i2, i3, i4}
  NoInode = NoInode
  Keys = {"poll_interval", "interface"}
  Values = {"a", "b"}
  BadValue = "bad"
  Empty = Empty
  Torn = Torn
SYMMETRY Symmetry
INVARIANTS TypeOK LoneWritersAreAtomic
PROPERTIES  DaemonStaysValid
