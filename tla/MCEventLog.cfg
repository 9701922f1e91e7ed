SPECIFICATION Spec
CONSTANTS
  Loggers = {g1, g2}
  MaxRecords = 2
  Ranks <- MCRanks
  Counts <- MCCounts
  maxHistoryEntries = 3
  NoRecord = NoRecord
INVARIANTS TypeOK HandledIsLogged
PROPERTY HistoryIsTheTail
