SPECIFICATION Spec
CONSTANTS
  TCHAR <- MCTCHAR
  Chunks <- MCChunks
  Wanted <- MCWanted
  Histories <- MCHistories
  Counts <- MCCounts
INVARIANTS
  LoopMatchesParse
  HistoryAnswersCount
