SPECIFICATION FairSpec
CONSTANTS
  t1 = t1
  Tool = {t1}
  None = None
  MaxLog = 3
  Logs <- MCLogs
  Openings <- MCOpenings
  Streaming = TRUE
  Split = TRUE
  MaxChars = 1
  MaxOverflow = 2
  MaxCards = 2
  MaxFaults = 1
INVARIANT CitationsAreKept
CHECK_DEADLOCK FALSE
