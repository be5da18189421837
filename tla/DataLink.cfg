CONSTANTS
  Modulo = 4
  k_maxframe = 2
  n2_retry = 2
  MaxQueue = 1
  MaxRequests = 1
  NULL = NULL
  short = short
  long = long
  Info <- MCInfo
  TooLong <- MCTooLong
  Frames <- MCFrames
SPECIFICATION FairSpec
INVARIANTS TypeOK OutstandingIsKept ExpectedIsNotKept TimerDrivesLink PausedWhileBusy AckIsOnItsWay RetriesCounted
PROPERTIES AcksOnlyWhatWasSent RetriesEnd
