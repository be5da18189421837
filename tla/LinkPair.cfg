CONSTANTS
  Modulo = 3
  k_maxframe = 2
  n2_retry = 2
  Parts = 3
  MaxTx = 1
  MaxConfirms = 1
  NULL = NULL
  Info <- MCInfo
  TooLong = {}
SPECIFICATION FairSpec
INVARIANTS NumbersAgree StashIsWhatWasSent
PROPERTIES ImplementsService GivenOrBroken RecoveryEnds
CHECK_DEADLOCK FALSE
