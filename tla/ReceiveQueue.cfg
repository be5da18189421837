\* Three items at a time; the data link may start timers.
SPECIFICATION FairSpec
CONSTANTS
  i1 = i1  i2 = i2  i3 = i3
  NULL = NULL
  Items = {i1, i2, i3}
  LinkTimers = TRUE
INVARIANTS
  TypeOK
  ListWellFormed
  NothingLeaks
  SleepsOnlyOnEmpty
PROPERTIES
  ImplementsService
  EveryItemIsHandled
  TimersServed
