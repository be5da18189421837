\* Two packets are enough to lose a wakeup.
SPECIFICATION FairSpec
CONSTANTS
  f1 = f1  f2 = f2  f3 = f3  s1 = s1  b1 = b1
  NULL = NULL
  Packets = {f1, s1}
  NullFrames = {s1}
  Unencodable = {}
  WaitLimit = 1
  MaxFrames = 1
  Persist = 63
  FullDuplex = FALSE
  Interrupted = FALSE
PROPERTY NotifiedWhenNotEmpty
