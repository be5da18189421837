\* One frame on its way when SIGINT arrives.
SPECIFICATION Spec
CONSTANTS
  f1 = f1  f2 = f2  f3 = f3  s1 = s1  b1 = b1
  NULL = NULL
  Packets = {f1, s1}
  NullFrames = {s1}
  Unencodable = {}
  WaitLimit = 1
  MaxFrames = 1
  Persist = 63
  FullDuplex = FALSE
  Interrupted = TRUE
INVARIANT NoAudioAfterClose
CHECK_DEADLOCK FALSE
