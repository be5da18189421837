\* Three ordinary frames and one null frame; SIGINT at any moment.
SPECIFICATION Spec
CONSTANTS
  f1 = f1  f2 = f2  f3 = f3  s1 = s1  b1 = b1
  NULL = NULL
  Packets = {f1, f2, f3, s1}
  NullFrames = {s1}
  Unencodable = {}
  WaitLimit = 1
  MaxFrames = 2
  Persist = 63
  FullDuplex = FALSE
  Interrupted = TRUE
INVARIANTS
  TypeOK
  PeekedFrameIsThere
  OneOwner
  AudioHeldToSend
  AtMostOneOvertakes
PROPERTIES
  ImplementsService
CHECK_DEADLOCK FALSE
SYMMETRY FrameSymmetry
