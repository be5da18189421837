SPECIFICATION FrameSpec
CONSTANTS
  Frames <- MCFrames
  DataMax = 239
  Parity = 16
  BlockSize = 255
  MaxPayload = 1023
  MaxBlocks = 5
  InfoLengths = {0, 1, 2, 238, 239, 240, 478, 479, 718, 956, 1023, 1024}
INVARIANTS
  TypeOK
  BlocksFit
  LengthAnnounced
  DeliveredIntact
  CleanIsRecovered
  HeardAsSent
  HeardIffPlain
  
CHECK_DEADLOCK FALSE
