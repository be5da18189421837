\* The receiver of a whole sync word, at most one bit of it wrong.
SPECIFICATION Spec
CONSTANTS
  HeaderBytes = 15
  EncodedLengths = {0, 2}
  Follow = 8
INVARIANT
  SyncWordIsFound
