\* The same messages: every one of up to three bytes, some too long for the buffer.
SPECIFICATION Spec
CONSTANTS
  MAX_KISS_LEN = 6
  AX25_MIN_PACKET_LEN = 1
  AX25_MAX_PACKET_LEN = 9
  Payloads <- ShortPayloads
INVARIANT
  StoredMessageFits
