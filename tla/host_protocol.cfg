SPECIFICATION Spec
CONSTANTS
  Byte <- MCByte
  HOST_PROTOCOL_HEADER_FIRST = 119
  HOST_PROTOCOL_HEADER_SECOND = 68
  HOST_PROTOCOL_TAIL_FIRST = 68
  HOST_PROTOCOL_TAIL_SECOND = 119
  NoByte = NoByte
INVARIANTS
  TypeOK
  CommandWasFramed
  ResyncByNextFrame
  EveryFrameAnswered
