SPECIFICATION Spec
CONSTANTS
  ByteBase = 4
  Types <- MCTypes
  Chars <- MCChars
  Words <- MCWords
  Ints <- MCInts
  Strings <- MCStrings
  MaxCount = 2
  Beyond <- MCBeyond
  MaxDatagram = 45
INVARIANTS ArrivesAsSent ShortIsRefused OverrunIsBounded
CHECK_DEADLOCK FALSE
