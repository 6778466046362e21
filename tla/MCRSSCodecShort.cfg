SPECIFICATION Spec
CONSTANTS
  ByteBase = 4
  Types <- MCShort
  Chars <- MCChars
  Words <- MCWords
  Ints <- MCInts
  Strings <- MCStrings
  MaxCount = 2
  Beyond <- MCBeyond
  MaxDatagram = 45
INVARIANT NullOrObject
CHECK_DEADLOCK FALSE
