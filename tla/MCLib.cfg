CONSTANTS
  Key <- SomeKeys
  MaxPort = 3
  bufsize = 2
  ByteBits = 3
  btmp_bytes_len = 3
  Nibbles = 2
  Rows = 2
  Cols = 2
  KernelThread = {k1, k2}
  Process = {u}
  Texts <- AllSorts
  KeyText <- UnknownKey
  TextLen = 4
  MaxTexts = 3
  MaxKeys = 1
  Nobody = Nobody
SPECIFICATION LibSpec
INVARIANTS  BytesAreUsed ScanIsFirstFit ScreenIsWindow TextsWhole NumbersReadBack MemoryFits
 
CHECK_DEADLOCK FALSE
