CONSTANTS
  Thread = {main, c, d}
  Main = main
  Priority = 1
  Lock = {kbd}
  User = {c}
  NoThread = NoThread
  MaxDepth = 1
  QueueLock = kbd
  Consumer = {c}
  Producer = {}
  Byte = {x, y}
  NoByte = NoByte
  bufsize = 3
SPECIFICATION IoLiveSpec
INVARIANT SleepsWithReason
PROPERTY ByteIsRead
