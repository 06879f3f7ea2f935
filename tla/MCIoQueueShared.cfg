CONSTANTS
  Thread = {main, c, p}
  Main = main
  Priority = 0
  Lock = {kbd}
  User = {c, p}
  NoThread = NoThread
  MaxDepth = 1
  QueueLock = kbd
  Consumer = {c}
  Producer = {p}
  Byte = {x}
  NoByte = NoByte
  bufsize = 3
SPECIFICATION IoSpec
INVARIANT SleepsWithReason
