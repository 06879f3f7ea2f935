CONSTANTS
  Thread = {main, c, d, p}
  Main = main
  Priority = 0
  Lock = {kbd}
  User = {c, d, p}
  NoThread = NoThread
  MaxDepth = 1
  QueueLock = kbd
  Consumer = {c, d}
  Producer = {p}
  Byte = {x, y}
  NoByte = NoByte
  bufsize = 3
SPECIFICATION IoSpec
INVARIANTS NobodyForgotten QueueNoPanic
SYMMETRY Alike
PROPERTY IsFifo
