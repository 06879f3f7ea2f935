CONSTANTS
  Kernel = {k}
  Process = {p}
  NoThread = NoThread
  ByteBits = 2
  KernelFrames = 1
  UserFrames = 1
  KernelPages = 1
  UserPages = 1
  TableSize = 2
  MaxCnt = 2
SPECIFICATION PagesSpec
INVARIANT OneUse
