CONSTANTS
  Kernel = {k}
  Process = {}
  NoThread = NoThread
  ByteBits = 4
  KernelFrames = 1
  UserFrames = 1
  KernelPages = 1
  UserPages = 1
  TableSize = 2
  MaxCnt = 2
SPECIFICATION PagesSpec
INVARIANT TlbRight
