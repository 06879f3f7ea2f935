CONSTANTS
  Kernel = {k, l}
  Process = {p}
  NoThread = NoThread
  ByteBits = 2
  KernelFrames = 2
  UserFrames = 1
  KernelPages = 1
  UserPages = 2
  TableSize = 1
  MaxCnt = 2
SPECIFICATION PagesSpec
INVARIANTS    PanicsOnlyWhenFull TablesApart
 
SYMMETRY Alike
