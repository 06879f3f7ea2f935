CONSTANTS
  Thread = {main, a, b}
  Main = main
  Priority = 1
  Lock = {pool, pid}
  User = {main, a, b}
  NoThread = NoThread
  MaxDepth = 2
SPECIFICATION Spec
SYMMETRY Symmetric
INVARIANTS TypeOK OneList MutualExclusion HolderIsOwner NoLostWakeup NoPanic IntrKept
PROPERTY IsMutex
