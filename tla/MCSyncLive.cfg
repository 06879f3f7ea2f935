CONSTANTS
  Thread = {main, a, b}
  Main = main
  Priority = 1
  Lock = {pool}
  User = {a}
  NoThread = NoThread
  MaxDepth = 1
SPECIFICATION LiveSpec
PROPERTIES ReadyRuns BlockedWakes
