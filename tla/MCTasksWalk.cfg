CONSTANTS
  k_thread_a = thread_a
  k_thread_b = thread_b
  u_prog_a = prog_a
  u_prog_b = prog_b
  Task = {main, thread_a, prog_a, prog_b, thread_b}
  Main = main
  Process = {prog_a, prog_b}
  Programme <- AsInMain
  Priority = 1
  Patience = 1
  NULL = NULL
SPECIFICATION TasksSpec
INVARIANT WalkStaysInList
