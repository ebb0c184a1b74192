CONSTANTS
  gui = gui
  worker1 = worker1
  worker2 = worker2
  Threads <- MCThreads
  CodeCount = 4
SPECIFICATION Spec
SYMMETRY Symmetric
INVARIANT AloneFindsItsText
CHECK_DEADLOCK FALSE
