SPECIFICATION Spec
CONSTANTS
  Threads = {t1, t2}
  Nodes = {a}
  OnePerNode = FALSE
  SeqMod = 8
  Start = 5
  MaxCommands = 3
INVARIANTS NewerIsKept
CHECK_DEADLOCK FALSE
