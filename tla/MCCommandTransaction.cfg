SPECIFICATION MCSpec
CONSTANTS
  Clients = {1, 2}
  Alone = 1
  Targets <- MCTargets
  Verdicts = {"OK"}
  MaxRetries = 1
  SeqSpace = 2
  CounterCap = 2
  MaxRuntimes = 2
  MaxCommands = 3
INVARIANTS VerdictIsForThisCommand PendingIsAwaited NoAckIsStolen
PROPERTIES LoneTransactionEnds
CHECK_DEADLOCK FALSE
