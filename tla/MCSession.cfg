SPECIFICATION MCSpec
CONSTANTS
  Workers = {"w1", "w2"}
  Lone = "w1"
  MaxSessions = 3
  TwoSessions = 2
  Nodes = {"a", "b"}
  SeqMod = 8
  Start = 6
  MaxCommands = 2
INVARIANTS SessionOwnsItsParts CachesAreOfThisSession RuntimeKeepsNewest
PROPERTIES WorkSettles
CHECK_DEADLOCK FALSE
