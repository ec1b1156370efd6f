SPECIFICATION Spec
CONSTANTS
  Workers = {w1}
  MaxSessions = 2
INVARIANTS WriteBackIsSessionScoped
