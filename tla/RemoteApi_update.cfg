SPECIFICATION Spec
CONSTANTS
  Clients = {1, 2}
  Readers = {}
  Names = {"ana", "eva", "leo"}
  Ops = {"role", "enable"}
  FreshSite = FALSE
  TokenRole = "none"
  MaxRequests = 2
  MaxSessions = 5
  Drops = FALSE
  MaxFaults = 0
PROPERTY OnlyOwnAccount
CHECK_DEADLOCK FALSE
