SPECIFICATION MCSpec
CONSTANTS
  Nodes = {1, 2}
  Plans <- MCPlans
  MaxBoots = 1
  Earlier = FALSE
  Setbacks = FALSE
  Silence = FALSE
  Unsteady = FALSE
  Taken = TRUE
  Addresses = {1, 2}
  StaleAfter = 1
  Polls = 1
  MaxTime = 2
  Packets = 2
  Moves = 1
  Base = {1}
  Runs = 2
  Elsewhere = 1
  SeqMod = 16
  Watched = {1}
  Probes = 3
  Checks = 1
  Reboots = 1
  MaxUp = 1
  Losses = 1
  Sessions = 1
INVARIANTS NewestIsShown TargetIsTheNodes CampaignIsTrue
PROPERTIES PanelIsTrue CommandsEnd WavesWait
CHECK_DEADLOCK FALSE
