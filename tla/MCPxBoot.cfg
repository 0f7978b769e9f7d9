SPECIFICATION BootSpec
CONSTANTS
  LastPid = 4
  Daemon = 2
  Started = {2, 3}
  Childless = {3}
  Waits = {2}
  Wraps = FALSE
  Spaced = {}
  MayIgnore = {3}
  Rounds = 2
  Tries = 2
  MaxFaults = 1
  Mounts <- MCMounts
  Root = "root"
  Api = {"sys"}
  Lookalikes = {}
  Pseudo = {"home"}
  OnTop <- MCOnTop
CHECK_DEADLOCK FALSE
INVARIANTS
  QuietDisks
  DisksAreSafe
  ZombiesAreCollected
  WholeLines
PROPERTIES
  EverythingIsLogged
