SPECIFICATION FairSpec
CONSTANTS
  app = app
  db = db
  log = log
  ghost = ghost
  ring = ring
  ring2 = ring2
  boot = boot
  halt = halt
  Services = {app}
  Known = {app}
  Hang = {app}
  Depend <- Nothing
  After <- Nothing
  IgnoreShutdown = {}
  Targets = {boot, halt}
  Base = {boot, halt}
  SystemShutdown = {halt}
  DaemonShutdown = {}
  Enable <- BootEnablesApp
  Disable <- Empty
  BootTarget = boot
  Clients = {c1, c2}
  Requests <- HaltRequests
  MaxFaults = 0
CHECK_DEADLOCK FALSE
PROPERTIES
  ShutdownTakesPrecedence
