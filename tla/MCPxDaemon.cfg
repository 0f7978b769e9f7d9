SPECIFICATION Spec
CONSTANTS
  app = app
  db = db
  log = log
  ghost = ghost
  ring = ring
  ring2 = ring2
  boot = boot
  halt = halt
  Services = {app, db, log, ghost}
  Known = {app, db, log}
  Hang = {app, log}
  Depend <- WebDepend
  After <- WebAfter
  IgnoreShutdown = {log}
  Targets = {boot, halt}
  Base = {boot, halt}
  SystemShutdown = {halt}
  DaemonShutdown = {}
  Enable <- BootEnablesApp
  Disable <- HaltDisablesLog
  BootTarget = boot
  Clients = {c1, c2}
  Requests <- WebRequests
  MaxFaults = 1
SYMMETRY Symmetry
CHECK_DEADLOCK FALSE
INVARIANTS
  TypeOK
  NoStrayLauncher
  NoLostLauncher
  EdgesMatch
  NoEdgeOfTheDead
  ShutdownIsQuiet
  WellFormedConversation
PROPERTIES
  WalkedListsStay
  Supervised
