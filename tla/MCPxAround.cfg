SPECIFICATION AroundSpec
CONSTANTS
  app = app
  db = db
  shell = shell
  boot = boot
  halt = halt
  rescue = rescue
  c1 = c1
  c2 = c2
  Services = {app, db, shell}
  Known = {app, db}
  Hang = {app}
  Depend <- AppNeedsDb
  After <- NoLines
  IgnoreShutdown = {}
  Targets = {boot, halt, rescue}
  Base = {boot, halt, rescue}
  SystemShutdown = {halt}
  DaemonShutdown = {}
  Enable <- Nobody
  Disable <- Nobody
  BootTarget = boot
  Clients = {c1, c2}
  Requests = {}
  CommandLines <- MCCommandLines
  UseConsole = {shell}
  Garbage = {0, 1}
  MaxFaults = 1
CHECK_DEADLOCK FALSE
INVARIANTS
  ListsAgree
  SaidIsTrue
  ConsoleIsRight
PROPERTIES
  SignalShutsDown
  UsefulIsAnswered
