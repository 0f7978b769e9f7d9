SPECIFICATION UseSpec
CONSTANTS
  Names <- MCNames
  Targets <- MCTargets
  Fstab <- MCFstab
  Mtab <- MCMtab
  Devices <- MCDevices
  Path <- MCPath
  Statuses <- MCStatuses
  First <- MCFirst
  Later = {"late"}
  Kind <- MCKind
  dur <- MCdur
  Epoch = 0
  Span = 4
  Session = {"s1", "s2"}
  None = "none"
  Stay = {}
  MaxFaults = 1
  Services = {"sshd", "getty"}
  TargetNames = {"default", "rescue"}
  TargetOf <- MCTargetOf
  Locs = {"var", "usr"}
  WriteLocs <- MCWriteLocs
  SearchLocs = {"var", "usr"}
  Installed <- Packages
  MaxCommands = 3
  IntBits = 4
  LongBits = 7
CHECK_DEADLOCK FALSE
INVARIANTS
  NeverWhileMounted
  CheckedFirst
  RefsAgree
  SuccessMeansDone
  TurnsMissed
  ReadsBack
PROPERTIES
  PassesInOrder
  LastOneOut
  OpenReturns
  ConfigValues
  TableSpec
  ClusterIsShorthand
