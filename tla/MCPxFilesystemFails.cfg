SPECIFICATION Spec
CONSTANTS
  Names <- MCNames
  Targets <- MCTargets
  Fstab <- MCFstab
  Mtab <- MCMtab
  Devices <- MCDevices
  Path <- MCPath
  Statuses <- MCStatuses
CHECK_DEADLOCK FALSE
INVARIANT FailedIsNotMounted
