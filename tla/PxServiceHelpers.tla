-------------------------- MODULE PxServiceHelpers --------------------------
(***************************************************************************)
(* What every module about services shares: the services themselves and    *)
(* the two enumerations of src/include/PxServiceHelpers.hpp.               *)
(***************************************************************************)

CONSTANT Services

\* ServiceState.
Status == {"Inactive", "Starting", "Running", "Stopping", "Failed",
           "FailStopping", "Waiting", "StopWaiting"}

\* ServiceOverrideState.
Override == {"Include", "Exclude", "Auto"}
=============================================================================
