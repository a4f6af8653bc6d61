SPECIFICATION Spec
CONSTANTS
  Catalog = {"Tables"}
  Drivers <- MCDrivers
INVARIANTS
  CallOwner
  NeedOriginates
PROPERTIES
  PhasesSpec
  SuspendedCallIsRunning
  TransactClosesCursor
