SPECIFICATION Spec
CONSTANTS
  boot = boot
  on = on
  r1 = r1
  r2 = r2
  a1 = a1
  Docs <- MCDocs
  Boot <- boot
  CapturingDocs <- MCCapturing
  Places <- MCPlaces
  Readers <- MCRequests
  Admins <- MCAdmins
  MaxPuts = 1
  MaxRestarts = 1
  TTL = 1
  MaxDelay = 1
  MaxUpdates = 1
  MaxTime = 2
SYMMETRY Symmetry
INVARIANTS
  SwitchedOffLogsNothing
  OrgSwitchHonoured
CHECK_DEADLOCK FALSE
