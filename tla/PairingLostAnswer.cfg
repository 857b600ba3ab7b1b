SPECIFICATION PairingFairSpec
CONSTANTS
  NoOne = NoOne
  Servers = {p1, p2}
  Invites = {i1}
  NewDevices = {n1, n2}
  ApprovalModes = {FALSE}
  MaxVerdicts = 0
  MaxTries = 1
  MaxLost = 1
  MaxPairingFaults = 0
PROPERTY ApprovedIsPaired
CHECK_DEADLOCK FALSE
