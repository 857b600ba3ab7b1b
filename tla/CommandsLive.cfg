SPECIFICATION FairSpec
CONSTANTS
  r1 = r1
  r2 = r2
  r3 = r3
  c1 = c1
  c2 = c2
  s1 = s1
  s2 = s2
  n1 = n1
  n2 = n2
  n3 = n3
  on = on
  off = off
  None = None
  Requests = {r1, r2, r3}
  Cmd = {c1, c2}
  State = {s1}
  Value = {on, off}
  Nonce = {n1, n2, n3}
  CmdOf <- RetryCmdOf
  NonceOf <- DupNonceOf
  StateOf <- SameState
  ValueOf <- Opposite
  InitialValue = off
  OverlappingRetries = FALSE
  MaxInbox = 1
  MaxCrashes = 0
  MaxUnsaved = 1
INVARIANT WrittenAtMostOnce
PROPERTY ResultReachesDevice
