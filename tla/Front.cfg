SPECIFICATION FrontSpec
CONSTANTS
  r1 = r1
  r2 = r2
  r3 = r3
  k1 = k1
  k2 = k2
  Requests = {r1, r2, r3}
  Keys = {k1, k2}
  KeyOf <- SharedKeyOf
  StampOf <- Stamps
  Skew = 2
  TTL = 4
  Lag = 1
  MaxTime = 11
  MaxRestarts = 1
  NoOne = NoOne
  Servers = {p1, p2}
  Invites = {i1}
  NewDevices = {n1, n2}
  ApprovalModes = {TRUE, FALSE}
  MaxVerdicts = 2
  MaxTries = 2
  MaxLost = 2
  MaxPairingFaults = 1
  h1 = h1
  h2 = h2
  s1 = s1
  s2 = s2
  Nobody = Nobody
  Background = Background
  Handlers = {h1, h2}
  Devices = {d1}
  Sessions = {s1, s2}
  MaxTokens = 3
  MaxDecisions = 2
  MaxRequests = 1
  MaxFaults = 1
  MaxSpent = 5
  Visitors = {v1, v2}
  WindowMs = 2
  BlockMs = 3
  MaxFailuresOk = 2
  RateWindow = 2
  LimitPerMinute = 2
  MaxInstant = 7
  NoOwner = NoOwner
  BlockedRoots = {"system"}
  Star = "*"
  EmbedIds = {"e1"}
  Origins = {"o1", "o2"}
  Contexts <- MCContexts
  Grants <- MCGrants
  NoEmbed = NoEmbed
  TokenTTL = 1
  MaxMinute = 2
  MaxGrants = 2
  MaxTunnels = 2
  MaxEmbedEdits = 3
  MaxMishaps = 2
  w1 = w1
  w2 = w2
  Editors = {w1, w2}
SYMMETRY Symmetric
INVARIANTS FrontTypeOK AcceptedOnce NoFalseReplay
  InviteSingleUse DiskFitsTogether VerdictsAgree
  RevokedStaysOut EndedSessionStaysEnded RefreshTokenUsedOnce
  BlockHolds FixedWindowsHold
  NoOrphanRule TunnelsAreEntitled
CHECK_DEADLOCK FALSE
