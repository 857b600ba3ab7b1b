SPECIFICATION AccessSpec
CONSTANTS
  Nobody = Nobody
  Background = Background
  Handlers = {h1, h2}
  Devices = {d1}
  Sessions = {s1, s2}
  MaxTokens = 3
  MaxDecisions = 2
  MaxRequests = 1
  MaxFaults = 1
  MaxSpent = 5
INVARIANT TunnelsNeedASession
CHECK_DEADLOCK FALSE
