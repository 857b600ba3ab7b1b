SPECIFICATION FairSpec
CONSTANTS
  a = a
  b = b
  x = x
  y = y
  k = k
  l = l
  p = p
  q = q
  r = r
  None = None
  Call = {p, r}
  CallerOf <- OneCallEach
  Refusing = {x}
  Conn = {a, b}
  State = {x}
  Silent = {b}
  MayRead <- OneWatcher
  AlarmStates = {}
  Session = {k, l}
  SessionOf <- OwnSession
PROPERTIES EndedSessionIsCut SilentPeerIsCut
