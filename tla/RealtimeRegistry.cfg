SPECIFICATION RegistrySpec
CONSTANTS
  a = a
  b = b
  x = x
  y = y
  k = k
  l = l
  p = p
  q = q
  r = r
  None = None
  Call = {p, q, r}
  CallerOf <- OverlappingCalls
  Refusing = {x}
  Conn = {a, b}
  State = {x, y}
  Silent = {b}
  MayRead <- Readable
  AlarmStates = {}
  Session = {k}
  SessionOf <- SharedSession
SYMMETRY SameCaller
INVARIANTS TypeOK RegistryIsBacked RegisteredIsCurrent
