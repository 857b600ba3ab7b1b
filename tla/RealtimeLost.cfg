SPECIFICATION Spec
CONSTANTS
  a = a
  b = b
  x = x
  y = y
  k = k
  l = l
  p = p
  q = q
  r = r
  None = None
  Call = {p, r}
  CallerOf <- OneCallEach
  Refusing = {}
  Conn = {a, b}
  State = {x}
  Silent = {}
  MayRead <- BothWatch
  AlarmStates = {x}
  Session = {k}
  SessionOf <- SharedSession
INVARIANT SubscribedIsRegistered
