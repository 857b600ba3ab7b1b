SPECIFICATION RecordsSpec
CONSTANTS
  alice = alice
  bob = bob
  carol = carol
  item1 = item1
  item2 = item2
  Callers = {alice, bob, carol}
  Ids = {item1, item2}
  MaxChanges = 4
  MaxCrashes = 1
  NoOwner = NoOwner
  BlockedRoots = {"system"}
  Star = "*"
  Clients = {"app", "preview"}
  Previews = {"preview"}
  CtxOf <- MCCtx
  Leaves <- MCLeaves
  FirstLeaves <- MCFirst
  AlarmLog <- MCAlarmLog
  Bodies <- MCBodies
  Patches <- MCPatches
  Owners <- MCOwners
  NoCatalog = NoCatalog
  MaxRules = 4
  MaxEdits = 1
  MaxFailures = 2
  u1 = u1
  u2 = u2
  Addresses = {u1, u2}
  DataUrls = {d}
  NoAddress = NoAddress
  Fetchers = {f1, f2}
  CacheTTL = 1
  FetchTimeout = 1
  MaxClock = 2
  MaxMoves = 2
  Screens = {"s1", "s2"}
  UserOf <- MCUserOf
  DashIds = {"d1"}
  Widgets = {"w1", "w2"}
  RoleNames = {"full", "half"}
  Visible <- MCVisible
  NoBoard = NoBoard
  NoRole = NoRole
  MaxRevision = 3
  MaxOpened = 3
  FirstRole = "full"
  MaxMishaps = 1
  Writers = {"l1", "l2"}
  MaxKept = 2
  Delay = 1
  MaxEvents = 3
  MaxHour = 2
  MaxClears = 1
  MaxTroubles = 1
  Ports = {1, 2, 3}
  FirstPort = 1
  PortScanRange = 2
  MaxAttempts = 2
  BuiltInRoles <- MCBuiltIn
  CustomRoles = {"night"}
  SchemaVersion = 1
  MaxBoots = 3
  MaxRotations = 3
  MaxTurns = 2
INVARIANTS RecordsTypeOK AwaitedIsDurable
  OneIdPerState UnchangedIsExact
  AnswersAreCurrent OldAddressFadesOut
  NoLostUpdate
  LogHoldsTheNewest NoAlarmSkipped
  PortOfDeviceStays FirstStartStays ToldKeyIsDurable
PROPERTIES DiskNeverGoesBack GrantsOnlyFillGaps
CHECK_DEADLOCK FALSE
