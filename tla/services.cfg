SPECIFICATION ServicesSpec
CONSTANTS
  key = key
  stat = stat
  first = first
  second = second
  cartA = cartA
  cartB = cartB
  single = single
  workerA = workerA
  workerB = workerB
  refund = refund
  topUp = topUp
  ann = ann
  bob = bob
  Keys = {key, stat}
  Known = {key, stat}
  Swept = {key}
  Readers = {first, second}
  Calls <- ReaderCalls
  PendingCap = 1
  MaxWrites = 2
  MaxOutages = 1
  MaxRestarts = 1
  NoEntry = NoEntry
  NoLock = NoLock
  Masks = {none, staff}
  NoPerms = none
  Lookups = {first, second}
  RoleTtl = 2
  NegativeTtl = 1
  Latency = 1
  NoRole = NoRole
  GlobalLimit = 2
  GlobalWindow = 2
  ActionLimit = 1
  ActionWindow = 3
  BanDuration = 2
  Letters = {first, second}
  Audience = 3
  BatchSize = 2
  Retries = 2
  NoLetter = NoLetter
  Watchers = {ann, bob}
  Restockers = {first, second}
  MaxTimes = 2
  Entries = {e1, e2, e3}
  MaxBuffered = 2
  Editors = {first, second}
  Loaders = {first, second}
  MaxEdits = 3
  MaxModeFlips = 1
  MaxBoots = 1
  NoEdit = NoEdit
  NoLoad = NoLoad
  NoMode = NoMode
  Jobs = {cartA, cartB, single, workerA, workerB, refund, topUp}
  JobOf <- SmallJobs
  MaxRetries = 2
  Nobody = Nobody
CHECK_DEADLOCK FALSE
INVARIANTS
  NoMaskedWrite
  OneComputationPerLock
  StaleRoleExpires
  ServicesTypeOK
  WindowBound
  BanIsEarned
  ReportIsTrue
  ToldOnce
  TrailComplete
  BlockListAgrees
  CyclesNeedASecondUser
PROPERTIES
  InvalidationsLand
