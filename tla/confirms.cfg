\* A mode-B user confirms on two devices while an administrator recycles.
SPECIFICATION Spec
CONSTANTS
  f1 = f1
  f2 = f2
  u1 = u1
  u2 = u2
  None = None
  Tickets = {2, 3}
  Files = {f1, f2}
  Users = {u1}
  Devices = {d1, d2}
  Workers = {w1, w2}
  FileOf <- MCFileOf
  Deadline <- LateDeadline
  NoDeadline = {}
  LotteryType <- OneType
  ClientMode <- AllModeB
  Blocked <- NothingBlocked
  DailyLimit <- NoLimit
  MaxProcessing <- NoLimit
  Reserve = 0
  MaxAttempts = 2
  MaxBatch = 2
  MaxNow = 0
  MayFail = FALSE
  Kinds = {"download", "confirm", "recycle", "import"}
SYMMETRY WorkerDeviceSymmetry
INVARIANT ClosesOwnDevice
PROPERTY ImplementsLifecycle
