\* Administrators and the expiry job against a mode-A user.
SPECIFICATION Spec
CONSTANTS
  f1 = f1
  f2 = f2
  u1 = u1
  u2 = u2
  None = None
  Tickets = {2, 3}
  Files = {f1, f2}
  Users = {u1}
  Devices = {d1}
  Workers = {w1, w2}
  FileOf <- MCFileOf
  Deadline <- SameDeadline
  NoDeadline = {}
  LotteryType <- OneType
  ClientMode <- AllModeA
  Blocked <- NothingBlocked
  DailyLimit <- NoLimit
  MaxProcessing <- NoLimit
  Reserve = 0
  MaxAttempts = 2
  MaxBatch = 2
  MaxNow = 1
  MayFail = TRUE
  Kinds = {"next", "recycle", "revoke", "expire", "import"}
SYMMETRY WorkerSymmetry
INVARIANTS TypeOK WrittenRowsStillMatch RevokedFileInert
PROPERTIES ImplementsLifecycle DriftsOnlyByStaleRead
