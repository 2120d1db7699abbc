\* Every operation; administrator operations and the expiry job run alone.
SPECIFICATION Spec
CONSTANTS
  f1 = f1
  f2 = f2
  u1 = u1
  u2 = u2
  None = None
  Tickets = {2, 3}
  Files = {f1, f2}
  Users = {u1, u2}
  Devices = {d1}
  Workers = {w1, w2}
  FileOf <- MCFileOf
  Deadline <- SameDeadline
  NoDeadline = {}
  LotteryType <- TwoTypes
  ClientMode <- MixedModes
  Blocked <- FirstBlocks0
  DailyLimit <- NoLimit
  MaxProcessing <- NoLimit
  Reserve = 0
  MaxAttempts = 2
  MaxBatch = 2
  MaxNow = 1
  MayFail = FALSE
  Kinds = {"next", "stop", "download", "confirm", "recycle", "revoke", "expire", "import"}
SYMMETRY WorkerSymmetry
CONSTRAINT MaintenanceAlone
INVARIANTS CountersExact BlockedNeverHeld
