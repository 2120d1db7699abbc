\* Mode-B users download at the same time.
SPECIFICATION Spec
CONSTANTS
  f1 = f1
  f2 = f2
  u1 = u1
  u2 = u2
  None = None
  Tickets = {1, 2, 3, 4}
  Files = {f1, f2}
  Users = {u1, u2}
  Devices = {d1}
  Workers = {w1, w2}
  FileOf <- MCFileOf
  Deadline <- SameDeadline
  NoDeadline = {}
  LotteryType <- TwoTypesReversed
  ClientMode <- AllModeB
  Blocked <- FirstBlocks0
  DailyLimit <- NoLimit
  MaxProcessing <- LimitTwo
  Reserve = 1
  MaxAttempts = 2
  MaxBatch = 2
  MaxNow = 1
  MayFail = FALSE
  Kinds = {"download", "import"}
SYMMETRY WorkerSymmetry
INVARIANTS ProcessingWithinLimit BatchOfOneType PreviewHonest StatusHonest
PROPERTY BatchLeavesReserve
