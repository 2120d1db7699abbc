\* Requests of several files that overlap, then a file that grows old.
SPECIFICATION FairSpec
CONSTANTS
  None = None
  Hours = 2
  ResetHour = 1
  Codes = {c1, c2}
  Lines = {1, 2}
  Uploaders = {w1, w2}
  Senders = {w1, w2}
  Runners = {s1, s2}
  FileIds = {1, 2, 3}
  Retention = 1
  MaxBatch = 2
  MaxFiles = 3
  MaxNow = 2
  MaxImages = 2
  MaxFaults = 1
INVARIANTS FileStoreTypeOK OneFilePerDay DueInTime FilesOutliveTickets EvidenceKept
CONSTRAINT Focus
PROPERTIES UploadsFinish OldFilesGo
CHECK_DEADLOCK FALSE
