\* Image uploads, checks and a calculation at the same time.
SPECIFICATION Spec
CONSTANTS
  None = None
  Dash = Dash
  Postponed = Postponed
  won = won
  lost = lost
  Seqs = {1}
  Plays = {"SPF", "SF"}
  Results = {won, lost, Dash, Postponed}
  SPs = {1}
  Tickets = {t1, t2}
  Bets <- MCBets
  Workers = {w1, w2}
  Sheets <- MoreSheets
  Images = {i1, i2}
  RecordIds = {1, 2}
  MaxFiles = 1
  Requests = {"upload", "image", "check"}
SYMMETRY WorkerTicketSymmetry
INVARIANT FinalDecidesFirst
PROPERTY SettledEvidenceStays
CHECK_DEADLOCK FALSE
