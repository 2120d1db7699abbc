\* Uploads of both kinds, recalculations and checks at the same time.
SPECIFICATION Spec
CONSTANTS
  None = None
  Dash = Dash
  Postponed = Postponed
  won = won
  lost = lost
  Seqs = {1}
  Plays = {"SPF", "SF"}
  Results = {won, lost, Dash, Postponed}
  SPs = {1}
  Tickets = {t1, t2}
  Bets <- MCBets
  Workers = {w1, w2}
  Sheets <- MCSheets
  Images = {i1}
  RecordIds = {1}
  MaxFiles = 2
  Requests = {"upload", "recalc", "check"}
SYMMETRY WorkerTicketSymmetry
INVARIANTS CalcTypeOK NoSheetLost CalculatesItsOwnFile ImagesInSync
PROPERTIES EntriesStay
CHECK_DEADLOCK FALSE
