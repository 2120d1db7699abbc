\* A sheet whose SF numbers are not the lines' own numbers.
SPECIFICATION Spec
CONSTANTS
  None = None
  Dash = Dash
  Postponed = Postponed
  won = won
  lost = lost
  Seqs = {1, 2}
  Plays = {"SPF", "SF"}
  Results = {won, lost, Dash, Postponed}
  SPs = {1}
  Tickets = {t1, t2}
  Bets <- MCBets
  Workers = {w1, w2}
  Sheets <- SFSheets
  Images = {i1}
  RecordIds = {1}
  MaxFiles = 1
  Requests = {"upload"}
PROPERTY SheetFullyStored
CHECK_DEADLOCK FALSE
