CONSTANTS
  Callers = {a, b}
  Configs <- Edits
  WritesMayFail = TRUE
  None = None
  old = old
  new = new
SPECIFICATION FairSpec
INVARIANTS RowsMatchKeys FetchesAreGuarded
PROPERTY CallsEnd
