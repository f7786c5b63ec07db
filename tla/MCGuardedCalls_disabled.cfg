CONSTANTS
  Callers = {a}
  Configs <- Toggles
  WritesMayFail = FALSE
  None = None
  old = old
  new = new
SPECIFICATION Spec
PROPERTY DisabledDrains
