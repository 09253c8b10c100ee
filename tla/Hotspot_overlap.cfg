\* Two block requests overlap and nothing fails.
CHECK_DEADLOCK FALSE
SPECIFICATION Spec
CONSTANTS
  Macs = {a, b}
  Handlers = {g, h}
  MaxAge = 1
  Faults = {}
  MaxInputs = 2
INVARIANTS
  ListedIsEnforced
