\* A range gate beyond 31.
CONSTANTS
  Processes = {p1}
  Inputs <- Gates
  MayOpenReadOnly = FALSE
  MayFailToOpen = FALSE
SPECIFICATION Spec
INVARIANTS GateKept
