\* Two processes, which set, get and apply at any moment; the device may fail to
\* open for some.
CONSTANTS
  Processes = {p1, p2}
  Inputs <- Limits
  MayOpenReadOnly = TRUE
  MayFailToOpen = TRUE
SPECIFICATION Spec
INVARIANTS TypeOK RoundTrips
PROPERTIES ApplyTakesEffect
SYMMETRY Symmetry
