\* Three processes reset the logic while the driver is probed twice.
CONSTANTS
  Writers = {w1, w2, w3}
  MaxProbes = 2
SPECIFICATION Spec
INVARIANTS ReleasedAtRest UsesOnlyHeld
PROPERTIES EveryStoreReleases
