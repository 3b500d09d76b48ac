\* Two stores at once: the first cuts the pulse of the second short.
CONSTANTS
  Writers = {w1, w2}
  MaxProbes = 1
SPECIFICATION Spec
INVARIANTS LowWhileAsleep
