\* 12 and 20 are beyond the registers (20 is 4 modulo Word), 6 is between two of
\* them.
CONSTANTS
  Clients = {c1, c2}
  MaxOffset = 8
  Word = 16
  Asked = {0, 4, 8, 6, 12, 20}
SPECIFICATION Spec
INVARIANTS NothingLeaks NodeServed NoUseAfterFree InBounds LandsWhereAsked
