\* Three channels and three passes of the loop.
CONSTANTS
  NumTx = 3
  NumTransfers = 3
SPECIFICATION Spec
INVARIANTS TypeOK NoForeignClose DevicesOpen
\* The program ends.
CHECK_DEADLOCK FALSE
