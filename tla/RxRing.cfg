\* Fewer and more transfers than buffers, no number and a negative one; faults at
\* any time.
CONSTANTS
  BufferCount = 3
  Numbers <- RingNumbers
  MaxPackets = 8
  FlushPeriod = 3
  FaultStatuses = {"PROXY_TIMEOUT"}
SPECIFICATION Spec
INVARIANTS RingFull CleanStop DumpInOrder LossBounded RxInv
PROPERTIES StartsOnlyOwned SinkSpec
\* The thread ends.
CHECK_DEADLOCK FALSE
