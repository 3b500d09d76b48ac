\* Ctrl+C during the transmit loop.
CONSTANTS
  NumChannels = 2
  TxBufferCount = 1
  SamplesPerBuffer = 2
  Arguments = {4}
  FaultStatuses = {}
  FileMayFail = FALSE
  InitMayFail = FALSE
  RxBufferCount = 2
  PacksPerBuffer = 2
  Decimation = 3
  Word = 64
  FlushPeriod = 10
  RxFaultStatuses = {}
  MayDetectNothing = FALSE
SPECIFICATION IpFairSpec
PROPERTIES StopsOnExit
\* The program ends.
CHECK_DEADLOCK FALSE
