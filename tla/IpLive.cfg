\* Nothing fails: up to 5 windows of 2 packets, one answer for 3 packets, two
\* buffers for each of 3 channels.
CONSTANTS
  NumChannels = 3
  TxBufferCount = 2
  SamplesPerBuffer = 2
  Arguments = {2, 4, 5}
  FaultStatuses = {}
  FileMayFail = FALSE
  InitMayFail = FALSE
  RxBufferCount = 2
  PacksPerBuffer = 2
  Decimation = 3
  Word = 64
  FlushPeriod = 10
  RxFaultStatuses = {}
  MayDetectNothing = FALSE
SPECIFICATION IpFairSpec
INVARIANTS IpTypeOK NothingLost InStep FramesInOrder
PROPERTIES Ends Parts WritesOnlyOwned MovesOn
\* The program ends.
CHECK_DEADLOCK FALSE
