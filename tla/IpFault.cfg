\* Waits fail, answers are missing, the hardware may be stuck, the file may be
\* missing.
CONSTANTS
  NumChannels = 2
  TxBufferCount = 1
  SamplesPerBuffer = 2
  Arguments = {0, 1, 2}
  FaultStatuses = {"PROXY_TIMEOUT"}
  FileMayFail = TRUE
  InitMayFail = TRUE
  RxBufferCount = 2
  PacksPerBuffer = 2
  Decimation = 3
  Word = 64
  FlushPeriod = 10
  RxFaultStatuses = {"PROXY_TIMEOUT"}
  MayDetectNothing = TRUE
SPECIFICATION IpWaitSpec
INVARIANTS Accounted NeverBackwards
PROPERTIES Ends MeasurementSpec
\* The program ends.
CHECK_DEADLOCK FALSE
