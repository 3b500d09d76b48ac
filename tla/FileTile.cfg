\* All files of up to 6 lines; 4 windows of 2 samples reach behind the end.
CONSTANTS
  NumChannels = 2
  Window = 2
  MaxLines = 6
  MaxWindows = 4
SPECIFICATION Spec
INVARIANTS TypeOK WindowsTile
\* main() stops reading.
CHECK_DEADLOCK FALSE
