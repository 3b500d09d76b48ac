\* Two multipliers instead of eight.
CONSTANTS
  Clients = {"least", "wide"}
  Channels = 2
  MaxOffset = 20
  Word = 64
  Asked <- Offsets
  Program <- Programs
SPECIFICATION MultSpec
INVARIANTS MultTypeOK SilentIsSet RunsAfterReset
PROPERTIES NoFalseAlarm ProgramsEnd
