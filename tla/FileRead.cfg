SPECIFICATION Spec
CONSTANTS
  Packets <- MCPackets
  Times = {1, 2, 3}
  DataStart = 1
  MaxPackets = 3
  NoTime = NoTime
CHECK_DEADLOCK FALSE
INVARIANTS
  FormatsAgree
  ClosedReadsBack
  CrashKeepsWholePackets
  SeriesExactIfSorted
