CONSTANTS
  Count = 2
  Cells = 2
  Times = {1, 3}
  DefaultTimeout = 2
SPECIFICATION Spec
INVARIANTS StatisticsInv FinalReportExact InterruptedReportOffByOne CrashOnlyInFirstAck
CHECK_DEADLOCK FALSE
