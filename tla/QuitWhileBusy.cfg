SPECIFICATION Spec
CONSTANTS
  MaxCalls = 3
  AnswerLength <- MCAnswerLength
  kMaxPayload = 2
  Byte = 4
  kReadDeadline = 2
  kReadTimeout = 1
  kStopWait = 5
INVARIANTS QuickCallsOutlived
CHECK_DEADLOCK FALSE
