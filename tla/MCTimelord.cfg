SPECIFICATION Spec
CONSTANTS
  SECONDS_TO_PING = 2
  WAIT_PONG_TIMEOUT_SECONDS = 1
  CalcInterval = 1
  MaxLag = 1
  MaxReady = 1
  MaxSending = 2
  MaxDue = 1
INVARIANTS OneWrite WaitTimerIsOwn
PROPERTIES DeadPeerReported ConnectIsAnswered ExitEnds
CHECK_DEADLOCK FALSE
