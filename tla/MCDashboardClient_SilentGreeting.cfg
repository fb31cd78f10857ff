CONSTANTS
  Uninit = Uninit
  NoThread = NoThread
  t1 = t1
  t2 = t2
  t3 = t3
  Threads <- MCSeqThreads
  Owner = t1
  Script <- MCPowerOnScript
  CallersWaitForConnect = TRUE
  Controller <- MCController
  DefaultWaitTicks = 1
  RetryWaitTicks = 1
  PowerOnTimeout = 2
  SetupMayFail = FALSE
  GreetingDelays = {"fast", "never"}
  ServerMayStall = TRUE
SPECIFICATION Spec
CHECK_DEADLOCK FALSE
PROPERTIES Termination
