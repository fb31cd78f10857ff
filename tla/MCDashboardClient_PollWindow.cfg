CONSTANTS
  Uninit = Uninit
  NoThread = NoThread
  t1 = t1
  t2 = t2
  t3 = t3
  Threads <- MCSeqThreads
  Owner = t1
  Script <- MCPowerOnScript
  CallersWaitForConnect = TRUE
  Controller <- MCController
  DefaultWaitTicks = 2
  RetryWaitTicks = 10
  PowerOnTimeout = 1
  SetupMayFail = FALSE
  GreetingDelays = {"fast"}
  ServerMayStall = FALSE
SPECIFICATION Spec
INVARIANTS PollAttemptsWithinWindow
