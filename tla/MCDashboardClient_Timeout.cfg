CONSTANTS
  Uninit = Uninit
  NoThread = NoThread
  t1 = t1
  t2 = t2
  t3 = t3
  Threads <- MCSeqThreads
  Owner = t1
  Script <- MCSeqScript
  CallersWaitForConnect = TRUE
  Controller <- MCController
  DefaultWaitTicks = 2
  RetryWaitTicks = 1
  PowerOnTimeout = 1
  SetupMayFail = TRUE
  GreetingDelays = {"fast"}
  ServerMayStall = TRUE
SPECIFICATION Spec
INVARIANTS OrdinaryReadsUseDefaultTimeout
