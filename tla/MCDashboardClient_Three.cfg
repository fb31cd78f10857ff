CONSTANTS
  Uninit = Uninit
  NoThread = NoThread
  t1 = t1
  t2 = t2
  t3 = t3
  Threads <- MCTriThreads
  Owner = t1
  Script <- MCTriScript
  CallersWaitForConnect = TRUE
  Controller <- MCController
  DefaultWaitTicks = 1
  RetryWaitTicks = 1
  PowerOnTimeout = 2
  SetupMayFail = FALSE
  GreetingDelays = {"fast"}
  ServerMayStall = TRUE
SPECIFICATION Spec
SYMMETRY MCTriSymmetry
INVARIANTS WireOnlySupported ExchangeExclusive VersionCachedBeforeWire
PROPERTIES RepliesAttributed
