CONSTANTS
  Uninit = Uninit
  NoThread = NoThread
  t1 = t1
  t2 = t2
  t3 = t3
  Threads <- MCThreads
  Owner = t1
  Script <- MCScript
  CallersWaitForConnect = TRUE
  Controller <- MCController
  DefaultWaitTicks = 1
  RetryWaitTicks = 1
  PowerOnTimeout = 2
  SetupMayFail = FALSE
  GreetingDelays = {"fast"}
  ServerMayStall = TRUE
SPECIFICATION Spec
INVARIANTS TypeOK WireOnlySupported ExchangeExclusive VersionCachedBeforeWire
PROPERTIES RepliesAttributed Termination CallsRefined
