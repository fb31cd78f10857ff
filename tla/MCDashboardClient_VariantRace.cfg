CONSTANTS
  Uninit = Uninit
  NoThread = NoThread
  t1 = t1
  t2 = t2
  t3 = t3
  Threads <- MCThreads
  Owner = t1
  Script <- MCVariantRaceScript
  CallersWaitForConnect = FALSE
  Controller <- MCController
  DefaultWaitTicks = 1
  RetryWaitTicks = 1
  PowerOnTimeout = 2
  SetupMayFail = FALSE
  GreetingDelays = {"fast"}
  ServerMayStall = FALSE
SPECIFICATION Spec
INVARIANTS WireOnlySupported
