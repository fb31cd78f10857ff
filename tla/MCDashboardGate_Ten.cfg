CONSTANTS
  Uninit = Uninit
  NoGate = NoGate
  ControllerVersions <- MCVersionsTen
SPECIFICATION Spec
INVARIANTS GateSound
