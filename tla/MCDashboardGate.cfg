CONSTANTS
  Uninit = Uninit
  NoGate = NoGate
  ControllerVersions <- MCVersions
SPECIFICATION Spec
INVARIANTS TypeOK GateSound
