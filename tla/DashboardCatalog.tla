--------------------------- MODULE DashboardCatalog ---------------------------
(***************************************************************************)
(* The command* methods of DashboardClient (dashboard_client.cpp 223-505),
   one descriptor per method: the two thresholds passed to lessThanVersion
   (e-series, CB3), the shape of the exchange that follows the gate, the
   wire command, the status query a waitForReply polls, what a reply that
   does not match does (sendRequest/sendRequestString throw; the methods
   that test "could not understand" or call sendAndReceive directly return
   false), and the receive timeout the long diagnostic commands install.

   Arguments (program names, popup text, ...) are not modelled: they only
   enter the wire text and the regular expression, and a reply either
   matches that expression or not.

   kind:  "request"      one sendRequest / sendRequestString
          "requestWait"  sendRequest, then waitForReply(query, ..., 30.0)
          "retry"        retryCommand(wire, ..., query, ..., timeout)
          "long"         setReceiveTimeout(timeout); sendRequest; reset to 1s *)
(***************************************************************************)
EXTENDS DashboardVersion

Cmd(name, a, b, kind, wire, query, mismatch, timeout) ==
  [name |-> name, a |-> a, b |-> b, kind |-> kind, wire |-> wire,
   query |-> query, mismatch |-> mismatch, timeout |-> timeout]

Request(name, a, b, wire) == Cmd(name, a, b, "request", wire, "none", "throw", 0)
Probe(name, a, b, wire)   == Cmd(name, a, b, "request", wire, "none", "false", 0)
Waiting(name, a, b, wire, query) == Cmd(name, a, b, "requestWait", wire, query, "throw", 0)

V500 == Ver(<<5, 0, 0>>)

CommandPowerOff == Waiting("PowerOff", V500, Ver(<<3, 0>>), "power off", "robotmode")
CommandPowerOn == Cmd("PowerOn", V500, Ver(<<3, 0>>), "retry", "power on", "robotmode", "throw", 0)
CommandBrakeRelease == Waiting("BrakeRelease", V500, Ver(<<3, 0>>), "brake release", "robotmode")
CommandLoadProgram == Waiting("LoadProgram", V500, Ver(<<1, 4>>), "load", "programState")
CommandLoadInstallation == Request("LoadInstallation", V500, Ver(<<3, 2>>), "load installation")
CommandPlay == Waiting("Play", V500, Ver(<<1, 4>>), "play", "programState")
CommandPause == Waiting("Pause", V500, Ver(<<1, 4>>), "pause", "programState")
CommandStop == Waiting("Stop", V500, Ver(<<1, 4>>), "stop", "programState")
CommandClosePopup == Request("ClosePopup", V500, Ver(<<1, 6>>), "close popup")
CommandCloseSafetyPopup == Request("CloseSafetyPopup", V500, Ver(<<3, 1>>), "close safety popup")
CommandRestartSafety == Waiting("RestartSafety", Ver(<<5, 1, 0>>), Ver(<<3, 7>>), "restart safety", "robotmode")
CommandUnlockProtectiveStop == Request("UnlockProtectiveStop", V500, Ver(<<3, 1>>), "unlock protective stop")
CommandShutdown == Request("Shutdown", V500, Ver(<<1, 4>>), "shutdown")
CommandQuit == Request("Quit", V500, Ver(<<1, 4>>), "quit")
CommandRunning == Request("Running", V500, Ver(<<1, 6>>), "running")
CommandIsProgramSaved == Request("IsProgramSaved", V500, Ver(<<1, 8>>), "isProgramSaved")
CommandIsInRemoteControl == Probe("IsInRemoteControl", Ver(<<5, 6, 0>>), OnlyOnOther, "is in remote control")
CommandPopup == Request("Popup", V500, Ver(<<1, 6>>), "popup")
CommandAddToLog == Request("AddToLog", V500, Ver(<<1, 8>>), "addToLog")
CommandGetRobotModel == Request("GetRobotModel", Ver(<<5, 6, 0>>), Ver(<<3, 12>>), "get robot model")
CommandGetSerialNumber == Request("GetSerialNumber", Ver(<<5, 6, 0>>), Ver(<<3, 12>>), "get serial number")
CommandRobotMode == Request("RobotMode", V500, Ver(<<1, 6>>), "robotmode")
CommandGetLoadedProgram == Request("GetLoadedProgram", V500, Ver(<<1, 6>>), "get loaded program")
CommandSafetyMode == Request("SafetyMode", V500, Ver(<<3, 0>>), "safetymode")
CommandSafetyStatus == Request("SafetyStatus", Ver(<<5, 4, 0>>), Ver(<<3, 11>>), "safetystatus")
CommandProgramState == Probe("ProgramState", V500, Ver(<<1, 8>>), "programState")
CommandGetOperationalMode == Probe("GetOperationalMode", Ver(<<5, 6, 0>>), OnlyOnOther, "get operational mode")
CommandSetOperationalMode == Request("SetOperationalMode", V500, OnlyOnOther, "set operational mode")
CommandClearOperationalMode == Request("ClearOperationalMode", V500, OnlyOnOther, "clear operational mode")
CommandSetUserRole == Request("SetUserRole", OnlyOnOther, Ver(<<1, 8>>), "setUserRole")
CommandGetUserRole == Probe("GetUserRole", OnlyOnOther, Ver(<<1, 8>>), "getUserRole")
CommandGenerateFlightReport == Cmd("GenerateFlightReport", Ver(<<5, 8, 0>>), Ver(<<3, 13>>), "long", "generate flight report", "none", "throw", 180)
CommandGenerateSupportFile == Cmd("GenerateSupportFile", Ver(<<5, 8, 0>>), Ver(<<3, 13>>), "long", "generate support file", "none", "throw", 600)

\* commandPolyscopeVersion (lines 361-369): no gate; it refreshes the cache.
CommandPolyscopeVersion == Cmd("PolyscopeVersion", NoVersion, NoVersion, "version", "PolyscopeVersion", "none", "throw", 0)

\* Every gated command method of the client.
Catalog ==
  {CommandPowerOff, CommandPowerOn, CommandBrakeRelease, CommandLoadProgram,
   CommandLoadInstallation, CommandPlay, CommandPause, CommandStop,
   CommandClosePopup, CommandCloseSafetyPopup, CommandRestartSafety,
   CommandUnlockProtectiveStop, CommandShutdown, CommandQuit, CommandRunning,
   CommandIsProgramSaved, CommandIsInRemoteControl, CommandPopup,
   CommandAddToLog, CommandGetRobotModel, CommandGetSerialNumber,
   CommandRobotMode, CommandGetLoadedProgram, CommandSafetyMode,
   CommandSafetyStatus, CommandProgramState, CommandGetOperationalMode,
   CommandSetOperationalMode, CommandClearOperationalMode, CommandSetUserRole,
   CommandGetUserRole, CommandGenerateFlightReport, CommandGenerateSupportFile}
=============================================================================
