-------------------------- MODULE MCDashboardClient --------------------------
(* Instances of DashboardClient for TLC. *)
EXTENDS DashboardClient

CONSTANTS t1, t2, t3

\* An e-series controller reporting "URSoftware 5.9.4.1 (...)".
MCController == Ver(<<5, 9, 4, 1>>)

\* Two threads sharing the client: t1 connects, powers on and reads the
\* operational mode; t2 powers off, tries a CB3-only command, and disconnects.
MCThreads == {t1, t2}
MCScript ==
  [t \in MCThreads |->
     IF t = t1 THEN <<ConnectCall, CommandPowerOn, CommandGetOperationalMode>>
     ELSE <<CommandPowerOff, CommandSetUserRole, DisconnectCall>>]

\* One thread: connect, a flight report, a reconnect, power off, a CB3-only
\* probe, a fresh version query, disconnect.
MCSeqThreads == {t1}
MCSeqScript ==
  [t \in MCSeqThreads |->
     <<ConnectCall, CommandGenerateFlightReport, ConnectCall, CommandPowerOff,
       CommandGetUserRole, CommandPolyscopeVersion, DisconnectCall>>]

\* t1 connects and generates a flight report while t2 reads the robot mode.
MCLongRaceScript ==
  [t \in MCThreads |->
     IF t = t1 THEN <<ConnectCall, CommandGenerateFlightReport>>
     ELSE <<CommandRobotMode>>]

\* One thread: connect, then power on with a one-attempt budget.
MCPowerOnScript == [t \in MCSeqThreads |-> <<ConnectCall, CommandPowerOn>>]

\* t1 connects while t2 calls a command only CB3 controllers support.
MCVariantRaceScript ==
  [t \in MCThreads |->
     IF t = t1 THEN <<ConnectCall>> ELSE <<CommandSetUserRole>>]

\* Three threads: t1 connects, reads the robot mode and disconnects; t2 and
\* t3 run the same calls (a status read, a CB3-only command, then a fresh
\* version query) and
\* are interchangeable, so their permutations are a sound symmetry for the
\* safety properties.
MCTriThreads == {t1, t2, t3}
MCTriScript ==
  [t \in MCTriThreads |->
     IF t = t1 THEN <<ConnectCall, CommandRobotMode, DisconnectCall>>
     ELSE <<CommandRobotMode, CommandSetUserRole, CommandPolyscopeVersion>>]
MCTriSymmetry == Permutations({t2, t3})
==============================================================================
