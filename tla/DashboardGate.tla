---------------------------- MODULE DashboardGate ----------------------------
(***************************************************************************)
(* The VersionGate of one DashboardClient on its own: the version cache that
   commandPolyscopeVersion fills (polyscope_version_, e_series_) and the
   lessThanVersion check every command* method makes first.  The exchange
   that fetches the version is abstracted to its reply; DashboardClient
   composes the gate with the exchanges.

   The properties compare the code's gate with the rule of spec.md 4.3
   (DashboardVersion!SpecSupported) over every catalog command and every
   controller version of the model.                                        *)
(***************************************************************************)
EXTENDS DashboardCatalog

CONSTANTS ControllerVersions,  \* versions a controller may report
          NoGate               \* no gate check since the version was cached

VARIABLES polyscopeVersion,    \* polyscope_version_
          eSeries,             \* e_series_ (Uninit before the first query)
          lastGate             \* the last gate check and its result

vars == <<polyscopeVersion, eSeries, lastGate>>

Init ==
  /\ polyscopeVersion = NoVersion
  /\ eSeries = Uninit
  /\ lastGate = NoGate

\* Regression variant: the substr length misses " (", so the date is kept.
RecordVersionWithDate(v) ==
  /\ polyscopeVersion' = VersionString(v.nums, TRUE)
  /\ eSeries' = IsESeries(v)
  /\ lastGate' = NoGate

(***************************************************************************)
(* commandPolyscopeVersion (lines 361-369) after its exchange returned
   "URSoftware <v> (<date>)": the text between the first space and " (" is
   cached and e_series_ is set from its first character.                   *)
(***************************************************************************)
RecordVersion(v) ==
  /\ polyscopeVersion' = v
  /\ eSeries' = IsESeries(v)
  /\ lastGate' = NoGate

(***************************************************************************)
(* The first statement of a command* method: lessThanVersion(a, b,
   polyscope_version_).  admitted = FALSE is the UrException it throws.     *)
(***************************************************************************)
CheckGate(c) ==
  /\ \E r \in LessThanVersion(c.a, c.b, polyscopeVersion, eSeries) :
        lastGate' = [cmd |-> c, admitted |-> r]
  /\ UNCHANGED <<polyscopeVersion, eSeries>>

Next ==
  \/ \E v \in ControllerVersions : RecordVersion(v)
  \/ \E c \in Catalog : CheckGate(c)

Spec == Init /\ [][Next]_vars

-----------------------------------------------------------------------------
TypeOK ==
  /\ polyscopeVersion \in ControllerVersions \cup {NoVersion}
  /\ eSeries \in BOOLEAN \cup {Uninit}
  /\ lastGate \in [cmd : Catalog, admitted : BOOLEAN] \cup {NoGate}

\* True when a gate check was made against a cached controller version.
Checked == lastGate # NoGate /\ polyscopeVersion # NoVersion

(***************************************************************************)
(* GateSound: once a version is cached, lessThanVersion admits a command
   only if spec.md 4.3 says the controller supports it, for every value the
   uninitialised slots of parseSWVersion may hold.  Breaks if the variant
   is derived wrongly (the first-character stoi) or the thresholds are
   compared the wrong way.                                                  *)
(***************************************************************************)
GateSound ==
  Checked /\ lastGate.admitted =>
     SpecSupported(lastGate.cmd.a, lastGate.cmd.b, polyscopeVersion)

(***************************************************************************)
(* GateComplete: a command the controller supports by spec.md 4.3 is
   admitted.  It fails where lessThanVersion compares fields parseSWVersion
   never wrote, i.e. when the controller version equals the threshold on
   every field the threshold has.                                           *)
(***************************************************************************)
GateComplete ==
  Checked /\ SpecSupported(lastGate.cmd.a, lastGate.cmd.b, polyscopeVersion) =>
     lastGate.admitted

=============================================================================
