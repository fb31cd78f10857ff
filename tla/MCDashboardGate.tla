--------------------------- MODULE MCDashboardGate ---------------------------
(* Controller versions for checking the gate.  Build numbers are abstracted
   to small integers: they are only ever compared with an unwritten slot.  *)
EXTENDS DashboardGate

\* CB3 3.15.7, CB3 exactly at the 3.12 threshold, e-series 5.4.1 (below the
\* 5.6.0 commands), 5.9.4 and a three-field "5.6.0" as in spec.md 8.8.
MCVersions ==
  {Ver(<<3, 15, 7, 1>>), Ver(<<3, 12, 0, 1>>), Ver(<<5, 4, 1, 1>>),
   Ver(<<5, 9, 4, 1>>), Ver(<<5, 6, 0>>)}

\* The same with a PolyScope 10 controller, whose major has two digits.
MCVersionsTen == MCVersions \cup {Ver(<<10, 1, 0, 1>>)}
==============================================================================
