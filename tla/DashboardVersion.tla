--------------------------- MODULE DashboardVersion ---------------------------
(***************************************************************************)
(* The version arithmetic of DashboardClient (src/src/ur/dashboard_client.cpp):
   parseSWVersion, lessThanVersion and the variant test of
   commandPolyscopeVersion, and, beside them, the rule spec.md (4.3) states
   for the VersionGate, so that the two can be compared.

   A version string is abstracted to its leading dotted integer fields and a
   flag telling whether a non-numeric word follows the last '.', as in the
   sentinel thresholds "10. Only available on e-series robot".  Characters
   are not modelled: parseSWVersion only ever sees these two shapes.

   parseSWVersion fills an int[4] with operator>> on an istringstream.  A
   field the stream cannot reach because it already failed or hit EOF is
   never written, so the slot keeps the uninitialised stack value (model
   value Uninit).  Comparing such a slot is undefined behaviour; every
   outcome the build can produce (less, equal, greater) is kept.           *)
(***************************************************************************)
EXTENDS Integers, Sequences

CONSTANT Uninit   \* an int slot of parsedRef/parsedC that was never written

\* A version string: its leading integer fields and whether a word follows.
VersionString(nums, word) == [nums |-> nums, word |-> word]

\* A plain dotted version such as "5.0.0" or "3.12".
Ver(nums) == VersionString(nums, FALSE)

\* The sentinel thresholds "10. Only available on ... robot".
OnlyOnOther == VersionString(<<10>>, TRUE)

\* polyscope_version_ before the first successful commandPolyscopeVersion: "".
NoVersion == VersionString(<<>>, FALSE)

(***************************************************************************)
(* parseSWVersion (lines 198-207).  parser >> result[0]; then three times
   get() to skip the period and >> result[idx].  A field present in the
   string is read.  The first field after the numbers is written with 0
   only when num_get actually runs and fails on a word (the sentinel case);
   at EOF the sentry fails first and the slot is left untouched.            *)
(***************************************************************************)
ParseSWVersion(s) ==
  [i \in 1..4 |->
     IF i <= Len(s.nums) THEN s.nums[i]
     ELSE IF s.word /\ i = Len(s.nums) + 1 THEN 0
     ELSE Uninit]

\* The outcomes of comparing two int slots, either of which may be unwritten.
SlotOrder(x, y) ==
  IF x = Uninit \/ y = Uninit THEN {"lt", "eq", "gt"}
  ELSE IF x < y THEN {"lt"} ELSE IF x = y THEN {"eq"} ELSE {"gt"}

(***************************************************************************)
(* std::lexicographical_compare(a, a + 4, b, b + 4) from index i: the set of
   results the build can produce.                                          *)
(***************************************************************************)
RECURSIVE LexCompare(_, _, _)
LexCompare(a, b, i) ==
  IF i > 4 THEN {FALSE}
  ELSE UNION {CASE o = "lt" -> {TRUE}
                [] o = "gt" -> {FALSE}
                [] o = "eq" -> LexCompare(a, b, i + 1) : o \in SlotOrder(a[i], b[i])}

\* Regression variant: the ternary picking the threshold written the other way.
LessThanVersionSwapped(a, b, c, eSeries) ==
  LET refs == CASE eSeries = TRUE  -> {b}
                [] eSeries = FALSE -> {a}
                [] OTHER           -> {a, b}
  IN  UNION {LexCompare(ParseSWVersion(ref), ParseSWVersion(c), 1) : ref \in refs}

(***************************************************************************)
(* lessThanVersion(a, b, c) (lines 209-221): ref = e_series_ ? a : b, then
   ref < c.  TRUE admits the command; FALSE makes lessThanVersion throw
   UrException.  e_series_ is an uninitialised bool until the first version
   query, so eSeries may be Uninit and then either threshold is used.       *)
(***************************************************************************)
LessThanVersion(a, b, c, eSeries) ==
  LET refs == CASE eSeries = TRUE  -> {a}
                [] eSeries = FALSE -> {b}
                [] OTHER           -> {a, b}
  IN  UNION {LexCompare(ParseSWVersion(ref), ParseSWVersion(c), 1) : ref \in refs}

(***************************************************************************)
(* stoi(polyscope_version_.substr(0, 1)): the leading decimal digit.        *)
(***************************************************************************)
RECURSIVE LeadingDigit(_)
LeadingDigit(n) == IF n < 10 THEN n ELSE LeadingDigit(n \div 10)

\* Regression variant: e_series_ assigned the stoi result without ">= 5".
IsESeriesDigit(v) == LeadingDigit(v.nums[1])

\* e_series_ as commandPolyscopeVersion sets it (line 367).
IsESeries(v) == LeadingDigit(v.nums[1]) >= 5

-----------------------------------------------------------------------------
(***************************************************************************)
(* The VersionGate of spec.md 4.3, the reference the code is compared with:
   a version is a 4-tuple with missing fields 0, the variant is ESeries iff
   major >= 5, a sentinel threshold means "unsupported on this variant", and
   a command is supported iff version >= threshold lexicographically.       *)
(***************************************************************************)
ZeroFilled(s) == [i \in 1..4 |-> IF i <= Len(s.nums) THEN s.nums[i] ELSE 0]

RECURSIVE TupleGeq(_, _, _)
TupleGeq(x, y, i) ==
  IF i > 4 THEN TRUE
  ELSE IF x[i] # y[i] THEN x[i] > y[i] ELSE TupleGeq(x, y, i + 1)

SpecESeries(v) == v.nums[1] >= 5

SpecSupported(a, b, v) ==
  LET ref == IF SpecESeries(v) THEN a ELSE b
  IN  /\ v # NoVersion
      /\ ~ref.word
      /\ TupleGeq(ZeroFilled(v), ZeroFilled(ref), 1)
=============================================================================
