---------------------------- MODULE MCConnection ----------------------------
(* The values of the checked instances of Connection.                      *)
EXTENDS ConnectionClaims

\* def.h: 10 ms, 100 ms, no latency, 4 s.
PreferredDef == [min |-> 8, max |-> 80, latency |-> 0, timeout |-> 400]

\* One acceptable interval and one that is not.
IntervalsDef == {40, 160}

Input(f, v) == [field |-> f, value |-> v]

NoInputs == {}

\* Values that lead out of the preferred range, which the SoftDevice takes alone
\* or only together, and a value that it never takes.
ReportInputs == {Input("min", 200), Input("max", 200), Input("latency", 700)}
=============================================================================
