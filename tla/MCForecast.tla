---------------------------- MODULE MCForecast ----------------------------
(* Instances of Forecast for TLC: slots of two units, curves of up to three *)
(* points in one of two attribute groups, and a change of the UTC offset in *)
(* the middle of the day.                                                   *)
EXTENDS Forecast

\* The clocks go forward at instant 4 by three units.
SpringOffset == [t \in Times |-> IF t < 4 THEN 1 ELSE 4]

\* Lists that are empty, cannot be parsed, or are published out of order, and
\* every ascending one of three points.  The second group always has prices,
\* except in one curve that has none at all.
Ascending == {<<p, q, r>> : p, q, r \in Times}
Lists ==
    {<<>>, <<Bad>>, <<3>>, <<Bad, 2, 4>>, <<5, 1, 3>>}
      \cup {s \in Ascending : s[1] < s[2] /\ s[2] < s[3]}
MCCurves == {<<s, <<0, 2, 4, 6>>>> : s \in Lists} \cup {<< <<>>, <<Bad>> >>}

MCPVs == {<<>>, <<[at |-> 1, kw |-> 2], [at |-> 4, kw |-> -1]>>, <<[at |-> 2, kw |-> 3]>>}

MCManuals == {[len |-> 0, res |-> 1], [len |-> 1, res |-> 2], [len |-> 3, res |-> 3]}
=============================================================================
