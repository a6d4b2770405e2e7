------------------------------ MODULE MCImport ------------------------------
(***************************************************************************)
(* Files of up to six lines with up to three series of one metric: in the  *)
(* order of Export, mixed, with series that only the group tells apart,    *)
(* with and without the "# EOF", and with samples after it.                *)
(***************************************************************************)
EXTENDS Import

Line(g, i, t) ==
    [kind |-> "sample", time |-> t,
     labels |-> IF g = "" THEN <<<<"inst", i>>>> ELSE <<<<"group", g>>, <<"inst", i>>>>]
Other == [kind |-> "other", labels |-> << >>, time |-> 0]
EOF   == [kind |-> "eof", labels |-> << >>, time |-> 0]

MCFiles == {
    <<Other, Line("g1", "x", 1), Line("g1", "x", 2), Line("g1", "y", 1), Line("g1", "y", 2), EOF>>,
    <<Line("g1", "x", 1), Line("g1", "y", 1), Other, Line("g1", "x", 2), Line("g1", "z", 1)>>,
    <<Line("g1", "x", 1), Line("g2", "x", 1), Line("", "x", 1), EOF>>,
    <<Line("", "x", 1), Line("", "y", 1), Line("", "x", 2), EOF, Line("", "z", 1)>>,
    <<Other, EOF>>}
MCGroups == {"", "g3"}
MCBatchSizes == {1, 2, 3}
=============================================================================
