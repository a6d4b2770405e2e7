---------------------------- MODULE MCExportJobs ----------------------------
(* Two exports into two files, one browser, one restart.                   *)
EXTENDS ExportJobs, TLC

CONSTANTS r1, r2, a, b, d1

MCRun    == {r1, r2}
MCPath   == {a, b}
\* The runs write to one file or to two; which of the two the first run has does
\* not matter.
MCChoice == (r1 :> {a}) @@ (r2 :> {a, b})

MCReader == {d1}
MCFault  == FaultKind
MCNone   == {}
=============================================================================
