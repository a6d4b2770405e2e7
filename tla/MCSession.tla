----------------------------- MODULE MCSession -----------------------------
(* Two goroutines (a collector's and a performance worker's) on one        *)
(* endpoint, and SSV issuing a handful of sessions.                        *)
EXTENDS Session

CONSTANTS g1, g2

MCCaller    == {g1, g2}
MCAllFaults == FaultKind
MCExpiry    == {"expire"}
=============================================================================
