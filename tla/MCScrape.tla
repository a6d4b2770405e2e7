------------------------------ MODULE MCScrape ------------------------------
(***************************************************************************)
(* Two overlapping scrapes of a group of one server, next to a group whose *)
(* server is listed later; with two pools, that is three jobs, and workers *)
(* for two of them.                                                        *)
(***************************************************************************)
EXTENDS Scrape

CONSTANTS s1, s2, n1, f1, p1, p2

MCScrapes  == {s1, s2}
MCNode     == {n1, f1}
MCTimeline == <<{n1}, {n1, f1}>>
MCLocal    == {n1}
MCObject   == {p1, p2}

\* The two collectors with a mutex, or the one with workers.  main registers all
\* three; what a scrape's collectors share is only the wait for their end.
MCRegistered == {Guarded, {"performance"}}
=============================================================================
