----------------------------- MODULE MCService -----------------------------
(* Two scrapes in flight, which is what two Prometheus servers, or one and *)
(* an operator's browser, cause; the primary, whose session may be opened  *)
(* twice, and a backup that comes and goes.                                *)
EXTENDS Service, TLC

CONSTANTS s1, s2, p, b, e1, e2, e3

MCScrape  == {s1, s2}
MCObject  == {p, b}
MCSession == {e1, e2, e3}
MCOf      == (e1 :> p) @@ (e2 :> p) @@ (e3 :> b)
=============================================================================
