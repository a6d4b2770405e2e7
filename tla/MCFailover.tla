----------------------------- MODULE MCFailover -----------------------------
(* Two calls in flight, a primary and two backups, one of which comes and  *)
(* goes.                                                                   *)
EXTENDS Failover

CONSTANTS g1, g2, p, b1, b2

MCCall     == {g1, g2}
MCEndpoint == {p, b1, b2}

\* What the /servers answers leave as backups: the list grows from the primary
\* alone to both backups and shrinks again.
MCBackups == {<<b1>>, <<b1, b2>>}
=============================================================================
