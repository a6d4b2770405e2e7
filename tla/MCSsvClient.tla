---------------------------- MODULE MCSsvClient ----------------------------
(* Two calls, a primary and a backup that comes and goes and comes again;  *)
(* the answers repeat it, and name the primary's and an unusable address.  *)
EXTENDS SsvClient

CONSTANTS g1, g2, p, b1, x

MCCall     == {g1, g2}
Calls      == Permutations(MCCall)
MCEndpoint == {p, b1}
MCUnusable == {x}
MCAddressLists == {<<p, x>>, <<x, b1, b1, p>>}
=============================================================================
