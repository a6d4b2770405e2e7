----------------------------- MODULE MCStartup -----------------------------
(* Two settings: one that is required and has an environment variable, as  *)
(* -url has, and -listen, which is neither.                                *)
EXTENDS Startup

CONSTANTS url, listen

MCSetting    == {url, listen}
MCEnvSetting == {url}
=============================================================================
