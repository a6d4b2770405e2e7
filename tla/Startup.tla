------------------------------- MODULE Startup -------------------------------
(***************************************************************************)
(* How a process of the exporter starts (cmd/ssv-prom-exporter/main.go):   *)
(* where each setting gets its value, which mode is taken, and what        *)
(* -install and -uninstall leave in the Service Control Manager (SCM) and  *)
(* in the registry's event sources (internal/svc/svc_windows.go).          *)
(*                                                                         *)
(* Processes run one after the other: an operator's, with any flags and    *)
(* environment, or the service, which the SCM starts with the arguments    *)
(* -install baked.  A setting's value is told by where it comes from; the  *)
(* configuration file stays as it is.  What a serving process does is      *)
(* module Service's.                                                       *)
(***************************************************************************)
CONSTANTS
    Setting,     \* the flags that carry a setting
    EnvSetting,  \* those whose default is an environment variable
    Required,    \* -url, -user, -pass
    Listen       \* -listen

Mode == {"version", "install", "uninstall", "ping"}

ASSUME SettingAssumption ==
    EnvSetting \subseteq Setting /\ Required \subseteq Setting /\ Listen \in Setting

Source     == {"flag", "yaml", "env", "default"}
ConfigFrom == {"flag", "env", "none"}

VARIABLES
    file,     \* what the configuration file gives a value to
    readable, \* the configuration file is there and parses
    by,       \* who started the process: the operator or the SCM
    flags,    \* settings given on the command line (explicit)
    modes,    \* mode flags given on the command line
    env,      \* settings whose environment variable is set
    config,   \* where -config has its path from
    value,    \* where each setting has its value from
    phase,    \* how far the process is
    service,  \* SCM: is the service registered
    baked,    \* SCM: the arguments of the registered service
    source,   \* is the event source registered
    picked,   \* history: what the installing process ran with itself
    torn      \* history: a Delete that should roll an install back failed

procVars == <<by, flags, modes, env, config, value>>
scmVars  == <<service, baked, source, picked, torn>>
vars     == <<file, readable, procVars, phase, scmVars>>

Arguments == [flags : SUBSET Setting, modes : SUBSET Mode, config : BOOLEAN]
NoArgs    == [flags |-> {}, modes |-> {}, config |-> FALSE]

NoValue == [s \in Setting |-> "default"]

\* Whatever the environment and the file say, the command line has its way.
TypeOK ==
    /\ file \subseteq Setting /\ readable \in BOOLEAN
    /\ by \in {"operator", "scm"}
    /\ flags \subseteq Setting /\ modes \subseteq Mode /\ env \subseteq EnvSetting
    /\ config \in ConfigFrom
    /\ value \in [Setting -> Source] /\ \A s \in Setting : value[s] = "flag" <=> s \in flags
    /\ phase \in {"parsed", "merged", "created", "rollback", "deleted", "pinging", "serving", "exited"}
    /\ service \in BOOLEAN /\ baked \in Arguments /\ source \in BOOLEAN
    /\ picked \in [value : [Setting -> Source], config : ConfigFrom]
    /\ torn \in BOOLEAN

Init ==
    /\ file \in SUBSET Setting /\ readable \in BOOLEAN
    /\ by = "operator" /\ flags = {} /\ modes = {} /\ env = {} /\ config = "none"
    /\ value = NoValue
    /\ phase = "exited"
    /\ service = FALSE /\ baked = NoArgs /\ source = FALSE
    /\ picked = [value |-> value, config |-> "none"]
    /\ torn = FALSE

\* The process ends, and what it was started with is gone.
Exits ==
    /\ phase' = "exited"
    /\ by' = "operator" /\ flags' = {} /\ modes' = {} /\ env' = {} /\ config' = "none"
    /\ value' = NoValue

-----------------------------------------------------------------------------
(* Flags, environment and file                                             *)

\* flag.Parse: the environment provides the defaults.
Parsed ==
    value' = [s \in Setting |-> CASE s \in flags'         -> "flag"
                                  [] s \in env' \ flags'  -> "env"
                                  [] s \notin env' \cup flags' -> "default"]

\* An operator starts the program.
Launch ==
    /\ phase = "exited"
    /\ by' = "operator"
    /\ flags' \in SUBSET Setting
    /\ modes' \in SUBSET Mode
    /\ env' \in SUBSET EnvSetting
    /\ config' \in ConfigFrom
    /\ Parsed
    /\ phase' = "parsed"
    /\ UNCHANGED <<file, readable, scmVars>>

\* The SCM starts the service, in an environment of its own.
ServiceStarts ==
    /\ phase = "exited"
    /\ service
    /\ by' = "scm"
    /\ flags' = baked.flags
    /\ modes' = baked.modes
    /\ env' \in SUBSET EnvSetting
    /\ config' \in (IF baked.config THEN {"flag"} ELSE {"env", "none"})
    /\ Parsed
    /\ phase' = "parsed"
    /\ UNCHANGED <<file, readable, scmVars>>

\* config.Load fails: file missing, unknown key, wrong type.
LoadFails ==
    /\ phase = "parsed"
    /\ config # "none" /\ ~readable
    /\ Exits
    /\ UNCHANGED <<file, readable, scmVars>>

\* mergeConfig forgets to ask for the command line.
OverriddenAlways(s) == s \in file

\* mergeConfig: the file wins over whatever was not given on the command line.
Overridden(s) == s \in file /\ s \notin flags

Merge ==
    /\ phase = "parsed"
    /\ config # "none" => readable
    /\ value' = IF config = "none" THEN value
                ELSE [s \in Setting |-> IF Overridden(s) THEN "yaml" ELSE value[s]]
    /\ phase' = "merged"
    /\ UNCHANGED <<file, readable, by, flags, modes, env, config, scmVars>>

-----------------------------------------------------------------------------
(* The modes, in the order main looks at them                              *)

ShowVersion ==
    /\ phase = "merged"
    /\ "version" \in modes
    /\ Exits
    /\ UNCHANGED <<file, readable, scmVars>>

Installing   == phase = "merged" /\ "install" \in modes /\ "version" \notin modes
Uninstalling == phase = "merged" /\ "uninstall" \in modes /\ modes \cap {"version", "install"} = {}
Running      == phase = "merged" /\ modes \cap {"version", "install", "uninstall"} = {}

\* installService leaves out only the flag that brought it here.
SkipInstall == {"install"}

\* The flags installService leaves out.
Skip == {"install", "uninstall", "ping", "version"}

\* installService bakes the settings but not the path of the file.
BakeNoConfig == [flags |-> flags, modes |-> modes \ Skip, config |-> FALSE]

\* installService bakes the flags given on the command line, except the modes.
Bake == [flags |-> flags, modes |-> modes \ Skip, config |-> config = "flag"]

\* svc.Install: CreateService succeeds if there is no such service yet.
CreateService ==
    /\ Installing
    /\ ~service
    /\ service' = TRUE
    /\ baked' = Bake
    /\ picked' = [value |-> value, config |-> config]
    /\ phase' = "created"
    /\ UNCHANGED <<file, readable, procVars, source, torn>>

\* The SCM cannot be reached, has the service already, or refuses it.
InstallRefused ==
    /\ Installing
    /\ Exits
    /\ UNCHANGED <<file, readable, scmVars>>

\* The event source is registered, unless it is there already.
SourceRegistered ==
    /\ phase = "created"
    /\ ~source
    /\ source' = TRUE
    /\ Exits
    /\ UNCHANGED <<file, readable, service, baked, picked, torn>>

\* Install returns the error and leaves the service.
SourceRefusedKeeping ==
    /\ phase = "created"
    /\ Exits
    /\ UNCHANGED <<file, readable, scmVars>>

\* It cannot be registered: the service is taken back.
SourceRefused ==
    /\ phase = "created"
    /\ phase' = "rollback"
    /\ UNCHANGED <<file, readable, procVars, scmVars>>

\* The Delete of the rollback, whose error is dropped.
RollBack ==
    /\ phase = "rollback"
    /\ \/ service' = FALSE /\ UNCHANGED torn
       \/ torn' = TRUE /\ UNCHANGED service
    /\ Exits
    /\ UNCHANGED <<file, readable, baked, source, picked>>

\* svc.Uninstall: OpenService and Delete.
DeleteService ==
    /\ Uninstalling
    /\ service
    /\ service' = FALSE
    /\ phase' = "deleted"
    /\ UNCHANGED <<file, readable, procVars, baked, source, picked, torn>>

\* There is no such service, or the SCM refuses to delete it.
UninstallRefused ==
    /\ Uninstalling
    /\ Exits
    /\ UNCHANGED <<file, readable, scmVars>>

\* eventlog.Remove succeeds, or fails and leaves the source as it is.
RemoveSource ==
    /\ phase = "deleted"
    /\ \/ source /\ source' = FALSE /\ Exits
       \/ UNCHANGED source /\ Exits
    /\ UNCHANGED <<file, readable, service, baked, picked, torn>>

\* A required setting has no value.
MissingArguments ==
    /\ Running
    /\ \E s \in Required : value[s] = "default"
    /\ Exits
    /\ UNCHANGED <<file, readable, scmVars>>

\* The settings are there; ssv.New may still refuse the URL or a CIDR.
ClientReady == Running /\ \A s \in Required : value[s] # "default"

ClientRefused ==
    /\ ClientReady
    /\ Exits
    /\ UNCHANGED <<file, readable, scmVars>>

Ping ==
    /\ ClientReady
    /\ "ping" \in modes
    /\ phase' = "pinging"
    /\ UNCHANGED <<file, readable, procVars, scmVars>>

NoAction ==
    /\ ClientReady
    /\ "ping" \notin modes
    /\ value[Listen] = "default"
    /\ Exits
    /\ UNCHANGED <<file, readable, scmVars>>

Serve ==
    /\ ClientReady
    /\ "ping" \notin modes
    /\ value[Listen] # "default"
    /\ phase' = "serving"
    /\ UNCHANGED <<file, readable, procVars, scmVars>>

\* runPing and svc.Run or runFn end, well or with an error.
Ends ==
    /\ phase \in {"pinging", "serving"}
    /\ Exits
    /\ UNCHANGED <<file, readable, scmVars>>

-----------------------------------------------------------------------------
Next ==
    \/ Launch \/ ServiceStarts \/ LoadFails \/ Merge
    \/ ShowVersion \/ CreateService \/ InstallRefused \/ SourceRegistered \/ SourceRefused
    \/ RollBack \/ DeleteService \/ UninstallRefused \/ RemoveSource
    \/ MissingArguments \/ ClientRefused \/ Ping \/ NoAction \/ Serve \/ Ends

Spec == Init /\ [][Next]_vars

-----------------------------------------------------------------------------
(* What starting and installing promise                                    *)

\* "on every service start the binary is invoked with the same [flags] the
\* operator picked at install time" (main.go): whatever the service's own
\* environment, a setting that came from the command line, or from a file named
\* on it, comes from there again.
InstalledAsPicked ==
    by = "scm" /\ phase \notin {"parsed", "exited"} =>
        \A s \in Setting :
            \/ picked.value[s] = "flag"
            \/ picked.value[s] = "yaml" /\ picked.config = "flag"
            => value[s] = picked.value[s]

\* The service serves or fails: it never installs, removes or pings anything,
\* whichever flags were given beside -install.
ServiceOnlyServes ==
    by = "scm" => phase \in {"parsed", "merged", "serving", "exited"}

\* "Roll back the service if event log registration failed" (svc_windows.go):
\* once an install or an uninstall is over there is no service without its event
\* source, however often either failed, unless the roll back itself failed.
RegisteredWithSource ==
    service /\ phase \notin {"created", "rollback"} => source \/ torn

\* "explicit command-line flag > matching env var > YAML config > built-in
\* default" (config.go): a value from the environment outranks the file.
EnvOutranksFile ==
    phase \notin {"parsed", "exited"} => \A s \in env \ flags : value[s] = "env"
=============================================================================
