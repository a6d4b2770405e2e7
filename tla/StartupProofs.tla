--------------------------- MODULE StartupProofs ---------------------------
(***************************************************************************)
(* Theorems about module Startup, for any set of settings.  IInv says, of  *)
(* every process, which source each of its settings has, and, of the       *)
(* service, that the baked arguments are those of the process that         *)
(* installed it.                                                           *)
(***************************************************************************)
EXTENDS Startup, TLAPS

Merged == phase \notin {"parsed", "exited"}

\* Only a file that was read gives values, and none before it was merged.
ValueInv ==
    /\ Merged /\ config # "none" => readable
    /\ \A s \in Setting :
         value[s] = "yaml" <=> Merged /\ config # "none" /\ s \in file \ flags

\* The arguments in the SCM, against what the installing process ran with.
BakedInv ==
    /\ baked.modes = {}
    /\ baked.config <=> picked.config = "flag"
    /\ \A s \in Setting :
         /\ picked.value[s] = "flag" <=> s \in baked.flags
         /\ picked.value[s] = "yaml" => s \in file

\* The process the SCM started has those arguments.
ScmInv ==
    by = "scm" =>
        /\ modes = {} /\ flags = baked.flags
        /\ baked.config => config = "flag"
        /\ phase \in {"parsed", "merged", "serving"}

\* svc.Uninstall reaches the event source only without the service.
DeletedInv == phase = "deleted" => ~service

IInv == TypeOK /\ ValueInv /\ BakedInv /\ ScmInv /\ DeletedInv /\ RegisteredWithSource

\* A process that ends leaves nothing behind but the SCM and the event source.
LEMMA ExitsInv ==
    ASSUME IInv, Exits, UNCHANGED <<file, readable>>, TypeOK', BakedInv', RegisteredWithSource'
    PROVE  IInv'
<1>1. ValueInv'
  BY DEF Exits, NoValue, ValueInv, Merged
<1>2. ScmInv'
  BY DEF Exits, ScmInv
<1> QED
  BY <1>1, <1>2 DEF IInv, DeletedInv, Exits

\* ... and it leaves the invariant's parts about them to the steps before.
LEMMA ExitsType ==
    ASSUME IInv, Exits, UNCHANGED <<file, readable, baked, picked>>,
           service' \in BOOLEAN, source' \in BOOLEAN, torn' \in BOOLEAN,
           service' => source' \/ torn'
    PROVE  IInv'
<1>1. TypeOK'
  <2>1. value' \in [Setting -> Source] /\ (\A s \in Setting : value'[s] = "flag" <=> s \in flags')
    BY DEF Exits, NoValue, Source
  <2> QED
    BY <2>1 DEF IInv, TypeOK, Exits, ConfigFrom
<1>2. BakedInv'
  BY DEF IInv, BakedInv
<1>3. RegisteredWithSource'
  BY DEF RegisteredWithSource
<1> QED
  BY <1>1, <1>2, <1>3, ExitsInv

LEMMA InitIInv == Init => IInv
<1> SUFFICES ASSUME Init PROVE IInv
  OBVIOUS
<1> USE DEF Init, NoValue, NoArgs
<1>1. TypeOK
  BY DEF TypeOK, Source, ConfigFrom, Arguments
<1>2. ValueInv /\ BakedInv /\ ScmInv /\ DeletedInv /\ RegisteredWithSource
  BY DEF ValueInv, Merged, BakedInv, ScmInv, DeletedInv, RegisteredWithSource
<1> QED
  BY <1>1, <1>2 DEF IInv

\* flag.Parse gives a source to every setting: the command line where it can.
LEMMA ParsedValues ==
    ASSUME Parsed, flags' \subseteq Setting, env' \subseteq Setting
    PROVE  /\ value' \in [Setting -> Source]
           /\ \A s \in Setting : /\ value'[s] = "flag" <=> s \in flags'
                                 /\ value'[s] # "yaml"
  BY DEF Parsed, Source

LEMMA StepIInv == IInv /\ [Next]_vars => IInv'
<1> SUFFICES ASSUME IInv, [Next]_vars PROVE IInv'
  OBVIOUS
<1> USE DEF procVars, scmVars
<1>1. CASE Launch
  <2>1. env' \subseteq Setting /\ flags' \subseteq Setting
    BY <1>1, SettingAssumption DEF Launch
  <2>2. TypeOK'
    BY <1>1, <2>1, ParsedValues DEF Launch, IInv, TypeOK
  <2>3. ValueInv'
    BY <1>1, <2>1, ParsedValues DEF Launch, ValueInv, Merged
  <2> QED
    BY <1>1, <2>2, <2>3 DEF Launch, IInv, BakedInv, ScmInv, DeletedInv, RegisteredWithSource
<1>2. CASE ServiceStarts
  <2>1. env' \subseteq Setting /\ flags' \subseteq Setting /\ modes' = {}
    BY <1>2, SettingAssumption DEF ServiceStarts, IInv, TypeOK, Arguments, BakedInv
  <2>2. TypeOK'
    BY <1>2, <2>1, ParsedValues DEF ServiceStarts, IInv, TypeOK, ConfigFrom
  <2>3. ValueInv'
    BY <1>2, <2>1, ParsedValues DEF ServiceStarts, ValueInv, Merged
  <2> QED
    BY <1>2, <2>1, <2>2, <2>3 DEF ServiceStarts, IInv, BakedInv, ScmInv, DeletedInv, RegisteredWithSource
<1>3. CASE Merge
  <2>1. \A s \in Setting : value[s] # "yaml"
    BY <1>3 DEF Merge, IInv, ValueInv, Merged
  <2>2. /\ value' \in [Setting -> Source]
        /\ \A s \in Setting : /\ value'[s] = "flag" <=> s \in flags
                              /\ value'[s] = "yaml" <=> config # "none" /\ s \in file \ flags
    BY <1>3, <2>1 DEF Merge, Overridden, IInv, TypeOK, Source
  <2>3. TypeOK' /\ ValueInv'
    BY <1>3, <2>2 DEF Merge, IInv, TypeOK, ValueInv, Merged
  <2> QED
    BY <1>3, <2>3 DEF Merge, IInv, BakedInv, ScmInv, DeletedInv, RegisteredWithSource
<1>4. CASE CreateService
  <2>1. TypeOK'
    BY <1>4 DEF CreateService, Installing, Bake, Arguments, IInv, TypeOK, Mode
  <2>2. ValueInv'
    BY <1>4 DEF CreateService, Installing, IInv, ValueInv, Merged
  <2>3. BakedInv'
    BY <1>4 DEF CreateService, Installing, Bake, Skip, IInv, TypeOK, Mode, ValueInv, BakedInv
  <2>4. ScmInv' /\ DeletedInv' /\ RegisteredWithSource'
    BY <1>4 DEF CreateService, Installing, IInv, ScmInv, DeletedInv, RegisteredWithSource
  <2> QED
    BY <2>1, <2>2, <2>3, <2>4 DEF IInv
<1>5. CASE SourceRefused \/ DeleteService \/ Ping \/ Serve
  <2>1. TypeOK' /\ ValueInv'
    BY <1>5 DEF SourceRefused, DeleteService, Uninstalling, Ping, Serve, ClientReady, Running,
                IInv, TypeOK, ValueInv, Merged
  <2>2. BakedInv' /\ DeletedInv' /\ RegisteredWithSource'
    BY <1>5 DEF SourceRefused, DeleteService, Uninstalling, Ping, Serve, ClientReady, Running,
                IInv, BakedInv, DeletedInv, RegisteredWithSource
  <2>3. ScmInv'
    BY <1>5 DEF SourceRefused, DeleteService, Uninstalling, Ping, Serve, ClientReady, Running,
                IInv, ScmInv
  <2> QED
    BY <2>1, <2>2, <2>3 DEF IInv
<1>6. CASE SourceRegistered \/ RollBack \/ RemoveSource
  <2>1. service' => source' \/ torn'
    BY <1>6 DEF SourceRegistered, RollBack, RemoveSource, IInv, DeletedInv, RegisteredWithSource
  <2> QED
    BY <1>6, <2>1, ExitsType DEF SourceRegistered, RollBack, RemoveSource, IInv, TypeOK
<1>7. CASE \/ LoadFails \/ ShowVersion \/ InstallRefused \/ UninstallRefused
           \/ MissingArguments \/ ClientRefused \/ NoAction \/ Ends
  <2>1. Exits /\ UNCHANGED <<file, readable, scmVars>> /\ phase \notin {"created", "rollback"}
    BY <1>7 DEF LoadFails, ShowVersion, InstallRefused, UninstallRefused, MissingArguments,
                ClientRefused, NoAction, Ends, Installing, Uninstalling, ClientReady, Running
  <2> QED
    BY <2>1, ExitsType DEF IInv, TypeOK, RegisteredWithSource
<1>8. CASE UNCHANGED vars
  BY <1>8 DEF vars, IInv, TypeOK, ValueInv, Merged, BakedInv, ScmInv, DeletedInv, RegisteredWithSource
<1> QED
  BY <1>1, <1>2, <1>3, <1>4, <1>5, <1>6, <1>7, <1>8 DEF Next

\* IInv holds in every state.
THEOREM Invariance == Spec => []IInv
  BY InitIInv, StepIInv, PTL DEF Spec

\* Every setting has one source, and the command line always wins.
THEOREM TypeCorrect == Spec => []TypeOK
<1>1. IInv => TypeOK
  BY DEF IInv
<1> QED
  BY Invariance, <1>1, PTL

\* A service started by the SCM runs with the settings it was installed with.
THEOREM StartsAsInstalled == Spec => []InstalledAsPicked
<1>1. IInv => InstalledAsPicked
  BY DEF IInv, TypeOK, ValueInv, Merged, BakedInv, ScmInv, InstalledAsPicked
<1> QED
  BY Invariance, <1>1, PTL

\* A service started by the SCM does nothing but serve.
THEOREM OnlyServes == Spec => []ServiceOnlyServes
<1>1. IInv => ServiceOnlyServes
  BY DEF IInv, ScmInv, ServiceOnlyServes
<1> QED
  BY Invariance, <1>1, PTL

\* No half-installed service is left, unless taking it back failed too.
THEOREM NoHalfInstall == Spec => []RegisteredWithSource
<1>1. IInv => RegisteredWithSource
  BY DEF IInv
<1> QED
  BY Invariance, <1>1, PTL
=============================================================================
