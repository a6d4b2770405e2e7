SPECIFICATION Spec
CONSTANTS
    url = url
    listen = listen
    Setting <- MCSetting
    EnvSetting <- MCEnvSetting
    Required <- MCEnvSetting
    Listen = listen
INVARIANTS
    TypeOK
    InstalledAsPicked
    ServiceOnlyServes
    RegisteredWithSource
