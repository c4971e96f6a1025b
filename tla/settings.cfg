SPECIFICATION Spec
CONSTANTS
    Big = Big
    Small = Small
    None = None
    Profile = {Big, Small}
    Proxy = {proxy}
    Cores <- ProfileCores
    Version <- ProfileVersion
    RealCores = 3
    RealVersion = 12
    Lost <- AllExchanges
    MaxWrong = 2
    MaxUses = 3
INVARIANTS
    CoresAsProfiled
    SettingsOwn
    DeviceUsable
