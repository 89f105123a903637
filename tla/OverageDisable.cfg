CONSTANTS
    EventCount = 1
    MaxTime = 1
    PurgeAttempts = 1
    MaxInFlight = 1
    MaxPurgeFaults = 0
    MaxLegacy = 0
    Provs = {p1, p2}
    Hooks = {}
    Deliveries = {}
    NoHook = NoHook
    MaxSwitches = 1
    Solo = {p1}
    Parts = {"optin"}
SPECIFICATION Spec
PROPERTIES DisableIsKept
