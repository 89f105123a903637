CONSTANTS
    EventCount = 2
    MaxTime = 3
    PurgeAttempts = 1
    MaxInFlight = 1
    MaxPurgeFaults = 2
    MaxLegacy = 1
    Provs = {p1, p2}
    Hooks = {e1}
    Deliveries = {w1, w2}
    NoHook = NoHook
    MaxSwitches = 1
    Solo = {p1, w1}
    Parts = {"boundaries", "legacy", "histories", "both", "provision", "webhook", "check"}
SPECIFICATION Spec
INVARIANTS PurgeTypeOK HistoryIsGone InFlightIsBounded BillingTypeOK OverageNeedsConsent WebhookHasOneOwner
PROPERTIES UnprovenIsKept
CHECK_DEADLOCK FALSE
