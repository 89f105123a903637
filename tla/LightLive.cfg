CONSTANTS
    Devices = {d1}
    NoDevice = NoDevice
    Users = {}
    NoUser = NoUser
    MaxOffers = 0
    MaxFaults = 1
    Endpoints = {e1}
    NoEndpoint = NoEndpoint
    Msgs = {m1}
    NoMsg = NoMsg
    Texts = {x1}
    NoText = NoText
    Images = {}
    NoImage = NoImage
    TrialLimit = 1
    Handlers = {h1}
    Tasks = {t1, t2}
    Scenarios = {"all"}
    First = {}
SPECIFICATION MCFairSpec
PROPERTIES RunsEnd ChangesArrive
