CONSTANTS
    Devices = {d1}
    NoDevice = NoDevice
    Users = {u1}
    NoUser = NoUser
    MaxOffers = 1
    MaxFaults = 0
    Endpoints = {}
    NoEndpoint = NoEndpoint
    Msgs = {m1}
    NoMsg = NoMsg
    Texts = {x1}
    NoText = NoText
    Images = {i1}
    NoImage = NoImage
    TrialLimit = 1
    Handlers = {h1}
    Tasks = {t1}
    Scenarios = {"all"}
    First = {}
SPECIFICATION MCSpec
SYMMETRY SlotSymmetry
INVARIANT ReplayIsFree
