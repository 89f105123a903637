CONSTANTS
    Devices = {d1, d2}
    NoDevice = NoDevice
    Users = {u1, u2}
    NoUser = NoUser
    MaxOffers = 3
    MaxFaults = 1
    Endpoints = {e1, e2}
    NoEndpoint = NoEndpoint
    Msgs = {m1, m2}
    NoMsg = NoMsg
    Texts = {x1, x2}
    NoText = NoText
    Images = {}
    NoImage = NoImage
    TrialLimit = 1
    Handlers = {h1, h2}
    Tasks = {t1, t2}
    Scenarios = {"runs", "pairing", "push", "replay"}
    First = {d1, u1, m1, x1}
SPECIFICATION MCSpec
SYMMETRY SlotSymmetry
INVARIANTS TypeOK EndIsAnnounced TextReplayIsFree TrialIsMetered OfferLinksOnce ConnectedIsTrue NoChangeLost
PROPERTIES KeepsPromise ForgottenWasRefused
