CONSTANTS
    Reminders = {r1}
    Passes = {p1, p2}
    MaxEdits = 2
    MaxMoves = 1
    MaxReminderFaults = 1
    Arms = {a1, a2}
    Contacts = {c1}
    Places = {i1, i2}
    Handlers = {h1, h2}
    MaxWatches = 1
    MaxWatchFaults = 1
    Rules = {q1}
    Ticks = {t1, t2}
    Arrivals = {m1, m2}
    MaxRuleEdits = 1
    MaxRuleFaults = 1
    Found = {f1, f2}
    Senders = {s1, s2}
    Replies = {y1, y2}
    MaxCommitmentFaults = 1
    ItemCount = 2
    Limit = 1
    FallbackLimit = 1
    MaxSpam = 1
    MaxAgendas = 1
    MaxDigestFaults = 1
    Sessions = {g1, g2}
    Polls = {v1}
    Requests = {x1, x2}
    Keys = {k1}
    MaxCredentials = 1
    DailyCap = 1
    MaxAgentFaults = 1
    Turns = {t3}
    Messages = {s3}
    Flushes = {l1, l2}
    MaxCrashes = 1
    MaxLate = 1
    HookCalls = {w1, w2}
    HookKeys = {j1}
    NoKey = NoKey
    SmsProviders = {"twilio", "telnyx"}
    Replays = {z1, z2}
    HookCap = 1
    ClaimAttempts = 2
    MaxSmsFaults = 1
    Parts = {"reminders", "watches", "rules", "commitments", "digests", "agents", "outbox", "sms"}
SPECIFICATION Spec
INVARIANTS JobsTypeOK NotifiedWasSent RowFiresOnce OneShotRunsOnce ReplyTracksOnce OnePromptPerSender KeyActsOnce CostIsOnRecord SentWasIngested TextReachesOnce
CHECK_DEADLOCK FALSE
