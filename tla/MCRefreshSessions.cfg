SPECIFICATION Spec
CONSTANTS
    None = None
    Users = {u1, u2}
    Profiles = {a, b}
    Devices = {d1}
    Sessions = {s1, s2}
    Handlers = {h1, h2}
    MaxTokens = 3
SYMMETRY Interchangeable
INVARIANTS TokenUsedOnce CookieIsBacked Compensated
PROPERTY EndIsFinal
CHECK_DEADLOCK FALSE
