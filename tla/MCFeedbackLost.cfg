SPECIFICATION Spec
ACTION_CONSTRAINT TurnoutBound
CONSTANTS
    Long = long
    Quiet = quiet
    Short = short
    Blanks = blanks
    Telemetry = telemetry
    Sessions = {s1}
    Denials = {long, quiet, short, blanks, telemetry}
    Source <- MCSource
    Size <- MCSize
    Blank = {blanks}
    Hooks = {h1}
    RingCap = 1
    HookDeaths = 0
    DbFails = FALSE
INVARIANTS
    SentIsNotLost
