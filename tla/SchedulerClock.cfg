SPECIFICATION Spec
CONSTANTS
    Day = 12
    Poll = 1
    CoolingPoll = 2
    ErrorRetry = 2
    PageDelay = 4
    ErrorDelay = 2
    Cooldown = 6
    Retries = 2
INVARIANTS
    MidnightPunctual
PROPERTIES
    OncePerMidnight
    MissedOnlyWhileAway
    RequestsPaced
    DailyGoesOn
