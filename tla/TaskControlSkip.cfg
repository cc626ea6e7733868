SPECIFICATION Spec
CONSTANTS
    Workers = {w1}
    MaxAttempts = 1
    MaxChallenges = 1
    MaxSkips = 1
    MaxActions = 1
PROPERTIES
    SkipIsHonoured
