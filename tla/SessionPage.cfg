SPECIFICATION FairSpec
CONSTANTS
    Logins = {l1, l2}
    Rotations = {r1, r2}
    MaxFaults = 1
    MaxEndings = 1
    MaxExpiries = 1
CHECK_DEADLOCK FALSE
INVARIANTS
    OneLivePerLogin
    LiveIsHeld
PROPERTIES
    BouncedOnlyWhenOver
    EveryRequestSettles
