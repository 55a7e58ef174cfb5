SPECIFICATION StartupFairSpec
CONSTANTS
    Tasks = {t1, t2}
    Workers = {w1}
    MaxRotations = 1
    MaxFaults = 2
PROPERTY TasksFollowRotation
CHECK_DEADLOCK FALSE
