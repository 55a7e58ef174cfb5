SPECIFICATION StartupFairSpec
CONSTANTS
    Tasks = {t1, t2}
    Workers = {w1}
    MaxRotations = 1
    MaxFaults = 2
INVARIANTS StartupTypeOK ServingHasSchema MigrationsAreSerial LockIsTheUpgraders
PROPERTIES EverybodyComesUp WorkersFollowRotation
CHECK_DEADLOCK FALSE
