CONSTANTS
    Regions = {home, market}
    NoRegion = NoRegion
    NoRecord = NoRecord
    MaxOperations = 1
    MaxCrashes = 1
    MaxMoves = 0
    RestoreAttempts = 2
SPECIFICATION Spec
INVARIANTS
    InstalledIsOurs
